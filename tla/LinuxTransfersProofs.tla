------------------------- MODULE LinuxTransfersProofs -------------------------
(***************************************************************************)
(* Transfers of the Linux backend, of any length, cut into any number of   *)
(* URBs, with any number of submissions.                                   *)
(***************************************************************************)
EXTENDS LinuxTransfers, FiniteSetTheorems, SequenceTheorems, WellFoundedInduction, TLAPS

-----------------------------------------------------------------------------
(* Intervals: the URBs to submit, to discard and to reap                   *)

Interval(m, n) == [k \in 1..(n - m + 1) |-> m + k - 1]

LEMMA LenIs ==
    ASSUME NEW n \in Nat, NEW s, s = [i \in 1..n |-> s[i]]
    PROVE  Len(s) = n /\ DOMAIN s = 1..n
<1> DEFINE S == {s[i] : i \in 1..n}
<1>1. s \in [1..n -> S]
  OBVIOUS
<1> HIDE DEF S
<1>2. s \in Seq(S)
  BY <1>1, SeqDef
<1>3. DOMAIN s = 1..n /\ DOMAIN s = 1..Len(s) /\ Len(s) \in Nat
  BY <1>1, <1>2, LenProperties
<1> QED BY <1>3

LEMMA IntervalIs ==
    ASSUME NEW m \in Nat, NEW n \in Nat, m <= n + 1
    PROVE  /\ Interval(m, n) \in Seq(Nat \cup {-1}) /\ Len(Interval(m, n)) = n - m + 1
           /\ \A k \in 1..(n - m + 1) : Interval(m, n)[k] = m + k - 1
<1> DEFINE z == n - m + 1
<1>1. z \in Nat
  OBVIOUS
<1>2. \A k \in 1..z : m + k - 1 \in Nat \cup {-1}
  OBVIOUS
<1>3. Interval(m, n) \in [1..z -> Nat \cup {-1}] /\ \A k \in 1..z : Interval(m, n)[k] = m + k - 1
  BY <1>2 DEF Interval
<1> HIDE DEF z
<1>4. Interval(m, n) \in Seq(Nat \cup {-1}) /\ Interval(m, n) = [i \in 1..z |-> Interval(m, n)[i]]
  BY <1>1, <1>3, SeqDef
<1>5. Len(Interval(m, n)) = z
  BY <1>1, <1>4, LenIs
<1> QED BY <1>3, <1>4, <1>5 DEF z

LEMMA IntervalEmpty == ASSUME NEW m \in Nat PROVE Interval(m + 1, m) = <<>>
<1>1. m + 1 \in Nat /\ m + 1 <= m + 1 /\ m - (m + 1) + 1 = 0
  OBVIOUS
<1> QED BY <1>1, IntervalIs, EmptySeq

LEMMA IntervalSame ==
    ASSUME NEW s \in Seq(Nat \cup {-1}), NEW m \in Nat, NEW n \in Nat, m <= n + 1,
           Len(s) = n - m + 1, \A k \in 1..(n - m + 1) : s[k] = m + k - 1
    PROVE  s = Interval(m, n)
<1>1. /\ Interval(m, n) \in Seq(Nat \cup {-1}) /\ Len(Interval(m, n)) = n - m + 1
      /\ \A k \in 1..(n - m + 1) : Interval(m, n)[k] = m + k - 1
  BY IntervalIs
<1> QED BY <1>1, SeqEqual

LEMMA IntervalSplits ==
    ASSUME NEW m \in Nat, NEW n \in Nat, m <= n
    PROVE  /\ Interval(m, n) # <<>> /\ Head(Interval(m, n)) = m
           /\ Tail(Interval(m, n)) = Interval(m + 1, n)
           /\ Len(Interval(m, n)) = 1 <=> m = n
<1> DEFINE s == Interval(m, n)
           t == Tail(s)
<1>1. /\ s \in Seq(Nat \cup {-1}) /\ Len(s) = n - m + 1 /\ 1 \in 1..(n - m + 1)
      /\ \A k \in 1..(n - m + 1) : s[k] = m + k - 1
  BY IntervalIs
<1> HIDE DEF s
<1>2. s # <<>> /\ Head(s) = m
  <2>1. s # <<>> /\ Head(s) = s[1]
    BY <1>1
  <2> QED BY <1>1, <2>1
<1>3. t \in Seq(Nat \cup {-1}) /\ Len(t) = Len(s) - 1 /\ \A k \in 1..Len(t) : t[k] = s[k + 1]
  BY <1>1, <1>2, HeadTailProperties
<1> HIDE DEF t
<1>4. m + 1 \in Nat /\ Len(t) = n - (m + 1) + 1 /\ m + 1 <= n + 1
  BY <1>1, <1>3
<1>5. ASSUME NEW k \in 1..(n - (m + 1) + 1) PROVE t[k] = (m + 1) + k - 1
  <2>1. k + 1 \in 1..(n - m + 1) /\ k \in 1..Len(t) /\ m + (k + 1) - 1 = (m + 1) + k - 1
    BY <1>4, <1>5
  <2> QED BY <1>1, <1>3, <2>1
<1>6. t = Interval(m + 1, n)
  BY <1>3, <1>4, <1>5, IntervalSame
<1>7. Len(s) = 1 <=> m = n
  BY <1>1
<1> QED BY <1>2, <1>6, <1>7 DEF s, t

LEMMA IntervalJoins ==
    ASSUME NEW m \in Nat, NEW n \in Nat, NEW p \in Nat, m <= n + 1, n <= p
    PROVE  Interval(m, n) \o Interval(n + 1, p) = Interval(m, p)
<1> DEFINE s == Interval(m, n)
           t == Interval(n + 1, p)
           z == s \o t
<1>1. /\ s \in Seq(Nat \cup {-1}) /\ Len(s) = n - m + 1
      /\ \A k \in 1..(n - m + 1) : s[k] = m + k - 1
  BY IntervalIs
<1>2. /\ t \in Seq(Nat \cup {-1}) /\ Len(t) = p - (n + 1) + 1
      /\ \A k \in 1..(p - (n + 1) + 1) : t[k] = (n + 1) + k - 1
  <2>1. n + 1 \in Nat /\ n + 1 <= p + 1
    OBVIOUS
  <2> QED BY <2>1, IntervalIs
<1> HIDE DEF s, t
<1>3. /\ z \in Seq(Nat \cup {-1}) /\ Len(z) = Len(s) + Len(t)
      /\ \A k \in 1..(Len(s) + Len(t)) : z[k] = IF k <= Len(s) THEN s[k] ELSE t[k - Len(s)]
  BY <1>1, <1>2, ConcatProperties
<1>4. Len(s) \in Nat /\ Len(t) \in Nat /\ Len(s) + Len(t) = p - m + 1
  BY <1>1, <1>2
<1> HIDE DEF z
<1>5. ASSUME NEW k \in 1..(p - m + 1) PROVE z[k] = m + k - 1
  <2>1. z[k] = IF k <= Len(s) THEN s[k] ELSE t[k - Len(s)]
    BY <1>3, <1>4
  <2>2. CASE k <= Len(s)
    <3>1. k \in 1..(n - m + 1)
      BY <1>1, <2>2
    <3> QED BY <1>1, <2>1, <2>2, <3>1
  <2>3. CASE ~(k <= Len(s))
    <3>1. /\ k - Len(s) \in 1..(p - (n + 1) + 1) /\ (n + 1) + (k - Len(s)) - 1 = m + k - 1
      BY <1>1, <1>2, <1>4, <2>3
    <3> QED BY <1>2, <2>1, <2>3, <3>1
  <2> QED BY <2>2, <2>3
<1>6. z = Interval(m, p)
  BY <1>3, <1>4, <1>5, IntervalSame
<1> QED BY <1>6 DEF z, s, t

LEMMA IntervalOne ==
    ASSUME NEW m \in Nat PROVE Interval(m, m) = <<m>>
<1>1. m <= m + 1 /\ m - m + 1 = 1 /\ Len(<<m>>) = 1 /\ <<m>> \in Seq(Nat \cup {-1})
  OBVIOUS
<1>2. \A k \in 1..1 : <<m>>[k] = m + k - 1
  OBVIOUS
<1> QED BY <1>1, <1>2, IntervalSame

LEMMA IntervalGrows ==
    ASSUME NEW m \in Nat, NEW n \in Nat, m <= n + 1
    PROVE  Append(Interval(m, n), n + 1) = Interval(m, n + 1)
<1>1. /\ Interval(m, n) \in Seq(Nat \cup {-1}) /\ n + 1 \in Nat /\ n <= n + 1
      /\ n + 1 \in Nat \cup {-1}
  BY IntervalIs
<1>2. Append(Interval(m, n), n + 1) = Interval(m, n) \o <<n + 1>>
  BY <1>1, AppendIsConcat
<1>3. Interval(n + 1, n + 1) = <<n + 1>>
  BY <1>1, IntervalOne
<1>4. Interval(m, n) \o Interval(n + 1, n + 1) = Interval(m, n + 1)
  BY <1>1, IntervalJoins
<1> QED BY <1>2, <1>3, <1>4

\* The URBs of a set that is an interval, in order.
LEMMA OrderOfInterval ==
    ASSUME NEW m \in Nat, NEW n \in Nat, m <= n + 1
    PROVE  Bulk!InOrder(m..n) = Interval(m, n) /\ Iso!InOrder(m..n) = Interval(m, n)
<1>1. /\ \A S : Bulk!Cardinality(S) = Cardinality(S)
      /\ \A S : Iso!Cardinality(S) = Cardinality(S)
  BY DEF Bulk!Cardinality, Iso!Cardinality, Cardinality
<1>2. Cardinality(m..n) = n - m + 1
  BY FS_Interval
<1>3. ASSUME NEW i \in m..n PROVE Cardinality({j \in m..n : j < i}) = i - m
  <2>1. {j \in m..n : j < i} = m..(i - 1)
    OBVIOUS
  <2>2. Cardinality(m..(i - 1)) = IF m > i - 1 THEN 0 ELSE (i - 1) - m + 1
    <3>1. m \in Int /\ i - 1 \in Int
      OBVIOUS
    <3> QED BY <3>1, FS_Interval
  <2>3. (IF m > i - 1 THEN 0 ELSE (i - 1) - m + 1) = i - m
    OBVIOUS
  <2> QED BY <2>1, <2>2, <2>3, Zenon
<1>4. \A i \in m..n, k \in 1..(n - m + 1) : i - m = k - 1 <=> i = m + k - 1
  OBVIOUS
<1>5. \A k \in 1..(n - m + 1) : m + k - 1 \in m..n
  OBVIOUS
<1>6. Bulk!InOrder(m..n) = [k \in 1..(n - m + 1) |-> m + k - 1]
  <2>1. Bulk!Cardinality(m..n) = n - m + 1
    BY <1>1, <1>2
  <2>2. ASSUME NEW k \in 1..(n - m + 1)
        PROVE  (CHOOSE i \in m..n : Bulk!Cardinality({j \in m..n : j < i}) = k - 1) = m + k - 1
    <3>1. \A i \in m..n : Bulk!Cardinality({j \in m..n : j < i}) = k - 1 <=> i = m + k - 1
      BY <1>1, <1>3, <1>4, Zenon
    <3> QED BY <1>5, <3>1, Zenon
  <2>3. Bulk!InOrder(m..n) = [k \in 1..Bulk!Cardinality(m..n) |->
           CHOOSE i \in m..n : Bulk!Cardinality({j \in m..n : j < i}) = k - 1]
    BY Zenon DEF Bulk!InOrder
  <2>4. [k \in 1..(n - m + 1) |->
           CHOOSE i \in m..n : Bulk!Cardinality({j \in m..n : j < i}) = k - 1]
        = [k \in 1..(n - m + 1) |-> m + k - 1]
    BY <2>2, Zenon
  <2> QED BY <2>1, <2>3, <2>4, Zenon
<1>7. Iso!InOrder(m..n) = [k \in 1..(n - m + 1) |-> m + k - 1]
  <2>1. Iso!Cardinality(m..n) = n - m + 1
    BY <1>1, <1>2
  <2>2. ASSUME NEW k \in 1..(n - m + 1)
        PROVE  (CHOOSE i \in m..n : Iso!Cardinality({j \in m..n : j < i}) = k - 1) = m + k - 1
    <3>1. \A i \in m..n : Iso!Cardinality({j \in m..n : j < i}) = k - 1 <=> i = m + k - 1
      BY <1>1, <1>3, <1>4, Zenon
    <3> QED BY <1>5, <3>1, Zenon
  <2>3. Iso!InOrder(m..n) = [k \in 1..Iso!Cardinality(m..n) |->
           CHOOSE i \in m..n : Iso!Cardinality({j \in m..n : j < i}) = k - 1]
    BY Zenon DEF Iso!InOrder
  <2>4. [k \in 1..(n - m + 1) |->
           CHOOSE i \in m..n : Iso!Cardinality({j \in m..n : j < i}) = k - 1]
        = [k \in 1..(n - m + 1) |-> m + k - 1]
    BY <2>2, Zenon
  <2> QED BY <2>1, <2>3, <2>4, Zenon
<1> QED BY <1>6, <1>7, Zenon DEF Interval

-----------------------------------------------------------------------------
(* The invariant                                                           *)

\* The URBs of an array go the same way in the same order: the first a are
\* retired, those up to b handed back by the kernel, those up to c in flight
\* and the others not submitted.
Phase(i, a, b, c) == IF i <= a THEN "reaped" ELSE IF i <= b THEN "done"
                     ELSE IF i <= c THEN "queued" ELSE "new"
Phases(a, b, c) ==
    /\ a <= b /\ b <= c /\ c <= Len(urbs)
    /\ Len(urbs) \in Nat /\ urbs = [i \in 1..Len(urbs) |-> urbs[i]]
    /\ \A i \in 1..Len(urbs) : urbs[i].st = Phase(i, a, b, c)

\* An URB that was reaped is the next to be retired, those to be reaped follow.
Reaping(a, b) ==
    /\ reaped = 0 \/ (reaped = a + 1 /\ a < b)
    /\ doneq = Interval(IF reaped = 0 THEN a + 1 ELSE a + 2, b)

\* The loops over the array, which only a disconnection frees meanwhile:
\* submission is at the first URB that is new, and a loop of DISCARDURB has
\* passed over none that is in flight.
Looping(a, b, c) ==
    /\ lock \in {"free", "submit", "discard"}
    /\ lock = "free" => todo = <<>>
    /\ lock = "submit" => /\ allocated \/ ~polled
                          /\ num_retired = 0 /\ a = 0 /\ c < Len(urbs)
                          /\ todo = Interval(c + 1, Len(urbs))
    /\ lock = "discard" => /\ allocated \/ ~polled
                           /\ \E m, n \in 1..Len(urbs) : /\ m <= n /\ todo = Interval(m, n)
                                                         /\ b = c \/ m <= b + 1

\* What is not submitted counts as retired, and when the array is freed the
\* kernel has nothing of it.
Counted(a, b, c) ==
    /\ allocated => Len(urbs) # 0
    /\ allocated /\ lock # "submit" => num_retired = a + (Len(urbs) - c)
    /\ ~allocated => reaped = 0 /\ b = c /\ (polled => a = b /\ lock = "free")

Gone(b, c) ==
    /\ ~attached => b = c
    /\ ~polled => ~attached /\ reaped = 0

Progress(a, b, c) ==
    Phases(a, b, c) /\ Reaping(a, b) /\ Looping(a, b, c) /\ Counted(a, b, c) /\ Gone(b, c)

Flags ==
    /\ allocated \in BOOLEAN /\ attached \in BOOLEAN /\ polled \in BOOLEAN
    /\ pending \in BOOLEAN /\ cancelled \in BOOLEAN

States == {"new", "queued", "done", "reaped"}

BulkRecords ==
    [st : States, status : Bulk!KernelStatuses \cup {"ENOENT"}, actual_length : Nat]

\* Only the last URB of a transfer can overflow.
BulkUrb(i, u) ==
    /\ u \in BulkRecords
    /\ u.status = "EOVERFLOW" => i = Len(urbs)

\* A transfer is pending as long as its array is there, and until the report
\* is made that was decided when it was freed.
BulkInv ==
    /\ Flags /\ \E a, b, c \in 0..Len(urbs) : Progress(a, b, c)
    /\ \A i \in 1..Len(urbs) : BulkUrb(i, urbs[i])
    /\ reporting \in BOOLEAN /\ (reporting => ~allocated /\ polled)
    /\ pending <=> allocated \/ reporting
    /\ reap_action = "CANCELLED" => cancelled
    /\ reap_status \in {"COMPLETED", "ERROR", "STALL", "OVERFLOW"}

IsoUrb(u) == u = [st |-> u.st, status |-> u.status, packets |-> u.packets]

IsoInv ==
    /\ Flags /\ \E a, b, c \in 0..Len(urbs) : Progress(a, b, c)
    /\ \A i \in 1..Len(urbs) : IsoUrb(urbs[i])
    /\ pending <=> allocated
    /\ reap_action = "CANCELLED" => cancelled
    /\ cancelled => lock # "submit" /\ (allocated \/ result # "none")
    /\ ~allocated /\ result = "none" => doneq = <<>>

ControlInv ==
    /\ Flags /\ (allocated <=> pending)
    /\ urb \in {"none", "queued", "done"} /\ lock \in {"free", "submit", "discard"}
    /\ polled /\ urb # "none" <=> pending /\ lock # "submit"
    /\ ~pending => lock = "free" \/ ~polled
    /\ ~attached => urb # "queued"
    /\ ~polled => ~attached
    /\ reap_action = "CANCELLED" => cancelled

TransfersInv ==
    /\ type \in {"bulk", "iso", "control"}
    /\ type = "bulk" => BulkInv
    /\ type = "iso" => IsoInv
    /\ type = "control" => ControlInv

-----------------------------------------------------------------------------
(* Steps of the array, common to bulk and isochronous transfers            *)

LEMMA ArraySubmitted ==
    ASSUME NEW n \in Nat \ {0}, Len(urbs') = n, urbs' = [i \in 1..n |-> urbs'[i]],
           \A i \in 1..n : urbs'[i].st = "new",
           lock' = "submit", todo' = Interval(1, n), allocated', num_retired' = 0, reaped' = 0,
           doneq' = <<>>, attached' = attached, polled' = polled, ~polled => ~attached
    PROVE  Progress(0, 0, 0)'
<1>1. Phases(0, 0, 0)'
  BY DEF Phases, Phase
<1>2. Reaping(0, 0)'
  <2>1. Interval(0 + 1, 0) = <<>>
    BY IntervalEmpty
  <2> QED BY <2>1 DEF Reaping
<1>3. Looping(0, 0, 0)' /\ Counted(0, 0, 0)' /\ Gone(0, 0)'
  BY DEF Looping, Counted, Gone
<1> QED BY <1>1, <1>2, <1>3 DEF Progress

LEMMA UrbSubmitted ==
    ASSUME NEW a \in Nat, NEW b \in Nat, NEW c \in Nat, Progress(a, b, c),
           lock = "submit", attached, Len(urbs') = Len(urbs),
           urbs' = [i \in 1..Len(urbs) |-> urbs'[i]],
           \A i \in 1..Len(urbs) :
             urbs'[i].st = IF i = Head(todo) THEN "queued" ELSE urbs[i].st,
           lock' = IF Head(todo) = Len(urbs) THEN "free" ELSE "submit", todo' = Tail(todo),
           UNCHANGED <<allocated, num_retired, reaped, doneq, attached, polled>>
    PROVE  Progress(a, b, c + 1)' /\ c + 1 <= Len(urbs)
<1>1. /\ Len(urbs) \in Nat /\ c < Len(urbs) /\ a <= b /\ b <= c /\ allocated /\ num_retired = 0 /\ a = 0
      /\ todo = Interval(c + 1, Len(urbs))
      /\ \A i \in 1..Len(urbs) : urbs[i].st = Phase(i, a, b, c)
  BY DEF Progress, Looping, Phases, Gone
<1>2. Head(todo) = c + 1 /\ todo' = Interval(c + 2, Len(urbs))
  <2>1. c + 1 \in Nat /\ c + 1 <= Len(urbs) /\ (c + 1) + 1 = c + 2
    BY <1>1
  <2> QED BY <1>1, <2>1, IntervalSplits
<1>3. Phases(a, b, c + 1)'
  <2>1. ASSUME NEW i \in 1..Len(urbs) PROVE urbs'[i].st = Phase(i, a, b, c + 1)
    <3>1. urbs[i].st = Phase(i, a, b, c) /\ i \in Nat
      BY <1>1
    <3>2. urbs'[i].st = IF i = c + 1 THEN "queued" ELSE urbs[i].st
      BY <1>2
    <3>3. a <= c + 1 /\ (i = c + 1 => ~(i <= a) /\ ~(i <= b) /\ i <= c + 1)
          /\ (i # c + 1 => (i <= c + 1 <=> i <= c))
      BY <1>1, <3>1
    <3> QED BY <3>1, <3>2, <3>3 DEF Phase
  <2> QED BY <1>1, <2>1 DEF Phases
<1>4. Reaping(a, b)' /\ Counted(a, b, c + 1)' /\ Gone(b, c + 1)'
  <2>1. Reaping(a, b)'
    BY DEF Progress, Reaping
  <2>2. Gone(b, c + 1)'
    BY DEF Progress, Gone
  <2>3. lock' # "submit" => c + 1 = Len(urbs) /\ 0 = 0 + (Len(urbs) - (c + 1))
    BY <1>1, <1>2
  <2>4. Counted(a, b, c + 1)'
    BY <1>1, <2>3 DEF Progress, Counted
  <2> QED BY <2>1, <2>2, <2>4
<1>5. Looping(a, b, c + 1)'
  <2>1. CASE c + 1 = Len(urbs)
    <3>1. Interval(c + 2, Len(urbs)) = <<>>
      <4>1. c + 2 = Len(urbs) + 1
        BY <1>1, <2>1
      <4> QED BY <1>1, <4>1, IntervalEmpty
    <3> QED BY <1>2, <2>1, <3>1 DEF Looping
  <2>2. CASE c + 1 # Len(urbs)
    <3>1. c + 1 < Len(urbs) /\ (c + 1) + 1 = c + 2 /\ lock' = "submit"
      BY <1>1, <1>2, <2>2
    <3> QED BY <1>1, <1>2, <3>1 DEF Looping
  <2> QED BY <2>1, <2>2
<1> QED BY <1>1, <1>3, <1>4, <1>5 DEF Progress

LEMMA FirstRefused ==
    ASSUME NEW a \in Nat, NEW b \in Nat, NEW c \in Nat, Progress(a, b, c),
           lock = "submit", Head(todo) = 1, ~allocated', lock' = "free", todo' = <<>>,
           UNCHANGED <<urbs, num_retired, reaped, doneq, attached, polled>>
    PROVE  Progress(a, b, c)' /\ b = c /\ doneq = <<>>
<1>1. Len(urbs) \in Nat /\ c < Len(urbs) /\ a <= b /\ b <= c /\ todo = Interval(c + 1, Len(urbs))
  BY DEF Progress, Looping, Phases
<1>2. c = 0 /\ a = 0 /\ b = 0
  <2>1. c + 1 \in Nat /\ c + 1 <= Len(urbs)
    BY <1>1
  <2>2. c + 1 = 1
    BY <1>1, <2>1, IntervalSplits
  <2> QED BY <1>1, <2>2
<1>3. reaped = 0
  BY <1>2 DEF Progress, Reaping
<1>4. Interval(0 + 1, 0) = <<>>
  BY IntervalEmpty
<1>5. doneq = <<>>
  BY <1>2, <1>3, <1>4 DEF Progress, Reaping
<1>6. Phases(a, b, c)' /\ Reaping(a, b)' /\ Gone(b, c)'
  BY DEF Progress, Phases, Reaping, Gone
<1>7. Looping(a, b, c)' /\ Counted(a, b, c)'
  BY <1>2, <1>3 DEF Looping, Counted
<1> QED BY <1>2, <1>5, <1>6, <1>7 DEF Progress

LEMMA LaterRefused ==
    ASSUME NEW a \in Nat, NEW b \in Nat, NEW c \in Nat, Progress(a, b, c),
           lock = "submit", Head(todo) > 1, num_retired' = Len(urbs) - Head(todo) + 1,
           \/ lock' = "free" /\ todo' = <<>>
           \/ lock' = "discard" /\ todo' = [j \in 1..(Head(todo) - 1) |-> j],
           UNCHANGED <<urbs, allocated, reaped, doneq, attached, polled>>
    PROVE  Progress(a, b, c)'
<1>1. /\ Len(urbs) \in Nat /\ c < Len(urbs) /\ a <= b /\ b <= c /\ a = 0
      /\ todo = Interval(c + 1, Len(urbs)) /\ (allocated \/ ~polled)
  BY DEF Progress, Looping, Phases
<1>2. Head(todo) = c + 1
  <2>1. c + 1 \in Nat /\ c + 1 <= Len(urbs)
    BY <1>1
  <2> QED BY <1>1, <2>1, IntervalSplits
<1>3. c \in 1..Len(urbs) /\ num_retired' = a + (Len(urbs) - c) /\ Head(todo) - 1 = c
  BY <1>1, <1>2
<1>4. [j \in 1..c |-> j] = Interval(1, c)
  <2>1. \A j \in 1..c : 1 + j - 1 = j
    OBVIOUS
  <2>2. c - 1 + 1 = c
    OBVIOUS
  <2> QED BY <2>1, <2>2 DEF Interval
<1>5. Looping(a, b, c)'
  <2>1. 1 \in 1..Len(urbs) /\ 1 <= c /\ 1 <= b + 1
    BY <1>3
  <2> QED BY <1>1, <1>3, <1>4, <2>1 DEF Looping
<1>6. Phases(a, b, c)' /\ Reaping(a, b)' /\ Gone(b, c)'
  BY DEF Progress, Phases, Reaping, Gone
<1>7. Counted(a, b, c)'
  BY <1>1, <1>3 DEF Progress, Counted
<1> QED BY <1>5, <1>6, <1>7 DEF Progress

LEMMA HandedBack ==
    ASSUME NEW a \in Nat, NEW b \in Nat, NEW c \in Nat, Progress(a, b, c),
           NEW d \in Nat, b <= d, d <= c, Len(urbs') = Len(urbs),
           urbs' = [i \in 1..Len(urbs) |-> urbs'[i]],
           \A i \in 1..Len(urbs) :
             urbs'[i].st = IF i \in (b + 1)..d THEN "done" ELSE urbs[i].st,
           doneq' = doneq \o Interval(b + 1, d), ~attached' => d = c, attached' => attached,
           UNCHANGED <<allocated, num_retired, lock, todo, reaped, polled>>
    PROVE  Progress(a, d, c)'
<1>1. /\ Len(urbs) \in Nat /\ c <= Len(urbs) /\ a <= b /\ b <= c
      /\ \A i \in 1..Len(urbs) : urbs[i].st = Phase(i, a, b, c)
  BY DEF Progress, Phases
<1>2. Phases(a, d, c)'
  <2>1. ASSUME NEW i \in 1..Len(urbs) PROVE urbs'[i].st = Phase(i, a, d, c)
    BY <1>1 DEF Phase
  <2> QED BY <1>1, <2>1 DEF Phases
<1>3. Reaping(a, d)'
  <2> DEFINE f == IF reaped = 0 THEN a + 1 ELSE a + 2
  <2>1. doneq = Interval(f, b) /\ (reaped = 0 \/ (reaped = a + 1 /\ a < b))
    BY DEF Progress, Reaping
  <2>2. f \in Nat /\ f <= b + 1
    BY <1>1, <2>1
  <2>3. Interval(f, b) \o Interval(b + 1, d) = Interval(f, d)
    <3> HIDE DEF f
    <3> QED BY <2>2, IntervalJoins
  <2>4. a < b => a < d
    BY <1>1
  <2> QED BY <2>1, <2>3, <2>4 DEF Reaping
<1>4. Looping(a, d, c)'
  <2>1. ASSUME NEW m \in Nat, b = c \/ m <= b + 1 PROVE d = c \/ m <= d + 1
    BY <1>1, <2>1
  <2> QED BY <2>1 DEF Progress, Looping
<1>5. Counted(a, d, c)' /\ Gone(d, c)'
  <2>1. b = c => d = c /\ d = b
    BY <1>1
  <2>2. Counted(a, d, c)'
    BY <2>1 DEF Progress, Counted
  <2>3. Gone(d, c)'
    BY DEF Progress, Gone
  <2> QED BY <2>2, <2>3
<1> QED BY <1>2, <1>3, <1>4, <1>5 DEF Progress

LEMMA Discarded ==
    ASSUME NEW a \in Nat, NEW b \in Nat, NEW c \in Nat, Progress(a, b, c),
           lock = "discard", Len(urbs') = Len(urbs),
           urbs' = [i \in 1..Len(urbs) |-> urbs'[i]],
           NEW d \in Nat,
           \/ Head(todo) \notin (b + 1)..c /\ d = b /\ doneq' = doneq
           \/ Head(todo) \in (b + 1)..c /\ d = Head(todo) /\ doneq' = Append(doneq, d),
           \A i \in 1..Len(urbs) :
             urbs'[i].st = IF i \in (b + 1)..c /\ i = Head(todo) THEN "done" ELSE urbs[i].st,
           todo' = Tail(todo), lock' = IF Len(todo) = 1 THEN "free" ELSE "discard",
           UNCHANGED <<allocated, num_retired, reaped, attached, polled>>
    PROVE  /\ Progress(a, d, c)' /\ d <= c
           /\ Head(todo) \in (b + 1)..c => Head(todo) = b + 1
<1>1. /\ Len(urbs) \in Nat /\ c <= Len(urbs) /\ a <= b /\ b <= c /\ (allocated \/ ~polled)
      /\ \A i \in 1..Len(urbs) : urbs[i].st = Phase(i, a, b, c)
  BY DEF Progress, Phases, Looping
<1>2. PICK m \in 1..Len(urbs), n \in 1..Len(urbs) :
        m <= n /\ todo = Interval(m, n) /\ (b = c \/ m <= b + 1)
  BY DEF Progress, Looping
<1>3. /\ m \in Nat /\ n \in Nat /\ Head(todo) = m /\ todo' = Interval(m + 1, n)
      /\ (Len(todo) = 1 <=> m = n)
  <2>1. m \in Nat /\ n \in Nat /\ m <= n
    BY <1>1, <1>2
  <2>2. /\ Head(Interval(m, n)) = m /\ Tail(Interval(m, n)) = Interval(m + 1, n)
        /\ (Len(Interval(m, n)) = 1 <=> m = n)
    BY <2>1, IntervalSplits
  <2> QED BY <1>2, <2>1, <2>2, Zenon
<1>4. Head(todo) \in (b + 1)..c => Head(todo) = b + 1
  BY <1>1, <1>2, <1>3
<1>5. b <= d /\ d <= c /\ (d = b \/ d = b + 1)
  BY <1>1, <1>3, <1>4
<1>6. ASSUME NEW i \in 1..Len(urbs)
      PROVE  i \in (b + 1)..c /\ i = Head(todo) <=> i \in (b + 1)..d
  BY <1>1, <1>3, <1>4, <1>5
<1>7. Phases(a, d, c)'
  <2>1. ASSUME NEW i \in 1..Len(urbs) PROVE urbs'[i].st = Phase(i, a, d, c)
    <3>1. urbs'[i].st = IF i \in (b + 1)..d THEN "done" ELSE urbs[i].st
      BY <1>6
    <3> QED BY <1>1, <1>5, <3>1 DEF Phase
  <2> QED BY <1>1, <1>5, <2>1 DEF Phases
<1>8. Reaping(a, d)'
  <2>1. CASE Head(todo) \notin (b + 1)..c
    BY <2>1 DEF Progress, Reaping
  <2>2. CASE Head(todo) \in (b + 1)..c
    <3> DEFINE f == IF reaped = 0 THEN a + 1 ELSE a + 2
    <3>1. doneq = Interval(f, b) /\ (reaped = 0 \/ (reaped = a + 1 /\ a < b))
      BY DEF Progress, Reaping
    <3>2. f \in Nat /\ f <= b + 1 /\ d = b + 1
      BY <1>1, <1>4, <2>2, <3>1, SMTT(30)
    <3>3. Append(Interval(f, b), d) = Interval(f, d)
      <4> HIDE DEF f
      <4> QED BY <3>2, IntervalGrows
    <3>4. a < b => a < d
      BY <1>1, <3>2
    <3> QED BY <2>2, <3>1, <3>3, <3>4 DEF Reaping
  <2> QED BY <2>1, <2>2
<1>9. Looping(a, d, c)'
  <2>1. CASE m = n
    <3>1. Interval(m + 1, n) = <<>>
      BY <1>3, <2>1, IntervalEmpty
    <3> QED BY <1>3, <2>1, <3>1 DEF Looping
  <2>2. CASE m # n
    <3>1. m + 1 \in 1..Len(urbs) /\ m + 1 <= n /\ (d = c \/ m + 1 <= d + 1)
      BY <1>1, <1>2, <1>3, <1>4, <1>5, <2>2
    <3> QED BY <1>1, <1>2, <1>3, <2>2, <3>1 DEF Looping
  <2> QED BY <2>1, <2>2
<1>10. Counted(a, d, c)' /\ Gone(d, c)'
  <2>1. b = c => d = c
    BY <1>1, <1>5
  <2>2. Counted(a, d, c)'
    BY <1>1 DEF Progress, Counted
  <2>3. Gone(d, c)'
    BY <2>1 DEF Progress, Gone
  <2> QED BY <2>2, <2>3
<1> QED BY <1>4, <1>5, <1>7, <1>8, <1>9, <1>10 DEF Progress

LEMMA Taken ==
    ASSUME NEW a \in Nat, NEW b \in Nat, NEW c \in Nat, Progress(a, b, c),
           reaped = 0, polled, doneq # <<>>, reaped' = Head(doneq), doneq' = Tail(doneq),
           UNCHANGED <<urbs, allocated, num_retired, lock, todo, attached, polled>>
    PROVE  Progress(a, b, c)' /\ Head(doneq) = a + 1 /\ a < b /\ allocated
<1>1. a <= b /\ doneq = Interval(a + 1, b)
  BY DEF Progress, Phases, Reaping
<1>2. a < b
  <2>1. a = b => Interval(a + 1, b) = <<>>
    BY IntervalEmpty
  <2> QED BY <1>1, <2>1
<1>3. Head(doneq) = a + 1 /\ Tail(doneq) = Interval(a + 2, b)
  <2>1. a + 1 \in Nat /\ a + 1 <= b /\ (a + 1) + 1 = a + 2
    BY <1>2
  <2>2. Head(Interval(a + 1, b)) = a + 1 /\ Tail(Interval(a + 1, b)) = Interval((a + 1) + 1, b)
    BY <2>1, IntervalSplits
  <2> QED BY <1>1, <2>1, <2>2, Zenon
<1>4. a + 1 # 0 /\ allocated
  BY <1>2 DEF Progress, Counted
<1>5. Phases(a, b, c)' /\ Looping(a, b, c)'
  BY DEF Progress, Phases, Looping
<1>6. Reaping(a, b)' /\ Counted(a, b, c)' /\ Gone(b, c)'
  BY <1>2, <1>3, <1>4 DEF Progress, Reaping, Counted, Gone
<1> QED BY <1>2, <1>3, <1>4, <1>5, <1>6 DEF Progress

\* The URB reaped is handled: the loop over the others may start.
LEMMA Retired ==
    ASSUME NEW a \in Nat, NEW b \in Nat, NEW c \in Nat, Progress(a, b, c),
           reaped # 0, lock = "free", allocated, num_retired' = num_retired + 1, reaped' = 0,
           Len(urbs') = Len(urbs), urbs' = [i \in 1..Len(urbs) |-> urbs'[i]],
           \A i \in 1..Len(urbs) : urbs'[i].st = IF i = reaped THEN "reaped" ELSE urbs[i].st,
           allocated' \in BOOLEAN,
           ~allocated' => lock' = "free" /\ (reaped = Len(urbs) \/ num_retired + 1 = Len(urbs)),
           \/ lock' = "free" /\ todo' = <<>>
           \/ /\ lock' = "discard" /\ reaped < Len(urbs)
              /\ todo' = Interval(reaped + 1, Len(urbs)),
           UNCHANGED <<doneq, attached, polled>>
    PROVE  Progress(a + 1, b, c)' /\ reaped = a + 1 /\ a < b
<1>1. /\ Len(urbs) \in Nat /\ c <= Len(urbs) /\ a <= b /\ b <= c /\ a < b /\ reaped = a + 1
      /\ Len(urbs) # 0 /\ num_retired = a + (Len(urbs) - c)
      /\ doneq = Interval(a + 2, b)
      /\ \A i \in 1..Len(urbs) : urbs[i].st = Phase(i, a, b, c)
  BY DEF Progress, Phases, Reaping, Counted
<1>2. Phases(a + 1, b, c)'
  <2>1. ASSUME NEW i \in 1..Len(urbs) PROVE urbs'[i].st = Phase(i, a + 1, b, c)
    <3>1. urbs[i].st = Phase(i, a, b, c) /\ i \in Nat
      BY <1>1
    <3>2. urbs'[i].st = IF i = a + 1 THEN "reaped" ELSE urbs[i].st
      BY <1>1
    <3>3. (i = a + 1 => i <= a + 1) /\ (i # a + 1 => (i <= a + 1 <=> i <= a))
      BY <3>1
    <3> QED BY <3>1, <3>2, <3>3 DEF Phase
  <2>2. a + 1 <= b
    BY <1>1
  <2> QED BY <1>1, <2>1, <2>2 DEF Phases
<1>3. Reaping(a + 1, b)'
  <2>1. (a + 1) + 1 = a + 2
    OBVIOUS
  <2> QED BY <1>1, <2>1 DEF Reaping
<1>4. ~allocated' => b = c /\ a + 1 = b
  BY <1>1
<1>5. Counted(a + 1, b, c)'
  <2>1. num_retired' = (a + 1) + (Len(urbs) - c)
    BY <1>1
  <2> QED BY <1>1, <1>4, <2>1 DEF Counted
<1>6. Gone(b, c)'
  BY DEF Progress, Gone
<1>7. Looping(a + 1, b, c)'
  <2>1. CASE lock' = "free"
    BY <2>1 DEF Looping
  <2>2. CASE lock' = "discard"
    <3>1. /\ reaped + 1 \in 1..Len(urbs) /\ Len(urbs) \in 1..Len(urbs)
          /\ reaped + 1 <= Len(urbs) /\ reaped + 1 <= b + 1
          /\ todo' = Interval(reaped + 1, Len(urbs)) /\ allocated'
      BY <1>1, <2>2
    <3> QED BY <2>2, <3>1 DEF Looping
  <2> QED BY <2>1, <2>2
<1> QED BY <1>1, <1>2, <1>3, <1>5, <1>6, <1>7 DEF Progress

LEMMA Cancelled ==
    ASSUME NEW a \in Nat, NEW b \in Nat, NEW c \in Nat, Progress(a, b, c),
           lock = "free", allocated, lock' = "discard", todo' = Interval(1, Len(urbs)),
           UNCHANGED <<urbs, allocated, num_retired, reaped, doneq, attached, polled>>
    PROVE  Progress(a, b, c)'
<1>1. Len(urbs) \in Nat /\ Len(urbs) # 0
  BY DEF Progress, Phases, Counted
<1>2. 1 \in 1..Len(urbs) /\ Len(urbs) \in 1..Len(urbs) /\ 1 <= Len(urbs) /\ 1 <= b + 1
  BY <1>1
<1>3. Looping(a, b, c)'
  BY <1>2 DEF Looping
<1>4. Phases(a, b, c)' /\ Reaping(a, b)' /\ Gone(b, c)'
  BY DEF Progress, Phases, Reaping, Gone
<1>5. Counted(a, b, c)'
  BY DEF Progress, Counted
<1> QED BY <1>3, <1>4, <1>5 DEF Progress

LEMMA Disconnected ==
    ASSUME NEW a \in Nat, NEW b \in Nat, NEW c \in Nat, Progress(a, b, c),
           ~attached, reaped = 0, ~polled', ~allocated',
           UNCHANGED <<urbs, num_retired, lock, todo, reaped, doneq, attached>>
    PROVE  Progress(a, b, c)'
<1>1. b = c
  BY DEF Progress, Gone
<1>2. Phases(a, b, c)' /\ Reaping(a, b)'
  BY DEF Progress, Phases, Reaping
<1>3. Looping(a, b, c)' /\ Counted(a, b, c)' /\ Gone(b, c)'
  BY <1>1 DEF Progress, Looping, Counted, Gone
<1> QED BY <1>2, <1>3 DEF Progress

\* An array in which the state of one URB changes.
WithState(f, j, v) == [f EXCEPT ![j].st = v]

LEMMA StateChanges ==
    ASSUME NEW n \in Nat, NEW f, f = [i \in 1..n |-> f[i]], NEW j \in 1..n, NEW v \in States,
           f[j] \in BulkRecords
    PROVE  /\ Len(WithState(f, j, v)) = n
           /\ WithState(f, j, v) = [i \in 1..n |-> WithState(f, j, v)[i]]
           /\ \A i \in 1..n : i # j => WithState(f, j, v)[i] = f[i]
           /\ WithState(f, j, v)[j].st = v
           /\ WithState(f, j, v)[j].status = f[j].status
           /\ WithState(f, j, v)[j].actual_length = f[j].actual_length
           /\ WithState(f, j, v)[j] \in BulkRecords
<1> DEFINE g == WithState(f, j, v)
<1>1. DOMAIN f = 1..n
  BY Zenon
<1>2. g = [i \in 1..n |-> IF i = j THEN [f[j] EXCEPT !.st = v] ELSE f[i]]
  BY <1>1, Zenon DEF WithState
<1>3. g = [i \in 1..n |-> g[i]] /\ \A i \in 1..n : i # j => g[i] = f[i]
  BY <1>2, Zenon
<1>4. g[j] = [f[j] EXCEPT !.st = v]
  BY <1>2, Zenon
<1> HIDE DEF g
<1>5. f[j] = [st |-> f[j].st, status |-> f[j].status, actual_length |-> f[j].actual_length]
      /\ f[j].status \in Bulk!KernelStatuses \cup {"ENOENT"} /\ f[j].actual_length \in Nat
  BY DEF BulkRecords
<1>6. g[j] = [st |-> v, status |-> f[j].status, actual_length |-> f[j].actual_length]
  BY <1>4, <1>5
<1>7. Len(g) = n
  BY <1>3, LenIs
<1>8. g[j] \in BulkRecords
  BY <1>5, <1>6 DEF BulkRecords
<1> QED BY <1>3, <1>6, <1>7, <1>8 DEF g

-----------------------------------------------------------------------------
(* The steps of a bulk transfer                                            *)

LEMMA NumUrbsPositive ==
    ASSUME TransfersAssumption, NEW n \in BulkLengths PROVE Bulk!NumUrbs(n) \in Nat \ {0}
<1> DEFINE d == (n + MAX_BULK_BUFFER_LENGTH - 1) \div MAX_BULK_BUFFER_LENGTH
<1>1. n \in Nat /\ MAX_BULK_BUFFER_LENGTH \in Nat \ {0}
  BY DEF TransfersAssumption
<1>2. d \in Int
  BY <1>1
<1> HIDE DEF d
<1>3. (IF 1 > d THEN 1 ELSE d) \in Nat \ {0}
  BY <1>2
<1> QED BY <1>3 DEF Bulk!NumUrbs, Bulk!Max, d

LEMMA BulkSubmit ==
    ASSUME TransfersAssumption, BulkInv, NEW n \in BulkLengths, NEW out \in BOOLEAN,
           Bulk!Submit(n, out)
    PROVE  BulkInv'
<1>1. Bulk!NumUrbs(n) \in Nat \ {0}
  BY NumUrbsPositive
<1> DEFINE z == Bulk!NumUrbs(n)
<1> HIDE DEF z
<1>2. /\ urbs' = [i \in 1..z |-> Bulk!URB("new", "OK", 0)] /\ todo' = [i \in 1..z |-> i]
      /\ z \in Nat \ {0}
  BY <1>1, Zenon DEF Bulk!Submit, z
<1>3. /\ urbs' = [i \in 1..z |-> urbs'[i]]
      /\ \A i \in 1..z : urbs'[i] = [st |-> "new", status |-> "OK", actual_length |-> 0]
  BY <1>2, Zenon DEF Bulk!URB
<1>4. Len(urbs') = z
  <2>1. z \in Nat
    BY <1>2
  <2> QED BY <1>3, <2>1, LenIs
<1>5. todo' = Interval(1, z)
  <2>1. \A i \in 1..z : 1 + i - 1 = i
    BY <1>2
  <2>2. z - 1 + 1 = z
    BY <1>2
  <2> QED BY <1>2, <2>1, <2>2 DEF Interval
<1>6. PICK a, b, c \in 0..Len(urbs) : Progress(a, b, c)
  BY DEF BulkInv
<1>7. reaped' = 0 /\ (~polled => ~attached)
  BY <1>6 DEF Bulk!Submit, Progress, Counted, Gone
<1>8. Progress(0, 0, 0)'
  <2>1. \A i \in 1..z : urbs'[i].st = "new"
    BY <1>3
  <2>2. /\ lock' = "submit" /\ allocated' /\ num_retired' = 0 /\ doneq' = <<>>
        /\ attached' = attached /\ polled' = polled
    BY DEF Bulk!Submit
  <2> QED BY <1>2, <1>3, <1>4, <1>5, <1>7, <2>1, <2>2, ArraySubmitted
<1>9. (\E x, y, z_ \in 0..Len(urbs) : Progress(x, y, z_))'
  <2>1. 0 \in 0..Len(urbs')
    BY <1>2, <1>4
  <2> QED BY <1>8, <2>1
<1>10. (\A i \in 1..Len(urbs) : BulkUrb(i, urbs[i]))'
  BY <1>3, <1>4 DEF BulkUrb, BulkRecords, States, Bulk!KernelStatuses
<1>11. Flags' /\ (pending <=> allocated \/ reporting)' /\ (reap_action = "CANCELLED" => cancelled)'
  BY DEF Bulk!Submit, BulkInv, Flags
<1>12. (reporting \in BOOLEAN /\ (reporting => ~allocated /\ polled))'
  BY DEF Bulk!Submit, BulkInv, Flags
<1>13. (reap_status \in {"COMPLETED", "ERROR", "STALL", "OVERFLOW"})'
  BY DEF Bulk!Submit
<1> QED BY <1>9, <1>10, <1>11, <1>12, <1>13 DEF BulkInv

LEMMA BulkSubmitUrb ==
    ASSUME BulkInv, Bulk!SubmitUrb PROVE BulkInv'
<1>1. PICK a, b, c \in 0..Len(urbs) : Progress(a, b, c)
  BY DEF BulkInv
<1>2. /\ Len(urbs) \in Nat /\ c < Len(urbs) /\ todo = Interval(c + 1, Len(urbs))
      /\ urbs = [i \in 1..Len(urbs) |-> urbs[i]]
  BY <1>1 DEF Progress, Phases, Looping, Bulk!SubmitUrb
<1> DEFINE j == Head(todo)
<1>3. j \in 1..Len(urbs)
  <2>1. c + 1 \in Nat /\ c + 1 <= Len(urbs)
    BY <1>2
  <2>2. Head(Interval(c + 1, Len(urbs))) = c + 1
    BY <1>2, <2>1, IntervalSplits
  <2> QED BY <1>2, <2>1, <2>2
<1>4. urbs' = WithState(urbs, j, "queued")
  BY DEF Bulk!SubmitUrb, WithState
<1> HIDE DEF j
<1>5. \A i \in 1..Len(urbs) : BulkUrb(i, urbs[i])
  BY DEF BulkInv
<1>6. /\ Len(urbs') = Len(urbs) /\ urbs' = [i \in 1..Len(urbs) |-> urbs'[i]]
      /\ \A i \in 1..Len(urbs) : i # j => urbs'[i] = urbs[i]
      /\ urbs'[j].st = "queued" /\ urbs'[j].status = urbs[j].status
      /\ urbs'[j] \in BulkRecords
  <2>1. urbs[j] \in BulkRecords
    BY <1>3, <1>5 DEF BulkUrb
  <2>2. "queued" \in States
    BY DEF States
  <2> QED BY <1>2, <1>3, <1>4, <2>1, <2>2, StateChanges
<1>7. Progress(a, b, c + 1)' /\ c + 1 <= Len(urbs)
  <2>1. \A i \in 1..Len(urbs) : urbs'[i].st = IF i = Head(todo) THEN "queued" ELSE urbs[i].st
    BY <1>6 DEF j
  <2>2. /\ lock = "submit" /\ attached /\ todo' = Tail(todo)
        /\ lock' = IF Head(todo) = Len(urbs) THEN "free" ELSE "submit"
        /\ UNCHANGED <<allocated, num_retired, reaped, doneq, attached, polled>>
    BY DEF Bulk!SubmitUrb, Bulk!num_urbs, Bulk!tpriv, Bulk!kernel
  <2>3. a \in Nat /\ b \in Nat /\ c \in Nat
    BY <1>2
  <2> QED BY <1>1, <1>6, <2>1, <2>2, <2>3, UrbSubmitted
<1>8. (\E x, y, z \in 0..Len(urbs) : Progress(x, y, z))'
  <2>1. a \in 0..Len(urbs') /\ b \in 0..Len(urbs') /\ c + 1 \in 0..Len(urbs')
    BY <1>2, <1>6, <1>7
  <2> QED BY <1>7, <2>1
<1>9. (\A i \in 1..Len(urbs) : BulkUrb(i, urbs[i]))'
  BY <1>5, <1>6 DEF BulkUrb
<1>10. /\ UNCHANGED <<allocated, attached, polled, pending, cancelled, reporting, reap_status>>
       /\ reap_action' = reap_action
  BY DEF Bulk!SubmitUrb, Bulk!tpriv, Bulk!kernel, Bulk!user
<1> QED BY <1>8, <1>9, <1>10 DEF BulkInv, Flags

LEMMA BulkRefused ==
    ASSUME BulkInv, NEW errno,
           Bulk!FirstUrbRefused \/ Bulk!LaterUrbRefused(errno)
    PROVE  BulkInv'
<1>1. PICK a, b, c \in 0..Len(urbs) : Progress(a, b, c)
  BY DEF BulkInv
<1>2. Len(urbs) \in Nat /\ a \in Nat /\ b \in Nat /\ c \in Nat
  BY <1>1 DEF Progress, Phases
<1>3. CASE Bulk!FirstUrbRefused
  <2>1. /\ lock = "submit" /\ Head(todo) = 1 /\ ~allocated' /\ lock' = "free" /\ todo' = <<>>
        /\ UNCHANGED <<urbs, num_retired, reaped, doneq, attached, polled>>
    BY <1>3 DEF Bulk!FirstUrbRefused, Bulk!kernel
  <2>2. Progress(a, b, c)'
    BY <1>1, <1>2, <2>1, FirstRefused
  <2>3. ~reporting
    BY <1>1, <2>1 DEF Progress, Counted, BulkInv
  <2>4. UNCHANGED <<reporting, cancelled, reap_action, reap_status>> /\ ~allocated' /\ ~pending'
        /\ allocated' \in BOOLEAN /\ pending' \in BOOLEAN
    BY <1>3 DEF Bulk!FirstUrbRefused
  <2>5. (\E x, y, z \in 0..Len(urbs) : Progress(x, y, z))'
    BY <2>1, <2>2
  <2>6. (\A i \in 1..Len(urbs) : BulkUrb(i, urbs[i]))'
    BY <2>1 DEF BulkInv, BulkUrb
  <2>7. Flags'
    BY <2>1, <2>4 DEF BulkInv, Flags
  <2> QED BY <2>3, <2>4, <2>5, <2>6, <2>7 DEF BulkInv
<1>4. CASE Bulk!LaterUrbRefused(errno)
  <2>1. /\ lock = "submit" /\ Head(todo) > 1
        /\ num_retired' = num_retired + Len(urbs) - Head(todo) + 1
        /\ \/ lock' = "free" /\ todo' = <<>> /\ reap_action' = "COMPLETED_EARLY"
           \/ /\ lock' = "discard" /\ todo' = [j \in 1..(Head(todo) - 1) |-> j]
              /\ reap_action' = "SUBMIT_FAILED"
        /\ UNCHANGED <<urbs, allocated, reaped, doneq, attached, polled>>
    BY <1>4 DEF Bulk!LaterUrbRefused, Bulk!kernel, Bulk!num_urbs
  <2>2. Progress(a, b, c)'
    <3>1. num_retired = 0 /\ todo = Interval(c + 1, Len(urbs)) /\ c < Len(urbs)
      BY <1>1, <2>1 DEF Progress, Looping
    <3>2. num_retired' = Len(urbs) - Head(todo) + 1
      <4>1. c + 1 \in Nat /\ c + 1 <= Len(urbs)
        BY <1>2, <3>1
      <4>2. Head(todo) = c + 1
        BY <1>2, <3>1, <4>1, IntervalSplits
      <4> QED BY <1>2, <2>1, <3>1, <4>2
    <3>3. \/ lock' = "free" /\ todo' = <<>>
          \/ lock' = "discard" /\ todo' = [j \in 1..(Head(todo) - 1) |-> j]
      BY <2>1
    <3> QED BY <1>1, <1>2, <2>1, <3>2, <3>3, LaterRefused
  <2>3. /\ UNCHANGED <<reporting, cancelled, pending, reap_status>> /\ reap_action' # "CANCELLED"
    BY <1>4, <2>1 DEF Bulk!LaterUrbRefused, Bulk!user
  <2>4. (\E x, y, z \in 0..Len(urbs) : Progress(x, y, z))'
    BY <2>1, <2>2
  <2>5. (\A i \in 1..Len(urbs) : BulkUrb(i, urbs[i]))'
    BY <2>1 DEF BulkInv, BulkUrb
  <2>6. Flags'
    BY <2>1, <2>3 DEF BulkInv, Flags
  <2> QED BY <2>1, <2>3, <2>4, <2>5, <2>6 DEF BulkInv
<1> QED BY <1>3, <1>4

\* The URBs in flight, and the one the kernel hands back next.
LEMMA QueuedIs ==
    ASSUME NEW a \in Nat, NEW b \in Nat, NEW c \in Nat, Phases(a, b, c)
    PROVE  /\ Bulk!Queued = (b + 1)..c /\ Iso!Queued = (b + 1)..c
           /\ b # c => /\ (CHOOSE i \in Bulk!Queued : Bulk!Oldest(i)) = b + 1
                       /\ (CHOOSE i \in Iso!Queued : \A j \in Iso!Queued : i <= j) = b + 1
<1>1. /\ Len(urbs) \in Nat /\ c <= Len(urbs) /\ a <= b /\ b <= c
      /\ \A i \in 1..Len(urbs) : urbs[i].st = Phase(i, a, b, c)
  BY DEF Phases
<1>2. ASSUME NEW i \in 1..Len(urbs) PROVE urbs[i].st = "queued" <=> i \in (b + 1)..c
  BY <1>1 DEF Phase
<1>3. {i \in 1..Len(urbs) : urbs[i].st = "queued"} = (b + 1)..c
  BY <1>1, <1>2
<1>4. Bulk!Queued = (b + 1)..c /\ Iso!Queued = (b + 1)..c
  BY <1>3, Zenon DEF Bulk!Queued, Iso!Queued, Bulk!num_urbs, Iso!N
<1>5. ASSUME b # c
      PROVE  \A i \in (b + 1)..c : (\A j \in (b + 1)..c : i <= j) <=> i = b + 1
  BY <1>1, <1>5
<1>6. b # c => b + 1 \in (b + 1)..c
  BY <1>1
<1>7. b # c => (CHOOSE i \in (b + 1)..c : \A j \in (b + 1)..c : i <= j) = b + 1
  BY <1>5, <1>6, Zenon
<1> QED BY <1>4, <1>7, Zenon DEF Bulk!Oldest

LEMMA BulkHandsBack ==
    ASSUME BulkInv, NEW a \in 0..Len(urbs), NEW b \in 0..Len(urbs), NEW c \in 0..Len(urbs),
           Progress(a, b, c), NEW d \in Nat, b <= d, d <= c, Len(urbs') = Len(urbs),
           urbs' = [i \in 1..Len(urbs) |-> urbs'[i]],
           \A i \in 1..Len(urbs) : IF i \in (b + 1)..d
                                    THEN BulkUrb(i, urbs'[i]) /\ urbs'[i].st = "done"
                                    ELSE urbs'[i] = urbs[i],
           doneq' = doneq \o Interval(b + 1, d), ~attached' => d = c, attached' => attached,
           attached' \in BOOLEAN,
           UNCHANGED <<allocated, num_retired, lock, todo, reaped, polled, pending, cancelled,
                       reporting, reap_action, reap_status>>
    PROVE  BulkInv'
<1>1. Len(urbs) \in Nat /\ a \in Nat /\ b \in Nat /\ c \in Nat
  BY DEF Progress, Phases
<1>2. Progress(a, d, c)'
  <2>1. \A i \in 1..Len(urbs) : urbs'[i].st = IF i \in (b + 1)..d THEN "done" ELSE urbs[i].st
    OBVIOUS
  <2> QED BY <1>1, <2>1, HandedBack
<1>3. (\E x, y, z \in 0..Len(urbs) : Progress(x, y, z))'
  <2>1. d \in 0..Len(urbs')
    BY <1>1
  <2> QED BY <1>2, <2>1
<1>4. (\A i \in 1..Len(urbs) : BulkUrb(i, urbs[i]))'
  BY DEF BulkInv, BulkUrb
<1>5. Flags'
  BY DEF BulkInv, Flags
<1> QED BY <1>3, <1>4, <1>5 DEF BulkInv

LEMMA BulkAnswered ==
    ASSUME TransfersAssumption, BulkInv, NEW status_ \in Bulk!KernelStatuses, NEW n \in Nat,
           Bulk!DeviceAnswers(status_, n)
    PROVE  BulkInv'
<1>1. PICK a, b, c \in 0..Len(urbs) : Progress(a, b, c)
  BY DEF BulkInv
<1>2. /\ Len(urbs) \in Nat /\ a \in Nat /\ b \in Nat /\ c \in Nat /\ Phases(a, b, c)
      /\ a <= b /\ b <= c
  BY <1>1 DEF Progress, Phases
<1>3. Bulk!Queued = (b + 1)..c
  BY <1>2, QueuedIs
<1>4. b # c /\ (CHOOSE j \in Bulk!Queued : Bulk!Oldest(j)) = b + 1
  <2>1. (b + 1)..c # {}
    BY <1>3 DEF Bulk!DeviceAnswers
  <2>2. b # c
    BY <1>2, <2>1
  <2> QED BY <1>2, <2>2, QueuedIs
<1> DEFINE all == supports_flag_bulk_continuation /\ status_ # "OK"
           d == IF all THEN c ELSE b + 1
           rest == IF all THEN ((b + 1)..c) \ {b + 1} ELSE {}
<1>5. /\ d \in Nat /\ b + 1 <= d /\ d <= c /\ rest = (b + 2)..d
  <2>1. b + 1 <= c
    BY <1>2, <1>4
  <2>2. CASE all
    BY <1>2, <2>1, <2>2
  <2>3. CASE ~all
    BY <1>2, <2>1, <2>3
  <2> QED BY <2>2, <2>3
<1>6. /\ Bulk!Possible(b + 1, status_, n)
      /\ urbs' = [j \in 1..Len(urbs) |->
                    IF j = b + 1 THEN Bulk!URB("done", status_, n)
                    ELSE IF j \in rest THEN Bulk!URB("done", "ENOENT", 0)
                    ELSE urbs[j]]
      /\ doneq' = doneq \o <<b + 1>> \o Bulk!InOrder(rest)
  BY <1>3, <1>4, Zenon DEF Bulk!DeviceAnswers, Bulk!num_urbs
<1>7. /\ attached /\ attached' = attached
      /\ UNCHANGED <<allocated, num_retired, lock, todo, reaped, polled, pending, cancelled,
                     reporting, reap_action, reap_status>>
  BY DEF Bulk!DeviceAnswers, Bulk!tpriv, Bulk!user
<1> HIDE DEF d, rest, all
<1>8. /\ urbs' = [j \in 1..Len(urbs) |-> urbs'[j]] /\ Len(urbs') = Len(urbs)
  <2>1. urbs' = [j \in 1..Len(urbs) |-> urbs'[j]]
    BY <1>6, Zenon
  <2> QED BY <1>2, <2>1, LenIs
<1>9. ASSUME NEW i \in 1..Len(urbs)
      PROVE  IF i \in (b + 1)..d THEN BulkUrb(i, urbs'[i]) /\ urbs'[i].st = "done"
                                 ELSE urbs'[i] = urbs[i]
  <2>1. i \in (b + 1)..d <=> i = b + 1 \/ i \in rest
    BY <1>2, <1>5
  <2>2. CASE i = b + 1
    <3>1. urbs'[i] = [st |-> "done", status |-> status_, actual_length |-> n]
      BY <1>6, <2>2 DEF Bulk!URB
    <3>2. status_ = "EOVERFLOW" => i = Len(urbs)
      BY <1>6, <2>2 DEF Bulk!Possible, Bulk!num_urbs
    <3>3. urbs'[i] \in BulkRecords
      BY <3>1 DEF BulkRecords, States
    <3> QED BY <2>1, <2>2, <3>1, <3>2, <3>3 DEF BulkUrb
  <2>3. CASE i # b + 1 /\ i \in rest
    <3>1. urbs'[i] = [st |-> "done", status |-> "ENOENT", actual_length |-> 0]
      BY <1>6, <2>3 DEF Bulk!URB
    <3>2. urbs'[i] \in BulkRecords
      BY <3>1 DEF BulkRecords, States
    <3> QED BY <2>1, <2>3, <3>1, <3>2 DEF BulkUrb
  <2>4. CASE i # b + 1 /\ i \notin rest
    BY <1>6, <2>1, <2>4
  <2> QED BY <2>2, <2>3, <2>4
<1>10. doneq' = doneq \o Interval(b + 1, d)
  <2> DEFINE f == IF reaped = 0 THEN a + 1 ELSE a + 2
  <2>1. doneq = Interval(f, b) /\ (reaped = 0 \/ (reaped = a + 1 /\ a < b))
    BY <1>1 DEF Progress, Reaping
  <2>2. f \in Nat /\ f <= b + 1
    BY <1>2, <2>1
  <2> HIDE DEF f
  <2>3. Bulk!InOrder(rest) = Interval(b + 2, d)
    <3>1. b + 2 \in Nat /\ b + 2 <= d + 1
      BY <1>2, <1>5
    <3> QED BY <1>5, <3>1, OrderOfInterval
  <2>4. <<b + 1>> = Interval(b + 1, b + 1)
    BY <1>2, IntervalOne
  <2>5. Interval(f, b) \o Interval(b + 1, b + 1) = Interval(f, b + 1)
    <3>1. b + 1 \in Nat /\ b <= b + 1
      BY <1>2
    <3> QED BY <1>2, <2>2, <3>1, IntervalJoins
  <2>6. Interval(f, b + 1) \o Interval(b + 2, d) = Interval(f, d)
    <3>1. b + 1 \in Nat /\ f <= (b + 1) + 1 /\ (b + 1) + 1 = b + 2
      BY <1>2, <2>2
    <3>2. Interval(f, b + 1) \o Interval((b + 1) + 1, d) = Interval(f, d)
      BY <1>5, <2>2, <3>1, IntervalJoins
    <3> QED BY <3>1, <3>2
  <2>7. Interval(f, b) \o Interval(b + 1, d) = Interval(f, d)
    <3>1. b <= d
      BY <1>2, <1>5
    <3> QED BY <1>2, <1>5, <2>2, <3>1, IntervalJoins
  <2> QED BY <1>6, <2>1, <2>3, <2>4, <2>5, <2>6, <2>7, Zenon
<1>11. b <= d /\ attached' /\ attached' \in BOOLEAN
  BY <1>2, <1>5, <1>7 DEF BulkInv, Flags
<1> QED BY <1>1, <1>5, <1>7, <1>8, <1>9, <1>10, <1>11, BulkHandsBack

LEMMA BulkUnplugged ==
    ASSUME BulkInv, Bulk!Unplug PROVE BulkInv'
<1>1. PICK a, b, c \in 0..Len(urbs) : Progress(a, b, c)
  BY DEF BulkInv
<1>2. /\ Len(urbs) \in Nat /\ a \in Nat /\ b \in Nat /\ c \in Nat /\ Phases(a, b, c)
      /\ a <= b /\ b <= c
  BY <1>1 DEF Progress, Phases
<1>3. Bulk!Queued = (b + 1)..c
  BY <1>2, QueuedIs
<1>4. /\ urbs' = [i \in 1..Len(urbs) |-> IF i \in (b + 1)..c THEN Bulk!URB("done", "EOTHER", 0)
                                         ELSE urbs[i]]
      /\ doneq' = doneq \o Interval(b + 1, c)
  <2>1. Bulk!InOrder((b + 1)..c) = Interval(b + 1, c)
    <3>1. b + 1 \in Nat /\ b + 1 <= c + 1
      BY <1>2
    <3> QED BY <1>2, <3>1, OrderOfInterval
  <2> QED BY <1>3, <2>1, Zenon DEF Bulk!Unplug, Bulk!num_urbs
<1>5. /\ attached' = FALSE
      /\ UNCHANGED <<allocated, num_retired, lock, todo, reaped, polled, pending, cancelled,
                     reporting, reap_action, reap_status>>
  BY DEF Bulk!Unplug, Bulk!tpriv, Bulk!user
<1>6. urbs' = [i \in 1..Len(urbs) |-> urbs'[i]] /\ Len(urbs') = Len(urbs)
  <2>1. urbs' = [i \in 1..Len(urbs) |-> urbs'[i]]
    BY <1>4, Zenon
  <2> QED BY <1>2, <2>1, LenIs
<1>7. ASSUME NEW i \in 1..Len(urbs)
      PROVE  IF i \in (b + 1)..c THEN BulkUrb(i, urbs'[i]) /\ urbs'[i].st = "done"
                                 ELSE urbs'[i] = urbs[i]
  <2>1. CASE i \in (b + 1)..c
    <3>1. urbs'[i] = [st |-> "done", status |-> "EOTHER", actual_length |-> 0]
      BY <1>4, <2>1 DEF Bulk!URB
    <3>2. urbs'[i] \in BulkRecords
      BY <3>1 DEF BulkRecords, States, Bulk!KernelStatuses
    <3> QED BY <2>1, <3>1, <3>2 DEF BulkUrb
  <2>2. CASE i \notin (b + 1)..c
    BY <1>4, <2>2
  <2> QED BY <2>1, <2>2
<1>8. c <= c
  BY <1>2
<1>9. ~attached' /\ attached' \in BOOLEAN
  BY <1>5, Zenon
<1> QED BY <1>1, <1>2, <1>4, <1>5, <1>6, <1>7, <1>8, <1>9, BulkHandsBack

LEMMA BulkDiscarded ==
    ASSUME BulkInv, NEW n \in Nat, Bulk!DiscardUrb(n) PROVE BulkInv'
<1>1. PICK a, b, c \in 0..Len(urbs) : Progress(a, b, c)
  BY DEF BulkInv
<1>2. /\ Len(urbs) \in Nat /\ a \in Nat /\ b \in Nat /\ c \in Nat /\ Phases(a, b, c)
      /\ a <= b /\ b <= c /\ c <= Len(urbs) /\ urbs = [i \in 1..Len(urbs) |-> urbs[i]]
  BY <1>1 DEF Progress, Phases
<1>3. Bulk!Queued = (b + 1)..c
  BY <1>2, QueuedIs
<1> DEFINE j == Head(todo)
<1>4. PICK d \in Nat : d = IF j \in (b + 1)..c THEN j ELSE b
  BY <1>2
<1>5. /\ lock = "discard" /\ todo' = Tail(todo)
      /\ lock' = IF Len(todo) = 1 THEN "free" ELSE "discard"
      /\ UNCHANGED <<allocated, num_retired, reaped, attached, polled, pending, cancelled,
                     reporting, reap_action, reap_status>>
  BY DEF Bulk!DiscardUrb, Bulk!tpriv, Bulk!user
<1>6. \/ /\ j \notin (b + 1)..c /\ d = b /\ doneq' = doneq /\ urbs' = urbs
      \/ /\ j \in (b + 1)..c /\ d = j /\ doneq' = Append(doneq, d)
         /\ urbs' = [urbs EXCEPT ![j] = Bulk!URB("done", "ENOENT", n)]
  BY <1>3, <1>4, Zenon DEF Bulk!DiscardUrb
<1>7. /\ urbs' = [i \in 1..Len(urbs) |-> urbs'[i]] /\ Len(urbs') = Len(urbs)
      /\ \A i \in 1..Len(urbs) :
           urbs'[i] = IF i \in (b + 1)..c /\ i = j THEN Bulk!URB("done", "ENOENT", n) ELSE urbs[i]
  <2>1. CASE j \notin (b + 1)..c
    BY <1>2, <1>6, <2>1
  <2>2. CASE j \in (b + 1)..c
    <3> HIDE DEF j
    <3>1. urbs' = [urbs EXCEPT ![j] = Bulk!URB("done", "ENOENT", n)]
      BY <1>6, <2>2
    <3>2. urbs' = [i \in 1..Len(urbs) |-> IF i = j THEN Bulk!URB("done", "ENOENT", n) ELSE urbs[i]]
      BY <1>2, <3>1, Zenon
    <3>3. urbs' = [i \in 1..Len(urbs) |-> urbs'[i]]
      BY <3>2, Zenon
    <3>4. Len(urbs') = Len(urbs)
      BY <1>2, <3>3, LenIs
    <3>5. \A i \in 1..Len(urbs) :
            urbs'[i] = IF i = j THEN Bulk!URB("done", "ENOENT", n) ELSE urbs[i]
      BY <3>2, Zenon
    <3> QED BY <2>2, <3>3, <3>4, <3>5, Zenon
  <2> QED BY <2>1, <2>2
<1>8. Bulk!URB("done", "ENOENT", n) \in BulkRecords /\ Bulk!URB("done", "ENOENT", n).st = "done"
      /\ Bulk!URB("done", "ENOENT", n).status = "ENOENT"
  BY DEF Bulk!URB, BulkRecords, States
<1>9. Progress(a, d, c)' /\ d <= c
  <2>1. \A i \in 1..Len(urbs) :
          urbs'[i].st = IF i \in (b + 1)..c /\ i = Head(todo) THEN "done" ELSE urbs[i].st
    BY <1>7, <1>8
  <2>2. \/ Head(todo) \notin (b + 1)..c /\ d = b /\ doneq' = doneq
        \/ Head(todo) \in (b + 1)..c /\ d = Head(todo) /\ doneq' = Append(doneq, d)
    BY <1>6
  <2>3. Len(urbs') = Len(urbs) /\ urbs' = [i \in 1..Len(urbs) |-> urbs'[i]]
    BY <1>7
  <2> QED BY <1>1, <1>2, <1>4, <1>5, <2>1, <2>2, <2>3, Discarded
<1>10. (\E x, y, z \in 0..Len(urbs) : Progress(x, y, z))'
  <2>1. d \in 0..Len(urbs')
    BY <1>2, <1>4, <1>7, <1>9
  <2> QED BY <1>7, <1>9, <2>1
<1>11. (\A i \in 1..Len(urbs) : BulkUrb(i, urbs[i]))'
  <2>1. ASSUME NEW i \in 1..Len(urbs)
        PROVE  urbs'[i] \in BulkRecords /\ (urbs'[i].status = "EOVERFLOW" => i = Len(urbs))
    BY <1>7, <1>8, <2>1 DEF BulkInv, BulkUrb
  <2> QED BY <1>7, <2>1 DEF BulkUrb
<1> QED BY <1>5, <1>10, <1>11 DEF BulkInv, Flags

\* One URB is retired, and if it is the last the transfer is to be reported.
LEMMA BulkRetired ==
    ASSUME BulkInv, reaped # 0, lock = "free", num_retired' = num_retired + 1, reaped' = 0,
           urbs' = WithState(urbs, reaped, "reaped"),
           allocated' \in BOOLEAN, reporting' \in BOOLEAN, allocated' <=> ~reporting',
           ~allocated' => lock' = "free" /\ (reaped = Len(urbs) \/ num_retired + 1 = Len(urbs)),
           \/ lock' = "free" /\ todo' = <<>>
           \/ /\ lock' = "discard" /\ reaped < Len(urbs)
              /\ todo' = Interval(reaped + 1, Len(urbs)),
           UNCHANGED <<doneq, attached, polled, pending, cancelled>>,
           reap_action' = "CANCELLED" => reap_action = "CANCELLED",
           reap_status' \in {"COMPLETED", "ERROR", "STALL", "OVERFLOW"}
    PROVE  BulkInv'
<1>1. PICK a, b, c \in 0..Len(urbs) : Progress(a, b, c)
  BY DEF BulkInv
<1>2. /\ Len(urbs) \in Nat /\ a \in Nat /\ b \in Nat /\ c \in Nat
      /\ b <= c /\ c <= Len(urbs) /\ urbs = [i \in 1..Len(urbs) |-> urbs[i]]
      /\ reaped = a + 1 /\ a < b /\ allocated /\ polled
  BY <1>1 DEF Progress, Phases, Reaping, Counted, Gone
<1>3. PICK j \in 1..Len(urbs) : j = reaped
  BY <1>2
<1>4. \A i \in 1..Len(urbs) : BulkUrb(i, urbs[i])
  BY DEF BulkInv
<1>5. /\ Len(urbs') = Len(urbs) /\ urbs' = [i \in 1..Len(urbs) |-> urbs'[i]]
      /\ \A i \in 1..Len(urbs) : i # j => urbs'[i] = urbs[i]
      /\ urbs'[j].st = "reaped" /\ urbs'[j].status = urbs[j].status
      /\ urbs'[j] \in BulkRecords
  <2>1. urbs[j] \in BulkRecords
    BY <1>3, <1>4 DEF BulkUrb
  <2>2. "reaped" \in States /\ urbs' = WithState(urbs, j, "reaped")
    BY <1>3 DEF States
  <2>3. Len(urbs) \in Nat /\ urbs = [i \in 1..Len(urbs) |-> urbs[i]]
    BY <1>2
  <2>4. /\ Len(WithState(urbs, j, "reaped")) = Len(urbs)
        /\ WithState(urbs, j, "reaped") = [i \in 1..Len(urbs) |-> WithState(urbs, j, "reaped")[i]]
        /\ \A i \in 1..Len(urbs) : i # j => WithState(urbs, j, "reaped")[i] = urbs[i]
        /\ WithState(urbs, j, "reaped")[j].st = "reaped"
        /\ WithState(urbs, j, "reaped")[j].status = urbs[j].status
        /\ WithState(urbs, j, "reaped")[j] \in BulkRecords
    BY <2>1, <2>2, <2>3, StateChanges
  <2> QED BY <2>2, <2>4, Zenon
<1>6. Progress(a + 1, b, c)'
  <2>1. \A i \in 1..Len(urbs) : urbs'[i].st = IF i = reaped THEN "reaped" ELSE urbs[i].st
    BY <1>3, <1>5
  <2> QED BY <1>1, <1>2, <1>5, <2>1, Retired
<1>7. (\E x, y, z \in 0..Len(urbs) : Progress(x, y, z))'
  <2>1. a + 1 \in 0..Len(urbs') /\ b \in 0..Len(urbs') /\ c \in 0..Len(urbs')
    BY <1>2, <1>5
  <2> QED BY <1>6, <2>1
<1>8. (\A i \in 1..Len(urbs) : BulkUrb(i, urbs[i]))'
  BY <1>4, <1>5 DEF BulkUrb
<1>9. pending /\ ~reporting
  BY <1>2 DEF BulkInv
<1>10. /\ Flags' /\ (pending <=> allocated \/ reporting)'
       /\ (reap_action = "CANCELLED" => cancelled)'
  BY <1>9 DEF BulkInv, Flags
<1>11. polled' /\ reporting' \in BOOLEAN /\ (reporting' => ~allocated')
  BY <1>2
<1> QED BY <1>7, <1>8, <1>10, <1>11 DEF BulkInv

\* If something is left to cancel, it is all that is behind the URB reaped.
LEMMA BulkRemaining ==
    ASSUME BulkInv, reaped # 0, lock = "free", Bulk!CancelRemaining
    PROVE  /\ allocated' \in BOOLEAN /\ reporting' \in BOOLEAN /\ (allocated' <=> ~reporting')
           /\ ~allocated' => lock' = "free" /\ (reaped = Len(urbs) \/ num_retired + 1 = Len(urbs))
           /\ \/ lock' = "free" /\ todo' = <<>>
              \/ /\ lock' = "discard" /\ reaped < Len(urbs)
                 /\ todo' = Interval(reaped + 1, Len(urbs))
<1>1. PICK a, b, c \in 0..Len(urbs) : Progress(a, b, c)
  BY DEF BulkInv
<1>2. /\ Len(urbs) \in Nat /\ a \in Nat /\ b \in Nat /\ c \in Nat
      /\ b <= c /\ c <= Len(urbs)
      /\ reaped = a + 1 /\ a < b /\ allocated /\ num_retired = a + (Len(urbs) - c)
  BY <1>1 DEF Progress, Phases, Reaping, Counted
<1> DEFINE last == num_retired + 1 = Len(urbs)
           S == IF last THEN {} ELSE {j \in (reaped + 1)..Len(urbs) : ~Bulk!Continues(j)}
<1>3. /\ allocated' = (allocated /\ ~last) /\ reporting' = last
      /\ todo' = Bulk!InOrder(S) /\ lock' = IF S = {} THEN "free" ELSE "discard"
  BY Zenon DEF Bulk!CancelRemaining, Bulk!Completed, Bulk!Discarding, Bulk!LastRetired, Bulk!retired,
     Bulk!num_urbs
<1>4. S = {} \/ (~last /\ reaped < Len(urbs) /\ S = (reaped + 1)..Len(urbs))
  <2>1. CASE last
    BY <2>1
  <2>2. CASE ~last
    <3>1. reaped < Len(urbs)
      BY <1>2, <2>2
    <3>2. CASE supports_flag_bulk_continuation
      <4>1. \A j \in (reaped + 1)..Len(urbs) : j > 1
        BY <1>2
      <4> QED BY <2>2, <3>2, <4>1 DEF Bulk!Continues
    <3>3. CASE ~supports_flag_bulk_continuation
      BY <2>2, <3>1, <3>3 DEF Bulk!Continues
    <3> QED BY <3>2, <3>3
  <2> QED BY <2>1, <2>2
<1>5. S = {} => Bulk!InOrder(S) = <<>>
  <2>1. 1..0 = {} /\ 1 \in Nat /\ 0 \in Nat /\ 1 <= 0 + 1
    OBVIOUS
  <2>2. Bulk!InOrder(1..0) = Interval(1, 0)
    BY <2>1, OrderOfInterval
  <2>3. Interval(0 + 1, 0) = <<>>
    BY IntervalEmpty
  <2> HIDE DEF S
  <2> QED BY <2>1, <2>2, <2>3
<1>6. reaped < Len(urbs) => Bulk!InOrder((reaped + 1)..Len(urbs)) = Interval(reaped + 1, Len(urbs))
  <2>1. (reaped + 1 \in Nat /\ reaped + 1 <= Len(urbs) + 1) \/ ~(reaped < Len(urbs))
    BY <1>2
  <2> QED BY <1>2, <2>1, OrderOfInterval
<1>7. reaped < Len(urbs) => (reaped + 1)..Len(urbs) # {}
  BY <1>2
<1>8. last => S = {}
  OBVIOUS
<1>9. \/ lock' = "free" /\ todo' = <<>>
      \/ lock' = "discard" /\ reaped < Len(urbs) /\ todo' = Interval(reaped + 1, Len(urbs))
  <2> HIDE DEF S
  <2> QED BY <1>3, <1>4, <1>5, <1>6, <1>7
<1>10. last => lock' = "free"
  <2> HIDE DEF S, last
  <2> QED BY <1>3, <1>8
<1>11. allocated' \in BOOLEAN /\ reporting' \in BOOLEAN /\ (allocated' <=> ~reporting')
       /\ (~allocated' => last)
  <2> HIDE DEF S, last
  <2>1. allocated' = (allocated /\ ~last) /\ reporting' = (~(~last))
    BY <1>3 DEF last
  <2> QED BY <1>2, <2>1, Zenon
<1> QED BY <1>9, <1>10, <1>11

LEMMA BulkCancelled ==
    ASSUME BulkInv, Bulk!Cancel PROVE BulkInv'
<1>1. PICK a, b, c \in 0..Len(urbs) : Progress(a, b, c)
  BY DEF BulkInv
<1>2. Len(urbs) \in Nat /\ Len(urbs) # 0 /\ a \in Nat /\ b \in Nat /\ c \in Nat
  BY <1>1 DEF Progress, Phases, Counted, Bulk!Cancel
<1>3. /\ lock = "free" /\ allocated /\ lock' = "discard" /\ todo' = Interval(1, Len(urbs))
      /\ UNCHANGED <<urbs, allocated, num_retired, reaped, doneq, attached, polled>>
  <2>1. 1 \in 1..Len(urbs)
    BY <1>2
  <2>2. 1..Len(urbs) # {}
    BY <2>1
  <2>3. Bulk!InOrder(1..Len(urbs)) = Interval(1, Len(urbs))
    <3>1. 1 \in Nat /\ 1 <= Len(urbs) + 1
      BY <1>2
    <3> QED BY <1>2, <3>1, OrderOfInterval
  <2> QED BY <2>2, <2>3 DEF Bulk!Cancel, Bulk!Discarding, Bulk!num_urbs, Bulk!kernel
<1>4. Progress(a, b, c)'
  BY <1>1, <1>2, <1>3, Cancelled
<1>5. cancelled' = TRUE /\ UNCHANGED <<pending, reporting, reap_status>>
  BY DEF Bulk!Cancel
<1>6. (\E x, y, z \in 0..Len(urbs) : Progress(x, y, z))'
  BY <1>3, <1>4
<1>7. (\A i \in 1..Len(urbs) : BulkUrb(i, urbs[i]))'
  BY <1>3 DEF BulkInv, BulkUrb
<1>8. Flags'
  BY <1>3, <1>5 DEF BulkInv, Flags
<1> QED BY <1>3, <1>5, <1>6, <1>7, <1>8 DEF BulkInv

LEMMA BulkReaped ==
    ASSUME BulkInv, Bulk!Reap PROVE BulkInv'
<1>1. PICK a, b, c \in 0..Len(urbs) : Progress(a, b, c)
  BY DEF BulkInv
<1>2. a \in Nat /\ b \in Nat /\ c \in Nat
  BY <1>1 DEF Progress, Phases
<1>3. /\ reaped = 0 /\ polled /\ doneq # <<>> /\ reaped' = Head(doneq) /\ doneq' = Tail(doneq)
      /\ UNCHANGED <<urbs, allocated, num_retired, lock, todo, attached, polled>>
      /\ UNCHANGED <<reap_action, reap_status, reporting, pending, cancelled>>
  BY DEF Bulk!Reap, Bulk!tpriv, Bulk!user
<1>4. Progress(a, b, c)'
  BY <1>1, <1>2, <1>3, Taken
<1>5. (\E x, y, z \in 0..Len(urbs) : Progress(x, y, z))'
  BY <1>3, <1>4
<1>6. (\A i \in 1..Len(urbs) : BulkUrb(i, urbs[i]))'
  BY <1>3 DEF BulkInv, BulkUrb
<1> QED BY <1>3, <1>5, <1>6 DEF BulkInv, Flags

\* What the four cases of handle_bulk_completion have in common.
LEMMA BulkHandled ==
    ASSUME BulkInv,
           \/ Bulk!HandleAbnormalReap \/ Bulk!HandleGoodReap
           \/ Bulk!HandleOverflow \/ Bulk!HandleFailedReap
    PROVE  BulkInv'
<1>1. PICK a, b, c \in 0..Len(urbs) : Progress(a, b, c)
  BY DEF BulkInv
<1>2. /\ Len(urbs) \in Nat /\ a \in Nat /\ b \in Nat /\ c \in Nat
      /\ b <= c /\ c <= Len(urbs) /\ reaped # 0 /\ lock = "free"
      /\ reaped = a + 1 /\ a < b /\ allocated /\ num_retired = a + (Len(urbs) - c)
      /\ todo = <<>>
  <2>1. reaped # 0 /\ lock = "free"
    BY DEF Bulk!HandleAbnormalReap, Bulk!HandleGoodReap, Bulk!HandleOverflow, Bulk!HandleFailedReap
  <2> QED BY <1>1, <2>1 DEF Progress, Phases, Reaping, Looping, Counted
<1>3. /\ num_retired' = num_retired + 1 /\ reaped' = 0 /\ urbs' = WithState(urbs, reaped, "reaped")
      /\ UNCHANGED <<doneq, attached, polled, pending, cancelled>>
  BY DEF Bulk!HandleAbnormalReap, Bulk!HandleGoodReap, Bulk!HandleOverflow, Bulk!HandleFailedReap,
     Bulk!retired, Bulk!kernel, Bulk!user, WithState
<1>4. reap_action' = "CANCELLED" => reap_action = "CANCELLED"
  BY DEF Bulk!HandleAbnormalReap, Bulk!HandleGoodReap, Bulk!HandleOverflow, Bulk!HandleFailedReap
<1>5. reap_status' \in {"COMPLETED", "ERROR", "STALL", "OVERFLOW"}
  BY DEF Bulk!HandleAbnormalReap, Bulk!HandleGoodReap, Bulk!HandleOverflow, Bulk!HandleFailedReap,
     Bulk!Unwanted, BulkInv
<1>6. reaped = Len(urbs) => num_retired + 1 = Len(urbs)
  BY <1>2
<1>7. /\ allocated' \in BOOLEAN /\ reporting' \in BOOLEAN /\ (allocated' <=> ~reporting')
      /\ ~allocated' => lock' = "free" /\ (reaped = Len(urbs) \/ num_retired + 1 = Len(urbs))
      /\ \/ lock' = "free" /\ todo' = <<>>
         \/ /\ lock' = "discard" /\ reaped < Len(urbs)
            /\ todo' = Interval(reaped + 1, Len(urbs))
  <2>1. CASE Bulk!HandleAbnormalReap
    <3>1. /\ allocated' = (allocated /\ ~(num_retired + 1 = Len(urbs)))
          /\ reporting' = (num_retired + 1 = Len(urbs)) /\ lock' = lock /\ todo' = todo
      BY <2>1, Zenon DEF Bulk!HandleAbnormalReap, Bulk!Completed, Bulk!LastRetired, Bulk!retired,
         Bulk!num_urbs
    <3>2. /\ allocated' \in BOOLEAN /\ reporting' \in BOOLEAN /\ (allocated' <=> ~reporting')
          /\ (~allocated' => num_retired + 1 = Len(urbs))
      BY <1>2, <3>1, Zenon
    <3> QED BY <1>2, <3>1, <3>2
  <2>2. CASE Bulk!HandleGoodReap
    <3>1. \/ Bulk!CancelRemaining
          \/ Bulk!Completed(reaped = Len(urbs)) /\ lock' = lock /\ todo' = todo
      BY <2>2 DEF Bulk!HandleGoodReap, Bulk!num_urbs
    <3>2. CASE Bulk!CancelRemaining
      BY <1>2, <3>2, BulkRemaining
    <3>3. CASE Bulk!Completed(reaped = Len(urbs)) /\ lock' = lock /\ todo' = todo
      <4>1. /\ allocated' = (allocated /\ ~(reaped = Len(urbs)))
            /\ reporting' = (reaped = Len(urbs)) /\ lock' = lock /\ todo' = todo
        BY <3>3, Zenon DEF Bulk!Completed
      <4>2. /\ allocated' \in BOOLEAN /\ reporting' \in BOOLEAN /\ (allocated' <=> ~reporting')
            /\ (~allocated' => reaped = Len(urbs))
        BY <1>2, <4>1, Zenon
      <4> QED BY <1>2, <4>1, <4>2
    <3> QED BY <3>1, <3>2, <3>3
  <2>3. CASE Bulk!HandleOverflow
    <3>1. allocated' = (allocated /\ ~TRUE) /\ reporting' = TRUE /\ lock' = lock /\ todo' = todo
      BY <2>3, Zenon DEF Bulk!HandleOverflow, Bulk!Completed
    <3>2. allocated' \in BOOLEAN /\ reporting' \in BOOLEAN /\ ~allocated' /\ reporting'
      BY <3>1, Zenon
    <3>3. reaped = Len(urbs)
      <4>1. reaped \in 1..Len(urbs)
        BY <1>2
      <4> QED BY <2>3, <4>1 DEF Bulk!HandleOverflow, BulkInv, BulkUrb
    <3> QED BY <1>2, <3>1, <3>2, <3>3
  <2>4. CASE Bulk!HandleFailedReap
    BY <1>2, <2>4, BulkRemaining DEF Bulk!HandleFailedReap
  <2> QED BY <2>1, <2>2, <2>3, <2>4
<1> QED BY <1>2, <1>3, <1>4, <1>5, <1>7, BulkRetired

LEMMA BulkReported ==
    ASSUME BulkInv, Bulk!Report PROVE BulkInv'
<1>1. /\ reporting /\ reporting' = FALSE /\ pending' = FALSE
      /\ UNCHANGED <<allocated, num_retired, reap_action, reap_status, urbs, lock, todo, reaped,
                     doneq, attached, polled, cancelled>>
  BY DEF Bulk!Report, Bulk!tpriv, Bulk!kernel
<1>2. (\E a, b, c \in 0..Len(urbs) : Progress(a, b, c))'
  BY <1>1 DEF BulkInv, Progress, Phases, Reaping, Looping, Counted, Gone
<1>3. (\A i \in 1..Len(urbs) : BulkUrb(i, urbs[i]))'
  BY <1>1 DEF BulkInv, BulkUrb
<1>4. Flags'
  BY <1>1 DEF BulkInv, Flags
<1> QED BY <1>1, <1>2, <1>3, <1>4 DEF BulkInv

LEMMA BulkDisconnected == ASSUME BulkInv, Bulk!HandleDisconnect PROVE BulkInv'
<1>1. PICK a, b, c \in 0..Len(urbs) : Progress(a, b, c)
  BY DEF BulkInv
<1>2. a \in Nat /\ b \in Nat /\ c \in Nat
  BY <1>1 DEF Progress, Phases
<1>3. /\ ~attached /\ reaped = 0 /\ ~reporting
      /\ UNCHANGED <<urbs, num_retired, lock, todo, reaped, doneq, attached>>
      /\ UNCHANGED <<reap_action, reap_status, reporting, cancelled>>
  BY DEF Bulk!HandleDisconnect, Bulk!kernel
<1>4. /\ ~polled' /\ ~allocated' /\ ~pending'
      /\ polled' \in BOOLEAN /\ allocated' \in BOOLEAN /\ pending' \in BOOLEAN
  BY DEF Bulk!HandleDisconnect
<1>5. Progress(a, b, c)'
  BY <1>1, <1>2, <1>3, <1>4, Disconnected
<1>6. (\E x, y, z \in 0..Len(urbs) : Progress(x, y, z))'
  BY <1>3, <1>5
<1>7. (\A i \in 1..Len(urbs) : BulkUrb(i, urbs[i]))'
  BY <1>3 DEF BulkInv, BulkUrb
<1> QED BY <1>3, <1>4, <1>6, <1>7 DEF BulkInv, Flags

LEMMA BulkInduction ==
    ASSUME TransfersAssumption, BulkInv, Bulk!Next PROVE BulkInv'
<1>1. CASE \E n \in BulkLengths, out \in BOOLEAN : Bulk!Submit(n, out)
  BY <1>1, BulkSubmit
<1>2. CASE Bulk!InCall
  <2>1. CASE Bulk!SubmitUrb
    BY <2>1, BulkSubmitUrb
  <2>2. CASE Bulk!FirstUrbRefused \/ \E errno \in {"EREMOTEIO", "EIO"} : Bulk!LaterUrbRefused(errno)
    BY <2>2, BulkRefused
  <2>3. CASE \E n \in 0..MAX_BULK_BUFFER_LENGTH : Bulk!DiscardUrb(n)
    BY <2>3, BulkDiscarded
  <2> QED BY <1>2, <2>1, <2>2, <2>3 DEF Bulk!InCall
<1>3. CASE Bulk!Cancel
  BY <1>3, BulkCancelled
<1>4. CASE Bulk!EventThread
  BY <1>4, BulkReaped, BulkHandled, BulkReported, BulkDisconnected DEF Bulk!EventThread
<1>5. CASE \E s \in Bulk!KernelStatuses, n \in 0..MAX_BULK_BUFFER_LENGTH : Bulk!DeviceAnswers(s, n)
  BY <1>5, BulkAnswered
<1>6. CASE Bulk!Unplug
  BY <1>6, BulkUnplugged
<1> QED BY <1>1, <1>2, <1>3, <1>4, <1>5, <1>6 DEF Bulk!Next

-----------------------------------------------------------------------------
(* The steps of a control transfer                                         *)

LEMMA ControlInduction ==
    ASSUME ControlInv, Control!Next PROVE ControlInv'
<1>1. CASE \E n \in ControlLengths : Control!Submit(n)
  <2>1. /\ ~pending /\ lock = "free" /\ allocated' = TRUE /\ pending' = TRUE
        /\ cancelled' = FALSE /\ lock' = "submit" /\ reap_action' = "NORMAL"
        /\ UNCHANGED <<urb, attached, polled>>
    BY <1>1 DEF Control!Submit
  <2> QED BY <2>1 DEF ControlInv, Flags
<1>2. CASE \E s \in {"OK", "EPIPE", "EPROTO", "EOTHER"}, n \in 0..(length - SETUP) :
             Control!DeviceAnswers(s, n)
  BY <1>2 DEF Control!DeviceAnswers, Control!UrbEnds, Control!user, ControlInv, Flags
<1>3. CASE Control!Unplug
  <2>1. attached' = FALSE /\ attached' \in BOOLEAN
    BY <1>3, Zenon DEF Control!Unplug
  <2>2. UNCHANGED <<allocated, reap_action, lock, polled, pending, cancelled>>
    BY <1>3 DEF Control!Unplug, Control!user
  <2>3. (urb = "queued" /\ urb' = "done") \/ (urb # "queued" /\ urb' = urb)
    BY <1>3 DEF Control!Unplug, Control!UrbEnds
  <2> QED BY <2>1, <2>2, <2>3 DEF ControlInv, Flags
<1>4. CASE Control!Cancel
  <2>1. /\ lock = "free" /\ pending /\ lock' = "discard" /\ cancelled' = TRUE
        /\ UNCHANGED <<allocated, urb, attached, polled, pending>>
    BY <1>4 DEF Control!Cancel
  <2> QED BY <2>1 DEF ControlInv, Flags
<1>5. CASE Control!InCall
  <2>1. CASE Control!SubmitUrb
    BY <2>1 DEF Control!SubmitUrb, Control!user, ControlInv, Flags
  <2>2. CASE Control!UrbRefused
    BY <2>2 DEF Control!UrbRefused, ControlInv, Flags
  <2>3. CASE Control!DiscardUrb
    <3>1. (urb = "queued" /\ urb' = "done") \/ (urb # "queued" /\ urb' = urb)
      BY <2>3 DEF Control!DiscardUrb, Control!UrbEnds
    <3>2. /\ lock = "discard" /\ lock' = "free"
          /\ UNCHANGED <<allocated, reap_action, attached, polled, pending, cancelled>>
      BY <2>3 DEF Control!DiscardUrb, Control!user
    <3> QED BY <3>1, <3>2 DEF ControlInv, Flags
  <2> QED BY <1>5, <2>1, <2>2, <2>3 DEF Control!InCall
<1>6. CASE Control!HandleControlCompletion
  BY <1>6 DEF Control!HandleControlCompletion, ControlInv, Flags
<1>7. CASE Control!HandleDisconnect
  BY <1>7 DEF Control!HandleDisconnect, ControlInv, Flags
<1> QED BY <1>1, <1>2, <1>3, <1>4, <1>5, <1>6, <1>7 DEF Control!Next, Control!EventThread

-----------------------------------------------------------------------------
(* The steps of an isochronous transfer                                    *)

LEMMA LeastOf ==
    ASSUME NEW T \in SUBSET Nat, T # {} PROVE \E x \in T : \A y \in T : x <= y
<1> DEFINE R == OpToRel(<, Nat)
<1>1. IsWellFoundedOn(R, Nat)
  BY NatLessThanWellFounded
<1>2. R = {ss \in Nat \X Nat : ss[1] < ss[2]}
  BY Zenon DEF OpToRel
<1> HIDE DEF R
<1>3. PICK x \in T : \A y \in T : <<y, x>> \notin R
  BY <1>1, WFMin
<1>4. ASSUME NEW y \in T PROVE x <= y
  <2>1. <<y, x>> \in Nat \X Nat /\ <<y, x>>[1] = y /\ <<y, x>>[2] = x
    OBVIOUS
  <2>2. ~(y < x)
    BY <1>2, <1>3, <2>1, Zenon
  <2> QED BY <2>2
<1> QED BY <1>4

\* The loop that counts the URBs, as the equation that defines it.
LEMMA CountsIs ==
    ASSUME NEW lens \in Seq(Nat)
    PROVE  Iso!Counts(lens) =
             [k \in 0..Len(lens) |-> IF k = 0 THEN [n |-> 1, used |-> 0]
                                     ELSE Iso!CountPacket(Iso!Counts(lens)[k - 1], lens[k])]
<1> DEFINE start == [n |-> 1, used |-> 0]
           next(acc, k) == Iso!CountPacket(acc, lens[k])
           Good(f, m) == f = [k \in 0..m |-> IF k = 0 THEN start ELSE next(f[k - 1], k)]
           T == {m \in Nat : \A f : ~Good(f, m)}
<1> HIDE DEF start, next
<1>1. T = {}
  <2>1. SUFFICES ASSUME T # {} PROVE FALSE
    OBVIOUS
  <2>2. T \in SUBSET Nat
    OBVIOUS
  <2>3. PICK x \in T : \A y \in T : x <= y
    <3> HIDE DEF T
    <3> QED BY <2>1, <2>2, LeastOf
  <2>4. x \in Nat /\ \A f : ~Good(f, x)
    BY DEF T
  <2>5. CASE x = 0
    <3> DEFINE g == [k \in 0..0 |-> start]
    <3>1. \A k \in 0..0 : k = 0
      OBVIOUS
    <3>2. Good(g, 0)
      BY <3>1, Zenon
    <3> QED BY <2>4, <2>5, <3>2, Zenon
  <2>6. CASE x # 0
    <3>1. x - 1 \in Nat /\ x - 1 \notin T
      <4> HIDE DEF T
      <4> QED BY <2>3, <2>4, <2>6
    <3>2. PICK f : Good(f, x - 1)
      <4> HIDE DEF Good
      <4> QED BY <3>1, Zenon
    <3> DEFINE g == [k \in 0..x |-> IF k \in 0..(x - 1) THEN f[k] ELSE next(f[x - 1], x)]
    <3>3. ASSUME NEW k \in 0..x
          PROVE  g[k] = IF k = 0 THEN start ELSE next(g[k - 1], k)
      <4>1. CASE k = 0
        <5>1. k \in 0..(x - 1)
          BY <2>4, <2>6, <4>1
        <5>2. g[k] = f[k]
          BY <5>1, Zenon
        <5>3. f[k] = start
          BY <3>2, <4>1, <5>1, Zenon
        <5> QED BY <4>1, <5>2, <5>3, Zenon
      <4>2. CASE k # 0 /\ k \in 0..(x - 1)
        <5>1. k - 1 \in 0..(x - 1) /\ k - 1 \in 0..x
          BY <2>4, <4>2
        <5>2. g[k] = f[k] /\ g[k - 1] = f[k - 1]
          BY <4>2, <5>1, Zenon
        <5>3. f[k] = next(f[k - 1], k)
          BY <3>2, <4>2, Zenon
        <5> QED BY <4>2, <5>2, <5>3, Zenon
      <4>3. CASE k \notin 0..(x - 1)
        <5>1. k = x /\ k - 1 \in 0..(x - 1) /\ k - 1 \in 0..x /\ k # 0
          BY <2>4, <2>6, <4>3
        <5>2. g[k] = next(f[x - 1], x)
          BY <4>3, Zenon
        <5>3. g[k - 1] = f[k - 1]
          BY <5>1, Zenon
        <5> QED BY <5>1, <5>2, <5>3, Zenon
      <4> QED BY <4>1, <4>2, <4>3
    <3>4. g = [k \in 0..x |-> g[k]]
      BY Zenon
    <3> HIDE DEF g
    <3>5. Good(g, x)
      BY <3>3, <3>4, Zenon
    <3> QED BY <2>4, <3>5, Zenon
  <2> QED BY <2>5, <2>6
<1>2. Len(lens) \in Nat
  OBVIOUS
<1>3. \E f : Good(f, Len(lens))
  <2> HIDE DEF Good
  <2>1. Len(lens) \notin T
    BY <1>1, Zenon
  <2> QED BY <1>2, <2>1, Zenon
<1>4. Iso!Counts(lens) = CHOOSE f : Good(f, Len(lens))
  BY Zenon DEF Iso!Counts, start, next
<1>5. Good(Iso!Counts(lens), Len(lens))
  BY <1>3, <1>4, Zenon
<1> QED BY <1>5, Zenon DEF start, next

LEMMA IsoHasUrbs ==
    ASSUME NEW lens \in Seq(Nat) PROVE Iso!num_urbs(lens) \in Nat \ {0}
<1> DEFINE c == Iso!Counts(lens)
           T == {k \in 0..Len(lens) : c[k].n \notin Nat \ {0}}
<1>1. c = [k \in 0..Len(lens) |-> IF k = 0 THEN [n |-> 1, used |-> 0]
                                  ELSE Iso!CountPacket(c[k - 1], lens[k])]
  BY CountsIs
<1>2. Len(lens) \in Nat
  OBVIOUS
<1> HIDE DEF c
<1>3. T = {}
  <2>1. SUFFICES ASSUME T # {} PROVE FALSE
    OBVIOUS
  <2>2. T \in SUBSET Nat
    OBVIOUS
  <2>3. PICK x \in T : \A y \in T : x <= y
    <3> HIDE DEF T
    <3> QED BY <2>1, <2>2, LeastOf
  <2>4. x \in 0..Len(lens) /\ c[x].n \notin Nat \ {0}
    BY DEF T
  <2>5. x # 0
    <3>1. c[0] = [n |-> 1, used |-> 0]
      BY <1>1, <1>2
    <3> QED BY <2>4, <3>1
  <2>6. x - 1 \in 0..Len(lens) /\ ~(x <= x - 1)
    BY <1>2, <2>4, <2>5
  <2>7. c[x - 1].n \in Nat \ {0}
    BY <2>3, <2>6
  <2>8. c[x] = Iso!CountPacket(c[x - 1], lens[x])
    BY <1>1, <2>4, <2>5
  <2>9. c[x].n = c[x - 1].n + 1 \/ c[x].n = c[x - 1].n
    BY <2>8 DEF Iso!CountPacket
  <2> QED BY <2>4, <2>7, <2>9
<1>4. c[Len(lens)].n \in Nat \ {0}
  BY <1>2, <1>3
<1> QED BY <1>4 DEF Iso!num_urbs, c

LEMMA IsoStateChanges ==
    ASSUME NEW n \in Nat, NEW f, f = [i \in 1..n |-> f[i]], NEW j \in 1..n, NEW v, IsoUrb(f[j])
    PROVE  /\ Len(WithState(f, j, v)) = n
           /\ WithState(f, j, v) = [i \in 1..n |-> WithState(f, j, v)[i]]
           /\ \A i \in 1..n : i # j => WithState(f, j, v)[i] = f[i]
           /\ WithState(f, j, v)[j].st = v
           /\ IsoUrb(WithState(f, j, v)[j])
           /\ WithState(f, j, v)[j].status = f[j].status
           /\ WithState(f, j, v)[j].packets = f[j].packets
<1> DEFINE g == WithState(f, j, v)
<1>1. DOMAIN f = 1..n
  BY Zenon
<1>2. g = [i \in 1..n |-> IF i = j THEN [f[j] EXCEPT !.st = v] ELSE f[i]]
  BY <1>1, Zenon DEF WithState
<1>3. g = [i \in 1..n |-> g[i]] /\ \A i \in 1..n : i # j => g[i] = f[i]
  BY <1>2, Zenon
<1>4. g[j] = [f[j] EXCEPT !.st = v]
  BY <1>2, Zenon
<1> HIDE DEF g
<1>5. f[j] = [st |-> f[j].st, status |-> f[j].status, packets |-> f[j].packets]
  BY DEF IsoUrb
<1>6. g[j] = [st |-> v, status |-> f[j].status, packets |-> f[j].packets]
  BY <1>4, <1>5
<1>7. Len(g) = n
  BY <1>3, LenIs
<1>8. IsoUrb(g[j])
  BY <1>6 DEF IsoUrb
<1> QED BY <1>3, <1>6, <1>7, <1>8 DEF g

LEMMA IsoSubmit ==
    ASSUME TransfersAssumption, IsoInv, NEW lens \in PacketLists, Iso!Submit(lens)
    PROVE  IsoInv'
<1>1. PICK z \in Nat \ {0} : z = Iso!num_urbs(lens)
  <2>1. lens \in Seq(Nat)
    BY DEF TransfersAssumption
  <2> QED BY <2>1, IsoHasUrbs
<1>2. /\ urbs' = [i \in 1..z |-> [st |-> "new", status |-> "OK", packets |-> Iso!Fill(lens)[i]]]
      /\ todo' = [i \in 1..z |-> i]
  BY <1>1, Zenon DEF Iso!Submit
<1>3. /\ urbs' = [i \in 1..z |-> urbs'[i]]
      /\ \A i \in 1..z : urbs'[i].st = "new" /\ IsoUrb(urbs'[i])
  <2>1. urbs' = [i \in 1..z |-> urbs'[i]]
    BY <1>2, Zenon
  <2>2. ASSUME NEW p PROVE /\ [st |-> "new", status |-> "OK", packets |-> p].st = "new"
                           /\ IsoUrb([st |-> "new", status |-> "OK", packets |-> p])
    BY DEF IsoUrb
  <2>3. ASSUME NEW i \in 1..z PROVE urbs'[i].st = "new" /\ IsoUrb(urbs'[i])
    <3>1. urbs'[i] = [st |-> "new", status |-> "OK", packets |-> Iso!Fill(lens)[i]]
      BY <1>2, Zenon
    <3> QED BY <2>2, <3>1
  <2> QED BY <2>1, <2>3
<1>4. Len(urbs') = z
  BY <1>1, <1>3, LenIs
<1>5. todo' = Interval(1, z)
  <2>1. \A i \in 1..z : 1 + i - 1 = i
    OBVIOUS
  <2>2. z - 1 + 1 = z
    OBVIOUS
  <2> QED BY <1>2, <2>1, <2>2 DEF Interval
<1>6. PICK a, b, c \in 0..Len(urbs) : Progress(a, b, c)
  BY DEF IsoInv
<1>7. /\ ~pending /\ ~allocated /\ result = "none" /\ allocated' = TRUE /\ pending' = TRUE
      /\ lock' = "submit" /\ num_retired' = 0 /\ reap_action' = "NORMAL"
      /\ UNCHANGED <<reaped, doneq, attached, polled, cancelled, result>>
  BY DEF Iso!Submit
<1>8. reaped' = 0 /\ (~polled => ~attached) /\ doneq' = <<>> /\ ~cancelled
  BY <1>6, <1>7 DEF Progress, Counted, Gone, IsoInv
<1>9. Progress(0, 0, 0)'
  <2>1. \A i \in 1..z : urbs'[i].st = "new"
    BY <1>3
  <2>2. allocated' /\ attached' = attached /\ polled' = polled /\ num_retired' = 0
    BY <1>7
  <2> QED BY <1>3, <1>4, <1>5, <1>7, <1>8, <2>1, <2>2, ArraySubmitted
<1>10. (\E x, y, w \in 0..Len(urbs) : Progress(x, y, w))'
  <2>1. 0 \in 0..Len(urbs')
    BY <1>4
  <2> QED BY <1>9, <2>1
<1>11. (\A i \in 1..Len(urbs) : IsoUrb(urbs[i]))'
  BY <1>3, <1>4
<1>12. allocated' /\ pending' /\ allocated' \in BOOLEAN /\ pending' \in BOOLEAN /\ ~cancelled'
  BY <1>7, <1>8, Zenon
<1> QED BY <1>7, <1>10, <1>11, <1>12 DEF IsoInv, Flags

LEMMA IsoSubmitUrb == ASSUME IsoInv, Iso!SubmitUrb PROVE IsoInv'
<1>1. PICK a, b, c \in 0..Len(urbs) : Progress(a, b, c)
  BY DEF IsoInv
<1>2. /\ lock = "submit" /\ attached /\ todo' = Tail(todo)
      /\ lock' = IF Head(todo) = Len(urbs) THEN "free" ELSE "submit"
      /\ UNCHANGED <<allocated, num_retired, reap_action, reaped, doneq, attached, polled, pending,
                     cancelled, result>>
  BY DEF Iso!SubmitUrb, Iso!tpriv, Iso!user, Iso!N
<1>3. /\ Len(urbs) \in Nat /\ c < Len(urbs) /\ todo = Interval(c + 1, Len(urbs))
      /\ urbs = [i \in 1..Len(urbs) |-> urbs[i]] /\ allocated
      /\ a \in Nat /\ b \in Nat /\ c \in Nat
  BY <1>1, <1>2 DEF Progress, Phases, Looping, Gone
<1>4. PICK j \in 1..Len(urbs) : j = Head(todo)
  <2>1. c + 1 \in Nat /\ c + 1 <= Len(urbs)
    BY <1>3
  <2>2. Head(Interval(c + 1, Len(urbs))) = c + 1
    BY <1>3, <2>1, IntervalSplits
  <2> QED BY <1>3, <2>1, <2>2
<1>5. \A i \in 1..Len(urbs) : IsoUrb(urbs[i])
  BY DEF IsoInv
<1>6. /\ Len(urbs') = Len(urbs) /\ urbs' = [i \in 1..Len(urbs) |-> urbs'[i]]
      /\ \A i \in 1..Len(urbs) : i # j => urbs'[i] = urbs[i]
      /\ urbs'[j].st = "queued" /\ IsoUrb(urbs'[j])
  <2>1. urbs' = WithState(urbs, j, "queued")
    BY <1>4 DEF Iso!SubmitUrb, WithState
  <2>2. /\ Len(WithState(urbs, j, "queued")) = Len(urbs)
        /\ WithState(urbs, j, "queued") = [i \in 1..Len(urbs) |-> WithState(urbs, j, "queued")[i]]
        /\ \A i \in 1..Len(urbs) : i # j => WithState(urbs, j, "queued")[i] = urbs[i]
        /\ WithState(urbs, j, "queued")[j].st = "queued"
        /\ IsoUrb(WithState(urbs, j, "queued")[j])
    BY <1>3, <1>5, IsoStateChanges
  <2> QED BY <2>1, <2>2, Zenon
<1>7. Progress(a, b, c + 1)' /\ c + 1 <= Len(urbs)
  <2>1. \A i \in 1..Len(urbs) : urbs'[i].st = IF i = Head(todo) THEN "queued" ELSE urbs[i].st
    BY <1>4, <1>6
  <2> QED BY <1>1, <1>2, <1>3, <1>6, <2>1, UrbSubmitted
<1>8. (\E x, y, z \in 0..Len(urbs) : Progress(x, y, z))'
  <2>1. a \in 0..Len(urbs') /\ b \in 0..Len(urbs') /\ c + 1 \in 0..Len(urbs')
    BY <1>3, <1>6, <1>7
  <2> QED BY <1>7, <2>1
<1>9. (\A i \in 1..Len(urbs) : IsoUrb(urbs[i]))'
  BY <1>5, <1>6
<1> QED BY <1>2, <1>3, <1>8, <1>9 DEF IsoInv, Flags

LEMMA IsoRefused == ASSUME IsoInv, Iso!UrbRefused PROVE IsoInv'
<1>1. PICK a, b, c \in 0..Len(urbs) : Progress(a, b, c)
  BY DEF IsoInv
<1>2. /\ lock = "submit"
      /\ UNCHANGED <<urbs, reaped, doneq, attached, polled, cancelled, result>>
  BY DEF Iso!UrbRefused, Iso!submitted
<1>3. /\ Len(urbs) \in Nat /\ c < Len(urbs) /\ todo = Interval(c + 1, Len(urbs))
      /\ a \in Nat /\ b \in Nat /\ c \in Nat
  BY <1>1, <1>2 DEF Progress, Phases, Looping
<1>4. Head(todo) = c + 1
  <2>1. c + 1 \in Nat /\ c + 1 <= Len(urbs)
    BY <1>3
  <2> QED BY <1>3, <2>1, IntervalSplits
<1>5. ~cancelled
  BY <1>2 DEF IsoInv
<1>6. CASE Head(todo) = 1
  <2>1. /\ allocated' = FALSE /\ pending' = FALSE /\ lock' = "free" /\ todo' = <<>>
        /\ UNCHANGED <<num_retired, reap_action>>
    BY <1>6 DEF Iso!UrbRefused
  <2>2. ~allocated' /\ ~pending' /\ allocated' \in BOOLEAN /\ pending' \in BOOLEAN
    BY <2>1, Zenon
  <2>3. Progress(a, b, c)' /\ doneq = <<>>
    BY <1>1, <1>2, <1>3, <1>6, <2>1, <2>2, FirstRefused
  <2>4. (\E x, y, z \in 0..Len(urbs) : Progress(x, y, z))'
    BY <1>2, <2>3
  <2> QED BY <1>2, <1>5, <2>1, <2>2, <2>3, <2>4 DEF IsoInv, Flags
<1>7. CASE Head(todo) # 1
  <2>1. /\ reap_action' = "SUBMIT_FAILED" /\ num_retired' = Len(urbs) - Head(todo) + 1
        /\ lock' = "discard" /\ todo' = [j \in 1..(Head(todo) - 1) |-> j]
        /\ UNCHANGED <<allocated, pending>>
    BY <1>7 DEF Iso!UrbRefused, Iso!N
  <2>2. Head(todo) > 1
    BY <1>3, <1>4, <1>7
  <2>3. Progress(a, b, c)'
    BY <1>1, <1>2, <1>3, <2>1, <2>2, LaterRefused
  <2>4. (\E x, y, z \in 0..Len(urbs) : Progress(x, y, z))'
    BY <1>2, <2>3
  <2> QED BY <1>2, <1>3, <1>5, <2>1, <2>4 DEF IsoInv, Flags
<1> QED BY <1>6, <1>7

LEMMA IsoHandsBack ==
    ASSUME IsoInv, NEW a \in 0..Len(urbs), NEW b \in 0..Len(urbs), NEW c \in 0..Len(urbs),
           Progress(a, b, c), NEW d \in Nat, b <= d, d <= c, Len(urbs') = Len(urbs),
           urbs' = [i \in 1..Len(urbs) |-> urbs'[i]],
           \A i \in 1..Len(urbs) : IF i \in (b + 1)..d
                                    THEN IsoUrb(urbs'[i]) /\ urbs'[i].st = "done"
                                    ELSE urbs'[i] = urbs[i],
           doneq' = doneq \o Interval(b + 1, d), ~attached' => d = c, attached' => attached,
           attached' \in BOOLEAN,
           UNCHANGED <<allocated, num_retired, lock, todo, reaped, polled, pending, cancelled,
                       reap_action, result>>
    PROVE  IsoInv'
<1>1. Len(urbs) \in Nat /\ a \in Nat /\ b \in Nat /\ c \in Nat
  BY DEF Progress, Phases
<1>2. Progress(a, d, c)'
  <2>1. \A i \in 1..Len(urbs) : urbs'[i].st = IF i \in (b + 1)..d THEN "done" ELSE urbs[i].st
    OBVIOUS
  <2> QED BY <1>1, <2>1, HandedBack
<1>3. (\E x, y, z \in 0..Len(urbs) : Progress(x, y, z))'
  <2>1. d \in 0..Len(urbs')
    BY <1>1
  <2> QED BY <1>2, <2>1
<1>4. (\A i \in 1..Len(urbs) : IsoUrb(urbs[i]))'
  BY DEF IsoInv
<1>5. Flags'
  BY DEF IsoInv, Flags
<1>6. ~allocated /\ result = "none" => doneq' = <<>>
  <2>1. SUFFICES ASSUME ~allocated, result = "none" PROVE doneq' = <<>>
    OBVIOUS
  <2>2. doneq = <<>> /\ b = d
    <3>1. b = c
      BY <2>1 DEF Progress, Counted
    <3> QED BY <1>1, <2>1, <3>1 DEF IsoInv
  <2>3. Interval(b + 1, d) = <<>>
    BY <1>1, <2>2, IntervalEmpty
  <2> QED BY <2>2, <2>3
<1> QED BY <1>3, <1>4, <1>5, <1>6 DEF IsoInv

\* The next URB in flight ends, whoever made it end.
LEMMA IsoEnds ==
    ASSUME NEW a \in Nat, NEW b \in Nat, NEW c \in Nat, Phases(a, b, c),
           \A i \in 1..Len(urbs) : IsoUrb(urbs[i]),
           NEW j \in (b + 1)..c, NEW s, Iso!Ends(j, s)
    PROVE  /\ Len(urbs') = Len(urbs) /\ urbs' = [i \in 1..Len(urbs) |-> urbs'[i]]
           /\ \A i \in 1..Len(urbs) : i # j => urbs'[i] = urbs[i]
           /\ IsoUrb(urbs'[j]) /\ urbs'[j].st = "done" /\ doneq' = Append(doneq, j)
           /\ urbs'[j].packets = urbs[j].packets
<1>1. Len(urbs) \in Nat /\ c <= Len(urbs) /\ urbs = [i \in 1..Len(urbs) |-> urbs[i]]
  BY DEF Phases
<1> DEFINE u == [st |-> "done", status |-> s, packets |-> urbs[j].packets]
<1>2. urbs' = [urbs EXCEPT ![j] = u] /\ doneq' = Append(doneq, j)
  BY Zenon DEF Iso!Ends
<1>3. IsoUrb(u) /\ u.st = "done" /\ u.packets = urbs[j].packets
  BY DEF IsoUrb
<1> HIDE DEF u
<1>4. urbs' = [i \in 1..Len(urbs) |-> IF i = j THEN u ELSE urbs[i]]
  BY <1>1, <1>2, Zenon
<1>5. urbs' = [i \in 1..Len(urbs) |-> urbs'[i]]
  BY <1>4, Zenon
<1>6. Len(urbs') = Len(urbs)
  BY <1>1, <1>5, LenIs
<1>7. j \in 1..Len(urbs)
  BY <1>1
<1>8. urbs'[j] = u /\ \A i \in 1..Len(urbs) : i # j => urbs'[i] = urbs[i]
  BY <1>4, <1>7, Zenon
<1> QED BY <1>2, <1>3, <1>5, <1>6, <1>8

LEMMA IsoAnswered ==
    ASSUME IsoInv, NEW s, Iso!UrbEnds(s) PROVE IsoInv'
<1>1. PICK a, b, c \in 0..Len(urbs) : Progress(a, b, c)
  BY DEF IsoInv
<1>2. /\ Len(urbs) \in Nat /\ a \in Nat /\ b \in Nat /\ c \in Nat /\ Phases(a, b, c)
      /\ a <= b /\ b <= c
  BY <1>1 DEF Progress, Phases
<1>3. Iso!Queued = (b + 1)..c
  BY <1>2, QueuedIs
<1>4. b # c /\ (CHOOSE i \in Iso!Queued : \A j \in Iso!Queued : i <= j) = b + 1
  <2>1. (b + 1)..c # {}
    BY <1>3 DEF Iso!UrbEnds
  <2>2. b # c
    BY <1>2, <2>1
  <2> QED BY <1>2, <2>2, QueuedIs
<1>5. Iso!Ends(b + 1, s)
  BY <1>4, Zenon DEF Iso!UrbEnds
<1>6. /\ attached /\ attached' = attached
      /\ UNCHANGED <<allocated, num_retired, lock, todo, reaped, polled, pending, cancelled,
                     reap_action, result>>
  BY DEF Iso!UrbEnds, Iso!tpriv, Iso!user
<1>7. PICK d \in (b + 1)..c : d = b + 1
  BY <1>2, <1>4
<1>8. \A i \in 1..Len(urbs) : IsoUrb(urbs[i])
  BY DEF IsoInv
<1>9. /\ Len(urbs') = Len(urbs) /\ urbs' = [i \in 1..Len(urbs) |-> urbs'[i]]
      /\ \A i \in 1..Len(urbs) : i # d => urbs'[i] = urbs[i]
      /\ IsoUrb(urbs'[d]) /\ urbs'[d].st = "done" /\ doneq' = Append(doneq, d)
  <2>1. Iso!Ends(d, s)
    BY <1>5, <1>7
  <2> QED BY <1>2, <1>8, <2>1, IsoEnds
<1>10. ASSUME NEW i \in 1..Len(urbs)
       PROVE  IF i \in (b + 1)..d THEN IsoUrb(urbs'[i]) /\ urbs'[i].st = "done"
                                  ELSE urbs'[i] = urbs[i]
  <2>1. i \in (b + 1)..d <=> i = d
    BY <1>2, <1>7
  <2> QED BY <1>9, <2>1
<1>11. doneq' = doneq \o Interval(b + 1, d)
  <2>1. Interval(b + 1, d) = <<d>>
    <3>1. b + 1 \in Nat
      BY <1>2
    <3> QED BY <1>7, <3>1, IntervalOne
  <2>2. doneq \in Seq(Nat \cup {-1})
    <3> DEFINE f == IF reaped = 0 THEN a + 1 ELSE a + 2
    <3>1. doneq = Interval(f, b) /\ (reaped = 0 \/ (reaped = a + 1 /\ a < b))
      BY <1>1 DEF Progress, Reaping
    <3>2. f \in Nat /\ f <= b + 1
      BY <1>2, <3>1
    <3> HIDE DEF f
    <3> QED BY <1>2, <3>1, <3>2, IntervalIs
  <2>3. d \in Nat \cup {-1}
    BY <1>2
  <2> QED BY <1>9, <2>1, <2>2, <2>3, AppendIsConcat
<1>12. d \in Nat /\ b <= d /\ d <= c
  BY <1>2, <1>7
<1>13. attached' \in BOOLEAN /\ attached'
  BY <1>6 DEF IsoInv, Flags
<1> QED BY <1>1, <1>6, <1>9, <1>10, <1>11, <1>12, <1>13, IsoHandsBack

LEMMA IsoUnplugged == ASSUME IsoInv, Iso!Unplug PROVE IsoInv'
<1>1. PICK a, b, c \in 0..Len(urbs) : Progress(a, b, c)
  BY DEF IsoInv
<1>2. /\ Len(urbs) \in Nat /\ a \in Nat /\ b \in Nat /\ c \in Nat /\ Phases(a, b, c)
      /\ a <= b /\ b <= c
  BY <1>1 DEF Progress, Phases
<1>3. Iso!Queued = (b + 1)..c
  BY <1>2, QueuedIs
<1> DEFINE u(i) == [st |-> "done", status |-> "EOTHER", packets |-> urbs[i].packets]
<1>4. /\ urbs' = [i \in 1..Len(urbs) |-> IF i \in (b + 1)..c THEN u(i) ELSE urbs[i]]
      /\ doneq' = doneq \o Interval(b + 1, c)
  <2>1. Iso!InOrder((b + 1)..c) = Interval(b + 1, c)
    <3>1. b + 1 \in Nat /\ b + 1 <= c + 1
      BY <1>2
    <3> QED BY <1>2, <3>1, OrderOfInterval
  <2> QED BY <1>3, <2>1, Zenon DEF Iso!Unplug, Iso!N
<1>5. \A i \in 1..Len(urbs) : IsoUrb(u(i)) /\ u(i).st = "done"
  BY DEF IsoUrb
<1> HIDE DEF u
<1>6. /\ attached' = FALSE
      /\ UNCHANGED <<allocated, num_retired, lock, todo, reaped, polled, pending, cancelled,
                     reap_action, result>>
  BY DEF Iso!Unplug, Iso!tpriv, Iso!user
<1>7. urbs' = [i \in 1..Len(urbs) |-> urbs'[i]] /\ Len(urbs') = Len(urbs)
  <2>1. urbs' = [i \in 1..Len(urbs) |-> urbs'[i]]
    BY <1>4, Zenon
  <2> QED BY <1>2, <2>1, LenIs
<1>8. ASSUME NEW i \in 1..Len(urbs)
      PROVE  IF i \in (b + 1)..c THEN IsoUrb(urbs'[i]) /\ urbs'[i].st = "done"
                                 ELSE urbs'[i] = urbs[i]
  BY <1>4, <1>5, Zenon
<1>9. c <= c
  BY <1>2
<1>10. ~attached' /\ attached' \in BOOLEAN
  BY <1>6, Zenon
<1> QED BY <1>1, <1>2, <1>4, <1>6, <1>7, <1>8, <1>9, <1>10, IsoHandsBack

LEMMA IsoDiscarded == ASSUME IsoInv, Iso!DiscardUrb PROVE IsoInv'
<1>1. PICK a, b, c \in 0..Len(urbs) : Progress(a, b, c)
  BY DEF IsoInv
<1>2. /\ Len(urbs) \in Nat /\ a \in Nat /\ b \in Nat /\ c \in Nat /\ Phases(a, b, c)
      /\ a <= b /\ b <= c /\ c <= Len(urbs) /\ urbs = [i \in 1..Len(urbs) |-> urbs[i]]
  BY <1>1 DEF Progress, Phases
<1>3. Iso!Queued = (b + 1)..c
  BY <1>2, QueuedIs
<1>4. /\ lock = "discard" /\ todo' = Tail(todo)
      /\ lock' = IF Len(todo) = 1 THEN "free" ELSE "discard"
      /\ UNCHANGED <<allocated, num_retired, reaped, attached, polled, pending, cancelled,
                     reap_action, result>>
  BY DEF Iso!DiscardUrb, Iso!tpriv, Iso!user
<1>5. Head(todo) \in (b + 1)..c => allocated
  BY <1>1, <1>2 DEF Progress, Counted
<1>6. \A i \in 1..Len(urbs) : IsoUrb(urbs[i])
  BY DEF IsoInv
<1>7. CASE Head(todo) \in (b + 1)..c
  <2>1. PICK d \in (b + 1)..c : d = Head(todo)
    BY <1>7
  <2>2. Iso!Ends(d, "ENOENT")
    BY <1>3, <1>7, <2>1, Zenon DEF Iso!DiscardUrb
  <2>3. /\ Len(urbs') = Len(urbs) /\ urbs' = [i \in 1..Len(urbs) |-> urbs'[i]]
        /\ \A i \in 1..Len(urbs) : i # d => urbs'[i] = urbs[i]
        /\ IsoUrb(urbs'[d]) /\ urbs'[d].st = "done" /\ doneq' = Append(doneq, d)
    BY <1>2, <1>6, <2>2, IsoEnds
  <2>4. d \in Nat
    BY <1>2
  <2>5. Progress(a, d, c)'
    <3>1. \A i \in 1..Len(urbs) :
            urbs'[i].st = IF i \in (b + 1)..c /\ i = Head(todo) THEN "done" ELSE urbs[i].st
      BY <2>1, <2>3
    <3>2. Head(todo) \in (b + 1)..c /\ d = Head(todo) /\ doneq' = Append(doneq, d)
      BY <2>1, <2>3
    <3> QED BY <1>1, <1>2, <1>4, <2>3, <2>4, <3>1, <3>2, Discarded
  <2>6. (\E x, y, z \in 0..Len(urbs) : Progress(x, y, z))'
    <3>1. d \in 0..Len(urbs') /\ a \in 0..Len(urbs') /\ c \in 0..Len(urbs')
      BY <1>2, <2>3
    <3> QED BY <2>5, <3>1
  <2>7. (\A i \in 1..Len(urbs) : IsoUrb(urbs[i]))'
    BY <1>6, <2>3
  <2> QED BY <1>4, <1>5, <1>7, <2>6, <2>7 DEF IsoInv, Flags
<1>8. CASE Head(todo) \notin (b + 1)..c
  <2>1. urbs' = urbs /\ doneq' = doneq
    BY <1>3, <1>8 DEF Iso!DiscardUrb
  <2>2. Progress(a, b, c)'
    <3>1. \A i \in 1..Len(urbs) :
            urbs'[i].st = IF i \in (b + 1)..c /\ i = Head(todo) THEN "done" ELSE urbs[i].st
      BY <1>8, <2>1
    <3>2. Len(urbs') = Len(urbs) /\ urbs' = [i \in 1..Len(urbs) |-> urbs'[i]]
      BY <1>2, <2>1
    <3>3. Head(todo) \notin (b + 1)..c /\ b = b /\ doneq' = doneq
      BY <1>8, <2>1
    <3> QED BY <1>1, <1>2, <1>4, <3>1, <3>2, <3>3, Discarded
  <2>3. (\E x, y, z \in 0..Len(urbs) : Progress(x, y, z))'
    BY <2>1, <2>2
  <2> QED BY <1>4, <1>6, <2>1, <2>3 DEF IsoInv, Flags
<1> QED BY <1>7, <1>8

LEMMA IsoCancelled == ASSUME IsoInv, Iso!Cancel PROVE IsoInv'
<1>1. PICK a, b, c \in 0..Len(urbs) : Progress(a, b, c)
  BY DEF IsoInv
<1>2. Len(urbs) \in Nat /\ a \in Nat /\ b \in Nat /\ c \in Nat
  BY <1>1 DEF Progress, Phases
<1>3. /\ lock = "free" /\ allocated /\ pending /\ cancelled' = TRUE
      /\ lock' = "discard" /\ todo' = [i \in 1..Len(urbs) |-> i]
      /\ UNCHANGED <<urbs, allocated, num_retired, reaped, doneq, attached, polled>>
      /\ UNCHANGED <<pending, result>>
  BY DEF Iso!Cancel, Iso!N, Iso!submitted
<1>4. todo' = Interval(1, Len(urbs))
  <2>1. \A i \in 1..Len(urbs) : 1 + i - 1 = i
    BY <1>2
  <2>2. Len(urbs) - 1 + 1 = Len(urbs)
    BY <1>2
  <2> QED BY <1>3, <2>1, <2>2 DEF Interval
<1>5. Progress(a, b, c)'
  BY <1>1, <1>2, <1>3, <1>4, Cancelled
<1>6. (\E x, y, z \in 0..Len(urbs) : Progress(x, y, z))'
  BY <1>3, <1>5
<1>7. cancelled' \in BOOLEAN /\ cancelled'
  BY <1>3, Zenon
<1> QED BY <1>3, <1>6, <1>7 DEF IsoInv, Flags

LEMMA IsoReaped == ASSUME IsoInv, Iso!Reap PROVE IsoInv'
<1>1. PICK a, b, c \in 0..Len(urbs) : Progress(a, b, c)
  BY DEF IsoInv
<1>2. a \in Nat /\ b \in Nat /\ c \in Nat
  BY <1>1 DEF Progress, Phases
<1>3. /\ reaped = 0 /\ polled /\ doneq # <<>> /\ reaped' = Head(doneq) /\ doneq' = Tail(doneq)
      /\ UNCHANGED <<urbs, allocated, num_retired, lock, todo, attached, polled>>
      /\ UNCHANGED <<reap_action, pending, cancelled, result>>
  BY DEF Iso!Reap, Iso!submitted, Iso!tpriv, Iso!user
<1>4. Progress(a, b, c)' /\ allocated
  BY <1>1, <1>2, <1>3, Taken
<1>5. (\E x, y, z \in 0..Len(urbs) : Progress(x, y, z))'
  BY <1>3, <1>4
<1> QED BY <1>3, <1>4, <1>5 DEF IsoInv, Flags

LEMMA IsoHandled == ASSUME IsoInv, Iso!HandleReap PROVE IsoInv'
<1>1. PICK a, b, c \in 0..Len(urbs) : Progress(a, b, c)
  BY DEF IsoInv
<1>2. /\ reaped # 0 /\ lock = "free" /\ num_retired' = num_retired + 1 /\ reaped' = 0
      /\ UNCHANGED <<reap_action, lock, todo, doneq, attached, polled, cancelled>>
  BY DEF Iso!HandleReap
<1>3. /\ Len(urbs) \in Nat /\ a \in Nat /\ b \in Nat /\ c \in Nat
      /\ b <= c /\ c <= Len(urbs) /\ urbs = [i \in 1..Len(urbs) |-> urbs[i]]
      /\ reaped = a + 1 /\ a < b /\ allocated /\ todo = <<>>
  BY <1>1, <1>2 DEF Progress, Phases, Reaping, Looping, Counted
<1>4. PICK j \in 1..Len(urbs) : j = reaped
  BY <1>3
<1>5. \A i \in 1..Len(urbs) : IsoUrb(urbs[i])
  BY DEF IsoInv
<1>6. /\ Len(urbs') = Len(urbs) /\ urbs' = [i \in 1..Len(urbs) |-> urbs'[i]]
      /\ \A i \in 1..Len(urbs) : i # j => urbs'[i] = urbs[i]
      /\ urbs'[j].st = "reaped" /\ IsoUrb(urbs'[j])
  <2>1. urbs' = WithState(urbs, j, "reaped")
    BY <1>4 DEF Iso!HandleReap, WithState
  <2>2. /\ Len(WithState(urbs, j, "reaped")) = Len(urbs)
        /\ WithState(urbs, j, "reaped") = [i \in 1..Len(urbs) |-> WithState(urbs, j, "reaped")[i]]
        /\ \A i \in 1..Len(urbs) : i # j => WithState(urbs, j, "reaped")[i] = urbs[i]
        /\ WithState(urbs, j, "reaped")[j].st = "reaped"
        /\ IsoUrb(WithState(urbs, j, "reaped")[j])
    BY <1>3, <1>5, IsoStateChanges
  <2> QED BY <2>1, <2>2, Zenon
<1>7. \/ ~allocated' /\ ~pending' /\ result' # "none" /\ (reaped = Len(urbs) \/ num_retired + 1 = Len(urbs))
      \/ UNCHANGED <<allocated, pending, result>>
  <2>1. CASE Iso!Final(reaped)
    <3>1. allocated' = FALSE /\ pending' = FALSE /\ result' = Iso!Outcome
      BY <2>1 DEF Iso!HandleReap
    <3>2. result' # "none"
      <4>1. CASE reap_action = "NORMAL"
        BY <3>1, <4>1 DEF Iso!Outcome
      <4>2. CASE reap_action = "CANCELLED"
        BY <3>1, <4>2 DEF Iso!Outcome
      <4>3. CASE reap_action # "NORMAL" /\ reap_action # "CANCELLED"
        BY <3>1, <4>3 DEF Iso!Outcome
      <4> QED BY <4>1, <4>2, <4>3
    <3> QED BY <2>1, <3>1, <3>2 DEF Iso!Final, Iso!N
  <2>2. CASE ~Iso!Final(reaped)
    BY <2>2 DEF Iso!HandleReap
  <2> QED BY <2>1, <2>2
<1>8. allocated' \in BOOLEAN /\ pending' \in BOOLEAN /\ (pending' <=> allocated')
  <2>1. \/ allocated' = FALSE /\ pending' = FALSE
        \/ allocated' = allocated /\ pending' = pending
    BY DEF Iso!HandleReap
  <2>2. allocated \in BOOLEAN /\ pending \in BOOLEAN /\ (pending <=> allocated)
    BY Zenon DEF IsoInv, Flags
  <2>3. CASE allocated' = FALSE /\ pending' = FALSE
    BY <2>3
  <2>4. CASE allocated' = allocated /\ pending' = pending
    BY <2>2, <2>4
  <2> QED BY <2>1, <2>3, <2>4
<1>9. Progress(a + 1, b, c)'
  <2>1. \A i \in 1..Len(urbs) : urbs'[i].st = IF i = reaped THEN "reaped" ELSE urbs[i].st
    BY <1>4, <1>6
  <2>2. ~allocated' => lock' = "free" /\ (reaped = Len(urbs) \/ num_retired + 1 = Len(urbs))
    BY <1>2, <1>3, <1>7
  <2>3. lock' = "free" /\ todo' = <<>>
    BY <1>2, <1>3
  <2> QED BY <1>1, <1>2, <1>3, <1>6, <1>8, <2>1, <2>2, <2>3, Retired
<1>10. (\E x, y, z \in 0..Len(urbs) : Progress(x, y, z))'
  <2>1. a + 1 \in 0..Len(urbs') /\ b \in 0..Len(urbs') /\ c \in 0..Len(urbs')
    BY <1>3, <1>6
  <2> QED BY <1>9, <2>1
<1>11. (\A i \in 1..Len(urbs) : IsoUrb(urbs[i]))'
  BY <1>5, <1>6
<1>12. /\ cancelled' => allocated' \/ result' # "none"
       /\ ~allocated' /\ result' = "none" => doneq' = <<>>
  BY <1>2, <1>3, <1>7
<1> QED BY <1>2, <1>8, <1>10, <1>11, <1>12 DEF IsoInv, Flags

LEMMA IsoDisconnected == ASSUME IsoInv, Iso!HandleDisconnect PROVE IsoInv'
<1>1. PICK a, b, c \in 0..Len(urbs) : Progress(a, b, c)
  BY DEF IsoInv
<1>2. a \in Nat /\ b \in Nat /\ c \in Nat
  BY <1>1 DEF Progress, Phases
<1>3. /\ ~attached /\ polled /\ reaped = 0
      /\ result' = IF pending THEN "NO_DEVICE" ELSE result
      /\ UNCHANGED <<urbs, num_retired, lock, todo, reaped, doneq, attached>>
      /\ UNCHANGED <<reap_action, cancelled>>
  BY DEF Iso!HandleDisconnect, Iso!submitted
<1>4. /\ ~polled' /\ ~allocated' /\ ~pending'
      /\ polled' \in BOOLEAN /\ allocated' \in BOOLEAN /\ pending' \in BOOLEAN
  BY DEF Iso!HandleDisconnect
<1>5. Progress(a, b, c)'
  BY <1>1, <1>2, <1>3, <1>4, Disconnected
<1>6. (\E x, y, z \in 0..Len(urbs) : Progress(x, y, z))'
  BY <1>3, <1>5
<1> QED BY <1>3, <1>4, <1>6 DEF IsoInv, Flags

LEMMA IsoInduction ==
    ASSUME TransfersAssumption, IsoInv, Iso!Next PROVE IsoInv'
<1>1. CASE \E lens \in PacketLists : Iso!Submit(lens)
  BY <1>1, IsoSubmit
<1>2. CASE Iso!InCall
  BY <1>2, IsoSubmitUrb, IsoRefused, IsoDiscarded DEF Iso!InCall
<1>3. CASE Iso!Cancel
  BY <1>3, IsoCancelled
<1>4. CASE Iso!EventThread
  BY <1>4, IsoReaped, IsoHandled, IsoDisconnected DEF Iso!EventThread
<1>5. CASE \E s \in {"OK"} \cup (IF UrbsFail THEN {"EPROTO"} ELSE {}) : Iso!UrbEnds(s)
  BY <1>5, IsoAnswered
<1>6. CASE Iso!Unplug
  BY <1>6, IsoUnplugged
<1> QED BY <1>1, <1>2, <1>3, <1>4, <1>5, <1>6 DEF Iso!Next

-----------------------------------------------------------------------------
(* The theorems                                                            *)

LEMMA InitTransfers == TransfersAssumption /\ Init => TransfersInv
<1> SUFFICES ASSUME Init PROVE TransfersInv
  OBVIOUS
<1> DEFINE start == /\ urbs = <<>> /\ ~allocated /\ lock = "free" /\ todo = <<>> /\ reaped = 0
                    /\ doneq = <<>> /\ attached /\ polled /\ ~pending /\ ~cancelled
                    /\ Flags /\ reap_action = "NORMAL"
<1>1. start => (\E a, b, c \in 0..Len(urbs) : Progress(a, b, c)) /\ Len(urbs) = 0
  <2> SUFFICES ASSUME start PROVE 0 \in 0..Len(urbs) /\ Progress(0, 0, 0) /\ Len(urbs) = 0
    OBVIOUS
  <2>1. Len(urbs) = 0 /\ urbs = [i \in 1..0 |-> urbs[i]]
    BY EmptySeq
  <2>2. Phases(0, 0, 0)
    BY <2>1 DEF Phases
  <2>3. Interval(0 + 1, 0) = <<>>
    BY IntervalEmpty
  <2>4. Reaping(0, 0)
    BY <2>3 DEF Reaping
  <2>5. Looping(0, 0, 0) /\ Counted(0, 0, 0) /\ Gone(0, 0)
    BY <2>1 DEF Looping, Counted, Gone
  <2> QED BY <2>1, <2>2, <2>4, <2>5 DEF Progress
<1>2. CASE type = "bulk" /\ Bulk!Init
  <2>1. start
    BY <1>2 DEF Bulk!Init, Flags
  <2>2. reporting = FALSE /\ reap_status = "COMPLETED"
    BY <1>2 DEF Bulk!Init
  <2>3. \A i \in 1..Len(urbs) : BulkUrb(i, urbs[i])
    BY <1>1, <2>1
  <2>4. reporting \in BOOLEAN /\ ~reporting
    BY <2>2
  <2>5. \E a, b, c \in 0..Len(urbs) : Progress(a, b, c)
    BY <1>1, <2>1, Zenon
  <2>6. Flags /\ ~pending /\ ~allocated /\ reap_action # "CANCELLED"
    BY <2>1
  <2> HIDE DEF start
  <2>7. BulkInv
    BY <2>2, <2>3, <2>4, <2>5, <2>6 DEF BulkInv
  <2> QED BY <1>2, <2>7 DEF TransfersInv
<1>3. CASE type = "iso" /\ Iso!Init
  <2>1. start
    BY <1>3 DEF Iso!Init, Flags
  <2>2. IsoInv
    BY <1>1, <2>1 DEF IsoInv
  <2> QED BY <1>3, <2>2 DEF TransfersInv
<1>4. CASE type = "control" /\ Control!Init
  <2>1. ControlInv
    BY <1>4 DEF Control!Init, ControlInv, Flags
  <2> QED BY <1>4, <2>1 DEF TransfersInv
<1> QED BY <1>2, <1>3, <1>4 DEF Init

LEMMA StepTransfers ==
    ASSUME TransfersAssumption, TransfersInv, [Next]_vars PROVE TransfersInv'
<1>1. CASE OfBulk /\ Bulk!Next
  BY <1>1, BulkInduction DEF TransfersInv, OfBulk
<1>2. CASE OfIso /\ Iso!Next
  BY <1>2, IsoInduction DEF TransfersInv, OfIso
<1>3. CASE OfControl /\ Control!Next
  BY <1>3, ControlInduction DEF TransfersInv, OfControl
<1>4. CASE UNCHANGED vars
  <2> USE <1>4 DEF vars, bulkOnly, isoOnly, arrays, controlOnly
  <2>1. Flags' <=> Flags
    BY DEF Flags
  <2>2. (\E a, b, c \in 0..Len(urbs) : Progress(a, b, c))'
          <=> \E a, b, c \in 0..Len(urbs) : Progress(a, b, c)
    BY DEF Progress, Phases, Reaping, Looping, Counted, Gone
  <2>3. BulkInv => BulkInv'
    BY <2>1, <2>2 DEF BulkInv, BulkUrb
  <2>4. IsoInv => IsoInv'
    BY <2>1, <2>2 DEF IsoInv
  <2>5. ControlInv => ControlInv'
    BY <2>1 DEF ControlInv
  <2> QED BY <2>3, <2>4, <2>5 DEF TransfersInv
<1> QED BY <1>1, <1>2, <1>3, <1>4 DEF Next

\* What the invariant says of the memory the kernel may write.
LEMMA HeldWhilePending ==
    TransfersInv => FreedWhenUnused /\ (held => pending) /\ held \in BOOLEAN /\ pending \in BOOLEAN
<1> SUFFICES ASSUME TransfersInv
             PROVE  FreedWhenUnused /\ (held => pending) /\ held \in BOOLEAN /\ pending \in BOOLEAN
  OBVIOUS
<1>0. pending \in BOOLEAN
  BY DEF TransfersInv, BulkInv, IsoInv, ControlInv, Flags
<1>1. ASSUME NEW a \in 0..Len(urbs), NEW b \in 0..Len(urbs), NEW c \in 0..Len(urbs),
             Progress(a, b, c), ~allocated
      PROVE  reaped = 0 /\ ~Bulk!held /\ ~Iso!held /\ (lock = "free" \/ ~polled)
  <2>1. /\ a \in Nat /\ b \in Nat /\ c \in Nat /\ Phases(a, b, c) /\ b = c
        /\ reaped = 0 /\ (polled => a = b /\ lock = "free") /\ doneq = Interval(a + 1, b)
    BY <1>1 DEF Progress, Phases, Counted, Reaping
  <2>2. (b + 1)..c = {}
    BY <2>1
  <2>3. Bulk!Queued = {} /\ Iso!Queued = {}
    BY <2>1, <2>2, QueuedIs
  <2>4. a = b => doneq = <<>>
    BY <2>1, IntervalEmpty
  <2> QED BY <2>1, <2>3, <2>4 DEF Bulk!held, Iso!held
<1>2. CASE type = "bulk"
  <2>1. BulkInv
    BY <1>2 DEF TransfersInv
  <2>2. ~allocated => reaped = 0 /\ ~Bulk!held /\ (lock = "free" \/ ~polled)
    BY <1>1, <2>1 DEF BulkInv
  <2>3. held = Bulk!held /\ (FreedWhenUnused <=> Bulk!FreedWhenUnused)
    BY <1>2 DEF held, FreedWhenUnused
  <2>4. held \in BOOLEAN
    BY <2>3, Zenon DEF Bulk!held
  <2>5. allocated => pending
    BY <2>1 DEF BulkInv
  <2> QED BY <1>0, <2>2, <2>3, <2>4, <2>5, Zenon DEF Bulk!FreedWhenUnused
<1>3. CASE type = "iso"
  <2>1. IsoInv
    BY <1>3 DEF TransfersInv
  <2>2. ~allocated => reaped = 0 /\ ~Iso!held /\ (lock = "free" \/ ~polled)
    BY <1>1, <2>1 DEF IsoInv
  <2>3. held = Iso!held /\ (FreedWhenUnused <=> Iso!FreedWhenUnused)
    BY <1>3 DEF held, FreedWhenUnused
  <2>4. held \in BOOLEAN
    BY <2>3, Zenon DEF Iso!held
  <2>5. allocated => pending
    BY <2>1 DEF IsoInv
  <2> QED BY <1>0, <2>2, <2>3, <2>4, <2>5, Zenon DEF Iso!FreedWhenUnused
<1>4. CASE type = "control"
  <2>1. ControlInv
    BY <1>4 DEF TransfersInv
  <2>2. /\ (allocated <=> pending) /\ (Control!held <=> pending /\ lock # "submit")
        /\ ~pending => lock = "free" \/ ~polled
    BY <2>1 DEF ControlInv, Control!held
  <2>3. held = Control!held /\ (FreedWhenUnused <=> Control!FreedWhenUnused)
    BY <1>4 DEF held, FreedWhenUnused
  <2>4. held \in BOOLEAN
    BY <2>3, Zenon DEF Control!held
  <2> QED BY <1>0, <2>2, <2>3, <2>4, Zenon DEF Control!FreedWhenUnused
<1> QED BY <1>0, <1>2, <1>3, <1>4 DEF TransfersInv

LEMMA TransfersInvariant == Spec => []TransfersInv
<1>1. Init => TransfersInv
  BY InitTransfers, TransfersAssumption
<1>2. TransfersInv /\ [Next]_vars => TransfersInv'
  BY StepTransfers, TransfersAssumption
<1> QED BY <1>1, <1>2, PTL DEF Spec

\* The array of URBs is freed only when the kernel and the reaping thread have
\* done with it and, unless a disconnection frees it, so have the loops of
\* submission and discarding, for transfers of any length and any number of
\* URBs (reap_for_handle, free_iso_urbs, op_clear_transfer_priv).
THEOREM ArraysOutliveTheirUse == Spec => []FreedWhenUnused
<1>1. TransfersInv => FreedWhenUnused
  BY HeldWhilePending
<1> QED BY <1>1, TransfersInvariant, PTL

\* The refinement: what the user and the operating system see of a transfer.
Held == (held => pending) /\ held \in BOOLEAN /\ pending \in BOOLEAN

LEMMA QuietStep ==
    ASSUME Held', UNCHANGED <<pending, cancelled, result>>
    PROVE  [Transfer!Next]_(Transfer!tvars)
<1>1. CASE held'
  <2>1. held' = TRUE /\ pending
    BY <1>1 DEF Held
  <2> QED BY <2>1 DEF Transfer!Next, Transfer!Hold
<1>2. CASE ~held'
  <2>1. held' = FALSE
    BY <1>2 DEF Held
  <2> QED BY <2>1 DEF Transfer!Next, Transfer!Release
<1> QED BY <1>1, <1>2

LEMMA SubmitStep ==
    ASSUME Held', ~pending, pending' = TRUE, cancelled' = FALSE, result' = "none"
    PROVE  [Transfer!Next]_(Transfer!tvars)
BY DEF Held, Transfer!Next, Transfer!Submit

\* A submission that leaves nothing behind, or a report to the user.
LEMMA ReportStep ==
    ASSUME Held, Held', pending' = FALSE, UNCHANGED cancelled,
           \/ ~pending /\ result' = result
           \/ /\ pending /\ result' \in Transfer!Statuses
              /\ result' = "CANCELLED" => cancelled
    PROVE  [Transfer!Next]_(Transfer!tvars)
<1>1. held' = FALSE
  BY DEF Held
<1>2. CASE ~pending /\ result' = result
  <2>1. UNCHANGED <<pending, held, cancelled, result>>
    BY <1>1, <1>2 DEF Held
  <2> QED BY <2>1 DEF Transfer!tvars
<1>3. CASE /\ pending /\ result' \in Transfer!Statuses /\ (result' = "CANCELLED" => cancelled)
  BY <1>1, <1>3 DEF Transfer!Next, Transfer!Report
<1> QED BY <1>2, <1>3

\* After a disconnection the submission was reported before it is refused.
LEMMA RefuseStep ==
    ASSUME Held, Held', held' = held, pending' = FALSE, UNCHANGED <<cancelled, result>>
    PROVE  [Transfer!Next]_(Transfer!tvars)
<1>1. ~held
  BY DEF Held
<1>2. CASE pending
  BY <1>1, <1>2 DEF Transfer!Next, Transfer!Refuse
<1>3. CASE ~pending
  BY <1>3 DEF Held, Transfer!tvars
<1> QED BY <1>2, <1>3

LEMMA CancelStep ==
    ASSUME Held, pending, cancelled' = TRUE, UNCHANGED <<pending, result>>, held' = held
    PROVE  [Transfer!Next]_(Transfer!tvars)
BY DEF Transfer!Next, Transfer!Cancel

LEMMA SameHeld ==
    ASSUME UNCHANGED <<type, urbs, doneq, polled, urb>> PROVE held' = held
<1>1. Bulk!held' = Bulk!held /\ Iso!held' = Iso!held /\ Control!held' = Control!held
  <2>1. Bulk!Queued' = Bulk!Queued
    BY DEF Bulk!Queued, Bulk!num_urbs
  <2>2. Iso!Queued' = Iso!Queued
    BY DEF Iso!Queued, Iso!N
  <2> QED BY <2>1, <2>2 DEF Bulk!held, Iso!held, Control!held
<1> QED BY <1>1, Zenon DEF held

LEMMA BulkRefines ==
    ASSUME OfBulk, Bulk!Next, BulkInv, Held, Held' PROVE [Transfer!Next]_(Transfer!tvars)
<1>1. CASE \E n \in BulkLengths, out \in BOOLEAN : Bulk!Submit(n, out)
  BY <1>1, SubmitStep DEF Bulk!Submit
<1>2. CASE Bulk!InCall
  <2>1. CASE Bulk!FirstUrbRefused
    <3>1. held' = held
      BY <2>1, SameHeld DEF Bulk!FirstUrbRefused, Bulk!kernel, OfBulk, controlOnly
    <3>2. pending' = FALSE /\ UNCHANGED <<cancelled, result>>
      BY <2>1 DEF Bulk!FirstUrbRefused
    <3> QED BY <3>1, <3>2, RefuseStep
  <2>2. CASE ~Bulk!FirstUrbRefused
    <3>1. UNCHANGED <<pending, cancelled, result>>
      BY <1>2, <2>2 DEF Bulk!InCall, Bulk!SubmitUrb, Bulk!LaterUrbRefused, Bulk!DiscardUrb, Bulk!user
    <3> QED BY <3>1, QuietStep
  <2> QED BY <2>1, <2>2
<1>3. CASE Bulk!Cancel
  <2>1. held' = held
    BY <1>3, SameHeld DEF Bulk!Cancel, Bulk!kernel, OfBulk, controlOnly
  <2> QED BY <1>3, <2>1, CancelStep DEF Bulk!Cancel
<1>4. CASE Bulk!EventThread
  <2>1. CASE Bulk!Report
    <3>1. /\ pending' = FALSE /\ UNCHANGED cancelled /\ reporting
          /\ result' = IF reap_action = "CANCELLED" THEN "CANCELLED" ELSE reap_status
      BY <2>1 DEF Bulk!Report
    <3>2. pending /\ (reap_action = "CANCELLED" => cancelled)
      BY <3>1 DEF BulkInv
    <3>3. result' \in Transfer!Statuses /\ (result' = "CANCELLED" => cancelled)
      BY <3>1, <3>2 DEF BulkInv, Transfer!Statuses
    <3> QED BY <3>1, <3>2, <3>3, ReportStep
  <2>2. CASE Bulk!HandleDisconnect
    <3>1. /\ pending' = FALSE /\ UNCHANGED cancelled
          /\ result' = IF pending THEN "NO_DEVICE" ELSE result
      BY <2>2 DEF Bulk!HandleDisconnect
    <3>2. \/ ~pending /\ result' = result
          \/ /\ pending /\ result' \in Transfer!Statuses
             /\ result' = "CANCELLED" => cancelled
      BY <3>1 DEF Transfer!Statuses
    <3> QED BY <3>1, <3>2, ReportStep
  <2>3. CASE ~Bulk!Report /\ ~Bulk!HandleDisconnect
    <3>1. UNCHANGED <<pending, cancelled, result>>
      BY <1>4, <2>3 DEF Bulk!EventThread, Bulk!Reap, Bulk!HandleAbnormalReap, Bulk!HandleGoodReap,
         Bulk!HandleOverflow, Bulk!HandleFailedReap, Bulk!user
    <3> QED BY <3>1, QuietStep
  <2> QED BY <2>1, <2>2, <2>3
<1>5. CASE \/ \E s \in Bulk!KernelStatuses, n \in 0..MAX_BULK_BUFFER_LENGTH : Bulk!DeviceAnswers(s, n)
           \/ Bulk!Unplug
  <2>1. UNCHANGED <<pending, cancelled, result>>
    BY <1>5 DEF Bulk!DeviceAnswers, Bulk!Unplug, Bulk!user
  <2> QED BY <2>1, QuietStep
<1> QED BY <1>1, <1>2, <1>3, <1>4, <1>5 DEF Bulk!Next

LEMMA IsoRefines ==
    ASSUME OfIso, Iso!Next, IsoInv, Held, Held' PROVE [Transfer!Next]_(Transfer!tvars)
<1>1. CASE \E lens \in PacketLists : Iso!Submit(lens)
  <2>1. /\ ~pending /\ pending' = TRUE /\ ~allocated /\ result = "none"
        /\ UNCHANGED <<cancelled, result>>
    BY <1>1 DEF Iso!Submit
  <2>2. cancelled = FALSE
    BY <2>1 DEF IsoInv, Flags
  <2> QED BY <2>1, <2>2, SubmitStep
<1>2. CASE Iso!InCall
  <2>1. CASE Iso!UrbRefused /\ Head(todo) = 1
    <3>1. /\ lock = "submit" /\ pending' = FALSE /\ UNCHANGED <<cancelled, result>>
          /\ UNCHANGED <<type, urbs, doneq, polled, urb>>
      BY <2>1 DEF Iso!UrbRefused, Iso!submitted, OfIso, controlOnly
    <3>2. held' = held
      BY <3>1, SameHeld
    <3> QED BY <3>1, <3>2, RefuseStep
  <2>2. CASE ~(Iso!UrbRefused /\ Head(todo) = 1)
    <3>1. UNCHANGED <<pending, cancelled, result>>
      BY <1>2, <2>2 DEF Iso!InCall, Iso!SubmitUrb, Iso!UrbRefused, Iso!DiscardUrb, Iso!user
    <3> QED BY <3>1, QuietStep
  <2> QED BY <2>1, <2>2
<1>3. CASE Iso!Cancel
  <2>1. UNCHANGED <<type, urbs, doneq, polled, urb>>
    BY <1>3 DEF Iso!Cancel, Iso!submitted, OfIso, controlOnly
  <2>2. held' = held
    BY <2>1, SameHeld
  <2> QED BY <1>3, <2>2, CancelStep DEF Iso!Cancel
<1>4. CASE Iso!HandleReap
  <2>1. UNCHANGED cancelled
    BY <1>4 DEF Iso!HandleReap
  <2>2. CASE Iso!Final(reaped)
    <3>1. pending' = FALSE /\ result' = Iso!Outcome
      BY <1>4, <2>2 DEF Iso!HandleReap
    <3>2. pending
      <4>1. reaped # 0
        BY <1>4 DEF Iso!HandleReap
      <4> QED BY <4>1 DEF IsoInv, Progress, Counted
    <3>3. result' \in Transfer!Statuses /\ (result' = "CANCELLED" => reap_action = "CANCELLED")
      <4>1. CASE reap_action = "NORMAL"
        BY <3>1, <4>1 DEF Iso!Outcome, Transfer!Statuses
      <4>2. CASE reap_action = "CANCELLED"
        BY <3>1, <4>2 DEF Iso!Outcome, Transfer!Statuses
      <4>3. CASE reap_action # "NORMAL" /\ reap_action # "CANCELLED"
        BY <3>1, <4>3 DEF Iso!Outcome, Transfer!Statuses
      <4> QED BY <4>1, <4>2, <4>3
    <3>4. result' = "CANCELLED" => cancelled
      BY <3>3 DEF IsoInv
    <3> QED BY <2>1, <3>1, <3>2, <3>3, <3>4, ReportStep
  <2>3. CASE ~Iso!Final(reaped)
    <3>1. UNCHANGED <<pending, cancelled, result>>
      BY <1>4, <2>1, <2>3 DEF Iso!HandleReap
    <3> QED BY <3>1, QuietStep
  <2> QED BY <2>2, <2>3
<1>5. CASE Iso!HandleDisconnect
  <2>1. /\ pending' = FALSE /\ UNCHANGED cancelled
        /\ result' = IF pending THEN "NO_DEVICE" ELSE result
    BY <1>5 DEF Iso!HandleDisconnect
  <2>2. \/ ~pending /\ result' = result
        \/ /\ pending /\ result' \in Transfer!Statuses
           /\ result' = "CANCELLED" => cancelled
    BY <2>1 DEF Transfer!Statuses
  <2> QED BY <2>1, <2>2, ReportStep
<1>6. CASE \/ \E s \in {"OK"} \cup (IF UrbsFail THEN {"EPROTO"} ELSE {}) : Iso!UrbEnds(s)
           \/ Iso!Unplug \/ Iso!Reap
  <2>1. UNCHANGED <<pending, cancelled, result>>
    BY <1>6 DEF Iso!UrbEnds, Iso!Unplug, Iso!Reap, Iso!user
  <2> QED BY <2>1, QuietStep
<1> QED BY <1>1, <1>2, <1>3, <1>4, <1>5, <1>6 DEF Iso!Next, Iso!EventThread

LEMMA ControlRefines ==
    ASSUME OfControl, Control!Next, ControlInv, Held, Held' PROVE [Transfer!Next]_(Transfer!tvars)
<1>1. CASE \E n \in ControlLengths : Control!Submit(n)
  BY <1>1, SubmitStep DEF Control!Submit
<1>2. CASE \/ \E s \in {"OK", "EPIPE", "EPROTO", "EOTHER"}, n \in 0..(length - SETUP) :
                Control!DeviceAnswers(s, n)
           \/ Control!Unplug
  <2>1. UNCHANGED <<pending, cancelled, result>>
    BY <1>2 DEF Control!DeviceAnswers, Control!Unplug, Control!user
  <2> QED BY <2>1, QuietStep
<1>3. CASE Control!Cancel
  <2>1. /\ pending /\ cancelled' = TRUE /\ UNCHANGED <<pending, result>>
        /\ UNCHANGED <<type, urbs, doneq, polled, urb>>
    BY <1>3 DEF Control!Cancel, OfControl, arrays
  <2>2. held' = held
    BY <2>1, SameHeld
  <2> QED BY <2>1, <2>2, CancelStep
<1>6. CASE Control!InCall
  <2>1. CASE Control!UrbRefused
    <3>1. /\ pending' = FALSE /\ UNCHANGED <<cancelled, result>>
          /\ UNCHANGED <<type, urbs, doneq, polled, urb>>
      BY <2>1 DEF Control!UrbRefused, OfControl, arrays
    <3>2. held' = held
      BY <3>1, SameHeld
    <3> QED BY <3>1, <3>2, RefuseStep
  <2>2. CASE ~Control!UrbRefused
    <3>1. UNCHANGED <<pending, cancelled, result>>
      BY <1>6, <2>2 DEF Control!InCall, Control!SubmitUrb, Control!DiscardUrb, Control!user
    <3> QED BY <3>1, QuietStep
  <2> QED BY <2>1, <2>2
<1>4. CASE Control!HandleControlCompletion
  <2>1. /\ pending' = FALSE /\ UNCHANGED cancelled /\ result' = Control!Verdict
        /\ urb = "done" /\ polled
    BY <1>4 DEF Control!HandleControlCompletion
  <2>2. pending
    BY <2>1 DEF ControlInv
  <2>3. result' \in Transfer!Statuses /\ (result' = "CANCELLED" => reap_action = "CANCELLED")
    <3>1. CASE reap_action = "CANCELLED"
      BY <2>1, <3>1 DEF Control!Verdict, Transfer!Statuses
    <3>2. CASE reap_action # "CANCELLED" /\ status = "OK"
      BY <2>1, <3>2 DEF Control!Verdict, Transfer!Statuses
    <3>3. CASE reap_action # "CANCELLED" /\ status = "EPIPE"
      BY <2>1, <3>3 DEF Control!Verdict, Transfer!Statuses
    <3>4. CASE reap_action # "CANCELLED" /\ status # "OK" /\ status # "EPIPE"
      BY <2>1, <3>4 DEF Control!Verdict, Transfer!Statuses
    <3> QED BY <3>1, <3>2, <3>3, <3>4
  <2>4. result' = "CANCELLED" => cancelled
    BY <2>3 DEF ControlInv
  <2> QED BY <2>1, <2>2, <2>3, <2>4, ReportStep
<1>5. CASE Control!HandleDisconnect
  <2>1. /\ pending' = FALSE /\ UNCHANGED cancelled
        /\ result' = IF pending THEN "NO_DEVICE" ELSE result
    BY <1>5 DEF Control!HandleDisconnect
  <2>2. \/ ~pending /\ result' = result
        \/ /\ pending /\ result' \in Transfer!Statuses
           /\ result' = "CANCELLED" => cancelled
    BY <2>1 DEF Transfer!Statuses
  <2> QED BY <2>1, <2>2, ReportStep
<1> QED BY <1>1, <1>2, <1>3, <1>4, <1>5, <1>6 DEF Control!Next, Control!EventThread

LEMMA StartRefines == Init => Transfer!Init
<1> SUFFICES ASSUME Init PROVE Transfer!Init
  OBVIOUS
<1>1. CASE type = "bulk" /\ Bulk!Init
  <2>1. Bulk!Queued = {}
    <3>1. Len(urbs) = 0
      BY <1>1 DEF Bulk!Init
    <3> QED BY <3>1 DEF Bulk!Queued, Bulk!num_urbs
  <2>2. Bulk!held = FALSE
    BY <1>1, <2>1 DEF Bulk!held, Bulk!Init
  <2>3. held = Bulk!held
    BY <1>1 DEF held
  <2> QED BY <1>1, <2>2, <2>3 DEF Transfer!Init, Bulk!Init
<1>2. CASE type = "iso" /\ Iso!Init
  <2>1. Iso!Queued = {}
    <3>1. Len(urbs) = 0
      BY <1>2 DEF Iso!Init
    <3> QED BY <3>1 DEF Iso!Queued, Iso!N
  <2>2. Iso!held = FALSE
    BY <1>2, <2>1 DEF Iso!held, Iso!Init
  <2>3. held = Iso!held
    BY <1>2 DEF held
  <2> QED BY <1>2, <2>2, <2>3 DEF Transfer!Init, Iso!Init
<1>3. CASE type = "control" /\ Control!Init
  <2>1. Control!held = FALSE
    BY <1>3 DEF Control!held, Control!Init
  <2>2. held = Control!held
    BY <1>3 DEF held
  <2> QED BY <1>3, <2>1, <2>2 DEF Transfer!Init, Control!Init
<1> QED BY <1>1, <1>2, <1>3 DEF Init

\* Whatever its type, its length and the moment of a cancellation, a timeout or
\* an unplugging, a transfer is what usbi_os_backend promises: each accepted
\* submission is reported once, when the kernel holds nothing of it, and as
\* cancelled only if it was (reap_for_handle, op_handle_events).  A loop that
\* a disconnection overtakes is taken to find in memory what was there.
THEOREM TransfersAreReportedOnce == Spec => ImplementsUsbTransfer
<1>1. Init => Transfer!Init
  BY StartRefines
<1>2. TransfersInv => Held
  BY HeldWhilePending DEF Held
<1>3. TransfersInv /\ Held /\ Held' /\ [Next]_vars => [Transfer!Next]_(Transfer!tvars)
  <2> SUFFICES ASSUME TransfersInv, Held, Held', [Next]_vars PROVE [Transfer!Next]_(Transfer!tvars)
    OBVIOUS
  <2>1. CASE OfBulk /\ Bulk!Next
    BY <2>1, BulkRefines DEF OfBulk, TransfersInv
  <2>2. CASE OfIso /\ Iso!Next
    BY <2>2, IsoRefines DEF OfIso, TransfersInv
  <2>3. CASE OfControl /\ Control!Next
    BY <2>3, ControlRefines DEF OfControl, TransfersInv
  <2>4. CASE UNCHANGED vars
    <3>1. UNCHANGED <<pending, cancelled, result>>
      BY <2>4 DEF vars
    <3> QED BY <3>1, QuietStep
  <2> QED BY <2>1, <2>2, <2>3, <2>4 DEF Next
<1> QED BY <1>1, <1>2, <1>3, TransfersInvariant, PTL DEF Spec, ImplementsUsbTransfer, Transfer!Spec

-----------------------------------------------------------------------------
(* The outcome of a bulk transfer                                          *)

Intact(i) == urbs[i].st = "reaped" /\ ~Bulk!Failed(i)
EndedShort == \E j \in 1..Len(urbs) : Bulk!Short(j) /\ \A i \in 1..j : Intact(i)
SomeNew == \E j \in 1..Len(urbs) : urbs[j].st = "new"

\* As long as no failure is recorded, what is retired succeeded; a transfer is
\* completed early by a short URB behind which nothing counts, or by a refusal.
OutcomeInv ==
    /\ reap_action \in {"NORMAL", "SUBMIT_FAILED", "CANCELLED", "COMPLETED_EARLY", "ERROR"}
    /\ reap_action # "NORMAL" => lock # "submit"
    /\ reap_status = "COMPLETED" =>
         /\ reap_action # "ERROR"
         /\ reap_action = "NORMAL" =>
              \A i \in 1..Len(urbs) : urbs[i].st = "reaped" \/ reporting => Intact(i)
         /\ reap_action \in {"COMPLETED_EARLY", "SUBMIT_FAILED"} => EndedShort \/ SomeNew
    /\ result = "COMPLETED" =>
         /\ ~pending /\ lock # "submit"
         /\ EndedShort \/ SomeNew \/ \A i \in 1..Len(urbs) : Intact(i)

\* The kernel touches neither what is reaped nor what is not submitted.
LEMMA KernelKeepsOutcome ==
    ASSUME OutcomeInv, Len(urbs) \in Nat, Len(urbs') = Len(urbs),
           \A i \in 1..Len(urbs) : urbs[i].st \in {"reaped", "new"} => urbs'[i] = urbs[i],
           \A i \in 1..Len(urbs) : urbs'[i].st = "reaped" => urbs[i].st = "reaped",
           lock' = "submit" => lock = "submit",
           UNCHANGED <<length, reap_action, reap_status, reporting, result, pending>>
    PROVE  OutcomeInv'
<1>1. ASSUME NEW i \in 1..Len(urbs), Intact(i) PROVE Intact(i)'
  BY <1>1 DEF Intact, Bulk!Failed
<1>2. ASSUME EndedShort PROVE EndedShort'
  <2>1. PICK j \in 1..Len(urbs) : Bulk!Short(j) /\ \A i \in 1..j : Intact(i)
    BY <1>2 DEF EndedShort
  <2>2. \A i \in 1..j : Intact(i)'
    BY <1>1, <2>1
  <2>3. urbs'[j] = urbs[j]
    BY <2>1 DEF Intact
  <2>4. Bulk!Short(j)'
    BY <2>1, <2>3 DEF Bulk!Short, Bulk!buffer_length, Bulk!num_urbs, Bulk!Offset
  <2> QED BY <2>2, <2>4 DEF EndedShort
<1>3. SomeNew => SomeNew'
  BY DEF SomeNew
<1>4. ASSUME NEW i \in 1..Len(urbs),
             urbs[i].st = "reaped" \/ reporting => Intact(i)
      PROVE  (urbs[i].st = "reaped" \/ reporting => Intact(i))'
  BY <1>1, <1>4
<1> QED BY <1>1, <1>2, <1>3, <1>4 DEF OutcomeInv

LEMMA SubmitOutcome ==
    ASSUME BulkInv, OutcomeInv, Bulk!SubmitUrb PROVE OutcomeInv'
<1>1. PICK a, b, c \in 0..Len(urbs) : Progress(a, b, c)
  BY DEF BulkInv
<1>2. /\ lock = "submit" /\ UNCHANGED <<reap_action, reap_status, reporting, result, pending>>
      /\ allocated
  BY <1>1 DEF Progress, Looping, Gone, Bulk!SubmitUrb, Bulk!tpriv, Bulk!user
<1>3. a = 0 /\ Len(urbs) \in Nat /\ a <= b /\ b <= c /\ c < Len(urbs) /\ todo = Interval(c + 1, Len(urbs))
      /\ urbs = [i \in 1..Len(urbs) |-> urbs[i]]
  BY <1>1, <1>2 DEF Progress, Phases, Looping
<1>4. PICK j \in 1..Len(urbs) : j = Head(todo)
  <2>1. c + 1 \in Nat /\ c + 1 <= Len(urbs)
    BY <1>3
  <2>2. Head(Interval(c + 1, Len(urbs))) = c + 1
    BY <1>3, <2>1, IntervalSplits
  <2> QED BY <1>3, <2>1, <2>2
<1>5. \A i \in 1..Len(urbs) : urbs'[i].st # "reaped"
  <2>1. \A i \in 1..Len(urbs) : urbs[i].st # "reaped"
    <3>1. \A i \in 1..Len(urbs) : urbs[i].st = Phase(i, a, b, c)
      BY <1>1 DEF Progress, Phases
    <3> QED BY <1>3, <3>1 DEF Phase
  <2>2. urbs' = WithState(urbs, j, "queued")
    BY <1>4 DEF Bulk!SubmitUrb, WithState
  <2>3. urbs[j] \in BulkRecords /\ "queued" \in States
    BY DEF BulkInv, BulkUrb, States
  <2>4. /\ \A i \in 1..Len(urbs) : i # j => WithState(urbs, j, "queued")[i] = urbs[i]
        /\ WithState(urbs, j, "queued")[j].st = "queued"
        /\ Len(WithState(urbs, j, "queued")) = Len(urbs)
    BY <1>3, <2>3, StateChanges
  <2> QED BY <2>1, <2>2, <2>4
<1>6. Len(urbs') = Len(urbs)
  <2>1. urbs' = WithState(urbs, j, "queued")
    BY <1>4 DEF Bulk!SubmitUrb, WithState
  <2>2. urbs[j] \in BulkRecords /\ "queued" \in States
    BY DEF BulkInv, BulkUrb, States
  <2>3. Len(WithState(urbs, j, "queued")) = Len(urbs)
    BY <1>3, <2>2, StateChanges
  <2> QED BY <2>1, <2>3
<1>7. pending /\ ~reporting /\ reap_action = "NORMAL"
  BY <1>2 DEF BulkInv, OutcomeInv
<1> QED BY <1>2, <1>5, <1>6, <1>7 DEF OutcomeInv

LEMMA RefusedOutcome ==
    ASSUME BulkInv, OutcomeInv, NEW errno, Bulk!FirstUrbRefused \/ Bulk!LaterUrbRefused(errno)
    PROVE  OutcomeInv'
<1>1. PICK a, b, c \in 0..Len(urbs) : Progress(a, b, c)
  BY DEF BulkInv
<1>2. /\ lock = "submit" /\ UNCHANGED <<urbs, length, reap_status, reporting, result>> /\ lock' # "submit"
  BY DEF Bulk!FirstUrbRefused, Bulk!LaterUrbRefused, Bulk!static, Bulk!user
<1>3. /\ Len(urbs) \in Nat /\ c < Len(urbs)
      /\ \A i \in 1..Len(urbs) : urbs[i].st = Phase(i, a, b, c)
  BY <1>1, <1>2 DEF Progress, Phases, Looping
<1>4. SomeNew /\ SomeNew'
  <2>1. Len(urbs) \in 1..Len(urbs) /\ ~(Len(urbs) <= c) /\ a <= c /\ b <= c
    BY <1>1, <1>3 DEF Progress, Phases
  <2>2. ~(Len(urbs) <= a) /\ ~(Len(urbs) <= b)
    BY <1>1, <1>3, <2>1
  <2>3. urbs[Len(urbs)].st = "new"
    BY <1>3, <2>1, <2>2 DEF Phase
  <2> QED BY <1>2, <2>1, <2>3 DEF SomeNew
<1>5. result # "COMPLETED" /\ ~reporting /\ reap_action = "NORMAL"
  BY <1>1, <1>2 DEF BulkInv, OutcomeInv, Progress, Counted
<1>6. reap_action' \in {"NORMAL", "SUBMIT_FAILED", "COMPLETED_EARLY"}
  BY <1>5 DEF Bulk!FirstUrbRefused, Bulk!LaterUrbRefused
<1>7. \A i \in 1..Len(urbs) : Intact(i)' <=> Intact(i)
  BY <1>2 DEF Intact, Bulk!Failed
<1> QED BY <1>2, <1>4, <1>5, <1>6, <1>7 DEF OutcomeInv

LEMMA AnsweredOutcome ==
    ASSUME BulkInv, OutcomeInv, NEW status_, NEW n, Bulk!DeviceAnswers(status_, n)
    PROVE  OutcomeInv'
<1>1. PICK a, b, c \in 0..Len(urbs) : Progress(a, b, c)
  BY DEF BulkInv
<1>2. Len(urbs) \in Nat
  BY <1>1 DEF Progress, Phases
<1> DEFINE k == CHOOSE j \in Bulk!Queued : Bulk!Oldest(j)
           rest == IF supports_flag_bulk_continuation /\ status_ # "OK"
                   THEN Bulk!Queued \ {k} ELSE {}
<1>3. k \in Bulk!Queued
  <2>1. a \in Nat /\ b \in Nat /\ c \in Nat /\ Phases(a, b, c) /\ b <= c
    BY <1>1 DEF Progress, Phases
  <2>2. Bulk!Queued = (b + 1)..c
    BY <2>1, QueuedIs
  <2>3. (b + 1)..c # {}
    BY <2>2 DEF Bulk!DeviceAnswers
  <2>4. b # c
    BY <2>1, <2>3
  <2>5. k = b + 1
    BY <2>1, <2>4, QueuedIs
  <2> HIDE DEF k
  <2>6. b + 1 \in (b + 1)..c
    BY <2>1, <2>4
  <2> QED BY <2>2, <2>5, <2>6
<1>4. /\ urbs' = [j \in 1..Len(urbs) |-> IF j = k THEN Bulk!URB("done", status_, n)
                                          ELSE IF j \in rest THEN Bulk!URB("done", "ENOENT", 0)
                                          ELSE urbs[j]]
      /\ lock' = lock /\ UNCHANGED <<length, reap_action, reap_status, reporting, result, pending>>
  BY Zenon DEF Bulk!DeviceAnswers, Bulk!num_urbs, Bulk!static, Bulk!tpriv, Bulk!user
<1>5. rest \subseteq Bulk!Queued /\ \A i \in Bulk!Queued : urbs[i].st = "queued"
  BY DEF Bulk!Queued
<1> HIDE DEF rest, k
<1>6. Len(urbs') = Len(urbs)
  <2>1. urbs' = [j \in 1..Len(urbs) |-> urbs'[j]]
    BY <1>4, Zenon
  <2> QED BY <1>2, <2>1, LenIs
<1>7. \A i \in 1..Len(urbs) : urbs'[i] = urbs[i] \/ (urbs[i].st = "queued" /\ urbs'[i].st = "done")
  BY <1>3, <1>4, <1>5 DEF Bulk!URB
<1>8. lock' = "submit" => lock = "submit"
  BY <1>4
<1>9. /\ \A i \in 1..Len(urbs) : urbs[i].st \in {"reaped", "new"} => urbs'[i] = urbs[i]
      /\ \A i \in 1..Len(urbs) : urbs'[i].st = "reaped" => urbs[i].st = "reaped"
  BY <1>7
<1> QED BY <1>2, <1>4, <1>6, <1>8, <1>9, KernelKeepsOutcome

LEMMA UnpluggedOutcome ==
    ASSUME BulkInv, OutcomeInv, Bulk!Unplug PROVE OutcomeInv'
<1>1. Len(urbs) \in Nat
  BY DEF BulkInv, Progress, Phases
<1>2. /\ urbs' = [i \in 1..Len(urbs) |-> IF i \in Bulk!Queued THEN Bulk!URB("done", "EOTHER", 0)
                                          ELSE urbs[i]]
      /\ lock' = lock /\ UNCHANGED <<length, reap_action, reap_status, reporting, result, pending>>
  BY Zenon DEF Bulk!Unplug, Bulk!num_urbs, Bulk!static, Bulk!tpriv, Bulk!user
<1>3. \A i \in Bulk!Queued : urbs[i].st = "queued"
  BY DEF Bulk!Queued
<1>4. Len(urbs') = Len(urbs)
  <2>1. urbs' = [j \in 1..Len(urbs) |-> urbs'[j]]
    BY <1>2, Zenon
  <2> QED BY <1>1, <2>1, LenIs
<1>5. \A i \in 1..Len(urbs) : urbs'[i] = urbs[i] \/ (urbs[i].st = "queued" /\ urbs'[i].st = "done")
  BY <1>2, <1>3 DEF Bulk!URB
<1>6. lock' = "submit" => lock = "submit"
  BY <1>2
<1>7. /\ \A i \in 1..Len(urbs) : urbs[i].st \in {"reaped", "new"} => urbs'[i] = urbs[i]
      /\ \A i \in 1..Len(urbs) : urbs'[i].st = "reaped" => urbs[i].st = "reaped"
  BY <1>5
<1> QED BY <1>1, <1>2, <1>4, <1>6, <1>7, KernelKeepsOutcome

LEMMA DiscardedOutcome ==
    ASSUME BulkInv, OutcomeInv, NEW n, Bulk!DiscardUrb(n) PROVE OutcomeInv'
<1>1. Len(urbs) \in Nat /\ urbs = [i \in 1..Len(urbs) |-> urbs[i]]
  BY DEF BulkInv, Progress, Phases
<1> DEFINE j == Head(todo)
<1>2. /\ \/ urbs' = urbs
         \/ j \in Bulk!Queued /\ urbs' = [urbs EXCEPT ![j] = Bulk!URB("done", "ENOENT", n)]
      /\ lock' # "submit" /\ UNCHANGED <<length, reap_action, reap_status, reporting, result, pending>>
  BY DEF Bulk!DiscardUrb, Bulk!static, Bulk!tpriv, Bulk!user
<1>3. \A i \in Bulk!Queued : i \in 1..Len(urbs) /\ urbs[i].st = "queued"
  BY DEF Bulk!Queued, Bulk!num_urbs
<1> HIDE DEF j
<1>4. /\ urbs' = [i \in 1..Len(urbs) |-> urbs'[i]]
      /\ \A i \in 1..Len(urbs) :
           urbs'[i] = urbs[i] \/ (i \in Bulk!Queued /\ urbs'[i] = Bulk!URB("done", "ENOENT", n))
  <2>1. CASE urbs' = urbs
    BY <1>1, <2>1
  <2>2. CASE j \in Bulk!Queued /\ urbs' = [urbs EXCEPT ![j] = Bulk!URB("done", "ENOENT", n)]
    <3>1. urbs' = [i \in 1..Len(urbs) |-> IF i = j THEN Bulk!URB("done", "ENOENT", n) ELSE urbs[i]]
      BY <1>1, <2>2, Zenon
    <3> QED BY <2>2, <3>1, Zenon
  <2> QED BY <1>2, <2>1, <2>2
<1>5. Len(urbs') = Len(urbs)
  BY <1>1, <1>4, LenIs
<1>6. \A i \in 1..Len(urbs) : urbs'[i] = urbs[i] \/ (urbs[i].st = "queued" /\ urbs'[i].st = "done")
  BY <1>3, <1>4 DEF Bulk!URB
<1>7. /\ \A i \in 1..Len(urbs) : urbs[i].st \in {"reaped", "new"} => urbs'[i] = urbs[i]
      /\ \A i \in 1..Len(urbs) : urbs'[i].st = "reaped" => urbs[i].st = "reaped"
  BY <1>6
<1> QED BY <1>1, <1>2, <1>5, <1>7, KernelKeepsOutcome

\* An URB that is retired keeps its status and its bytes.
LEMMA RetiringKeeps ==
    ASSUME BulkInv, reaped # 0, urbs' = WithState(urbs, reaped, "reaped"), length' = length
    PROVE  /\ reaped \in 1..Len(urbs) /\ allocated /\ Len(urbs') = Len(urbs) /\ Len(urbs) \in Nat
           /\ \A i \in 1..Len(urbs) : (urbs[i].st = "reaped" => i < reaped) /\ (i < reaped => urbs[i].st = "reaped")
           /\ \A i \in 1..Len(urbs) : urbs'[i].st = IF i = reaped THEN "reaped" ELSE urbs[i].st
           /\ \A i \in 1..Len(urbs) : /\ urbs'[i].status = urbs[i].status
                                      /\ urbs'[i].actual_length = urbs[i].actual_length
           /\ \A i \in 1..Len(urbs) : Bulk!Failed(i)' <=> Bulk!Failed(i)
           /\ \A i \in 1..Len(urbs) : Bulk!Short(i)' <=> Bulk!Short(i)
           /\ EndedShort => EndedShort'
           /\ SomeNew => SomeNew'
           /\ urbs' = [i \in 1..Len(urbs) |-> urbs'[i]]
<1>1. PICK a, b, c \in 0..Len(urbs) : Progress(a, b, c)
  BY DEF BulkInv
<1>2. /\ Len(urbs) \in Nat /\ b <= c /\ c <= Len(urbs) /\ urbs = [i \in 1..Len(urbs) |-> urbs[i]]
      /\ reaped = a + 1 /\ a < b /\ allocated
      /\ \A i \in 1..Len(urbs) : urbs[i].st = Phase(i, a, b, c)
  BY <1>1 DEF Progress, Phases, Reaping, Counted
<1>3. PICK j \in 1..Len(urbs) : j = reaped
  BY <1>2
<1>4. \A i \in 1..Len(urbs) : (urbs[i].st = "reaped" => i < j) /\ (i < j => urbs[i].st = "reaped")
  BY <1>2, <1>3 DEF Phase
<1>5. urbs[j].st = "done"
  BY <1>2, <1>3 DEF Phase
<1>6. /\ Len(urbs') = Len(urbs) /\ urbs' = [i \in 1..Len(urbs) |-> urbs'[i]]
      /\ \A i \in 1..Len(urbs) : i # j => urbs'[i] = urbs[i]
      /\ urbs'[j].st = "reaped" /\ urbs'[j].status = urbs[j].status
      /\ urbs'[j].actual_length = urbs[j].actual_length
  <2>1. urbs[j] \in BulkRecords /\ "reaped" \in States /\ urbs' = WithState(urbs, j, "reaped")
    BY <1>3 DEF BulkInv, BulkUrb, States
  <2>2. /\ Len(WithState(urbs, j, "reaped")) = Len(urbs)
        /\ WithState(urbs, j, "reaped") = [i \in 1..Len(urbs) |-> WithState(urbs, j, "reaped")[i]]
        /\ \A i \in 1..Len(urbs) : i # j => WithState(urbs, j, "reaped")[i] = urbs[i]
        /\ WithState(urbs, j, "reaped")[j].st = "reaped"
        /\ WithState(urbs, j, "reaped")[j].status = urbs[j].status
        /\ WithState(urbs, j, "reaped")[j].actual_length = urbs[j].actual_length
    BY <1>2, <2>1, StateChanges
  <2> QED BY <2>1, <2>2, Zenon
<1>7. \A i \in 1..Len(urbs) :
        /\ urbs'[i].status = urbs[i].status /\ urbs'[i].actual_length = urbs[i].actual_length
        /\ urbs'[i].st = IF i = j THEN "reaped" ELSE urbs[i].st
  BY <1>6
<1>8. \A i \in 1..Len(urbs) : (Bulk!Failed(i)' <=> Bulk!Failed(i)) /\ (Bulk!Short(i)' <=> Bulk!Short(i))
  BY <1>6, <1>7 DEF Bulk!Failed, Bulk!Short, Bulk!buffer_length, Bulk!num_urbs, Bulk!Offset
<1>9. EndedShort => EndedShort'
  <2>1. ASSUME NEW i \in 1..Len(urbs), Intact(i) PROVE Intact(i)'
    BY <1>7, <1>8, <2>1 DEF Intact
  <2> QED BY <1>2, <1>6, <1>8, <2>1 DEF EndedShort
<1>10. SomeNew => SomeNew'
  BY <1>5, <1>6, <1>7 DEF SomeNew
<1> QED BY <1>2, <1>3, <1>4, <1>6, <1>7, <1>8, <1>9, <1>10

LEMMA HandledOutcome ==
    ASSUME BulkInv, OutcomeInv,
           \/ Bulk!HandleAbnormalReap \/ Bulk!HandleGoodReap
           \/ Bulk!HandleOverflow \/ Bulk!HandleFailedReap
    PROVE  OutcomeInv'
<1>1. /\ reaped # 0 /\ lock = "free" /\ urbs' = WithState(urbs, reaped, "reaped")
      /\ UNCHANGED <<length, pending, result>>
  BY DEF Bulk!HandleAbnormalReap, Bulk!HandleGoodReap, Bulk!HandleOverflow, Bulk!HandleFailedReap,
     Bulk!user, Bulk!static, WithState
<1>2. /\ reaped \in 1..Len(urbs) /\ allocated /\ Len(urbs') = Len(urbs) /\ Len(urbs) \in Nat
      /\ \A i \in 1..Len(urbs) : (urbs[i].st = "reaped" => i < reaped) /\ (i < reaped => urbs[i].st = "reaped")
      /\ \A i \in 1..Len(urbs) : urbs'[i].st = IF i = reaped THEN "reaped" ELSE urbs[i].st
      /\ \A i \in 1..Len(urbs) : Bulk!Failed(i)' <=> Bulk!Failed(i)
      /\ \A i \in 1..Len(urbs) : Bulk!Short(i)' <=> Bulk!Short(i)
      /\ EndedShort => EndedShort'
      /\ SomeNew => SomeNew'
  BY <1>1, RetiringKeeps
<1>3. pending' /\ result' # "COMPLETED"
  BY <1>1, <1>2 DEF BulkInv, OutcomeInv
<1>4. lock' # "submit"
  BY <1>1 DEF Bulk!HandleAbnormalReap, Bulk!HandleGoodReap, Bulk!HandleOverflow, Bulk!HandleFailedReap,
     Bulk!CancelRemaining, Bulk!Discarding
<1>5. CASE Bulk!HandleAbnormalReap
  <2>1. reap_action' = reap_action /\ reap_action # "NORMAL" /\ (reap_status' = "COMPLETED" => reap_status = "COMPLETED")
    BY <1>5 DEF Bulk!HandleAbnormalReap, Bulk!Unwanted
  <2> QED BY <1>2, <1>3, <1>4, <2>1 DEF OutcomeInv
<1>6. CASE Bulk!HandleGoodReap
  <2> DEFINE early == reaped < Len(urbs) /\ urbs[reaped].actual_length < Bulk!buffer_length(reaped)
  <2>1. /\ reap_action = "NORMAL" /\ reap_status' = reap_status
        /\ urbs[reaped].status \in {"OK", "EREMOTEIO"}
        /\ reap_action' = IF early THEN "COMPLETED_EARLY" ELSE "NORMAL"
        /\ ~early => reporting' = (reaped = Len(urbs))
    BY <1>6, Zenon DEF Bulk!HandleGoodReap, Bulk!Completed, Bulk!num_urbs
  <2>2. /\ ~Bulk!Failed(reaped)
        /\ early => Bulk!Short(reaped)
    BY <2>1 DEF Bulk!Failed, Bulk!Short
  <2> HIDE DEF early
  <2>3. PICK j \in 1..Len(urbs) : j = reaped
    BY <1>2
  <2>4. ASSUME reap_status = "COMPLETED" PROVE \A i \in 1..j : Intact(i)'
    <3>1. \A i \in 1..Len(urbs) : urbs[i].st = "reaped" => Intact(i)
      BY <2>1, <2>4 DEF OutcomeInv
    <3>2. ASSUME NEW i \in 1..j PROVE i \in 1..Len(urbs) /\ (i = j \/ i < j)
      BY <1>2
    <3>3. ASSUME NEW i \in 1..j PROVE ~Bulk!Failed(i)
      BY <1>2, <2>2, <2>3, <3>1, <3>2 DEF Intact
    <3> QED BY <1>2, <2>3, <3>2, <3>3 DEF Intact
  <2>5. CASE early
    <3>1. reap_status = "COMPLETED" => EndedShort'
      BY <1>2, <2>2, <2>3, <2>4, <2>5 DEF EndedShort
    <3> QED BY <1>3, <1>4, <2>1, <2>5, <3>1 DEF OutcomeInv
  <2>6. CASE ~early
    <3>1. ASSUME reap_status = "COMPLETED", NEW i \in 1..Len(urbs), urbs'[i].st = "reaped" \/ reporting'
          PROVE  Intact(i)'
      <4>1. CASE urbs'[i].st = "reaped"
        <5>1. i = j \/ i < j
          BY <1>2, <2>3, <4>1
        <5> QED BY <1>2, <2>3, <2>4, <3>1, <5>1
      <4>2. CASE reporting'
        <5>1. j = Len(urbs)
          BY <2>1, <2>3, <2>6, <4>2
        <5> QED BY <2>4, <3>1, <5>1
      <4> QED BY <3>1, <4>1, <4>2
    <3> QED BY <1>2, <1>3, <1>4, <2>1, <2>6, <3>1 DEF OutcomeInv
  <2> QED BY <2>5, <2>6
<1>7. CASE Bulk!HandleOverflow
  <2>1. reap_action' = reap_action /\ reap_status' # "COMPLETED"
    BY <1>7 DEF Bulk!HandleOverflow, Bulk!Unwanted
  <2> QED BY <1>3, <1>4, <2>1 DEF OutcomeInv
<1>8. CASE Bulk!HandleFailedReap
  <2>1. reap_action' \in {"ERROR", "NORMAL"} /\ reap_status' # "COMPLETED"
    BY <1>8 DEF Bulk!HandleFailedReap, Bulk!Unwanted
  <2> QED BY <1>3, <1>4, <2>1 DEF OutcomeInv
<1> QED BY <1>5, <1>6, <1>7, <1>8

LEMMA SubmittedOutcome ==
    ASSUME TransfersAssumption, BulkInv, NEW n \in BulkLengths, NEW out \in BOOLEAN,
           Bulk!Submit(n, out)
    PROVE  OutcomeInv'
<1>1. PICK z \in Nat : z = Bulk!NumUrbs(n)
  BY NumUrbsPositive
<1>2. /\ urbs' = [i \in 1..z |-> Bulk!URB("new", "OK", 0)]
      /\ reap_action' = "NORMAL" /\ reap_status' = "COMPLETED" /\ result' = "none"
      /\ reporting' = reporting /\ ~pending
  BY <1>1, Zenon DEF Bulk!Submit
<1>3. urbs' = [i \in 1..z |-> urbs'[i]] /\ \A i \in 1..z : urbs'[i] = Bulk!URB("new", "OK", 0)
  BY <1>2, Zenon
<1>4. Len(urbs') = z
  BY <1>3, LenIs
<1>5. \A i \in 1..Len(urbs') : urbs'[i].st # "reaped"
  BY <1>3, <1>4 DEF Bulk!URB
<1>6. ~reporting'
  BY <1>2 DEF BulkInv
<1> QED BY <1>2, <1>5, <1>6 DEF OutcomeInv

LEMMA CancelledOutcome ==
    ASSUME BulkInv, OutcomeInv, Bulk!Cancel PROVE OutcomeInv'
<1>1. /\ pending /\ pending' = pending /\ UNCHANGED <<urbs, length, reap_status, result, reporting>>
      /\ reap_action' = IF reap_action = "ERROR" THEN "ERROR" ELSE "CANCELLED"
      /\ lock' # "submit"
  BY DEF Bulk!Cancel, Bulk!Discarding, Bulk!static
<1> QED BY <1>1 DEF OutcomeInv

\* Report takes the status that OutcomeInv speaks of for the result.
LEMMA ReportedOutcome ==
    ASSUME BulkInv, OutcomeInv, Bulk!Report \/ Bulk!Reap \/ Bulk!HandleDisconnect PROVE OutcomeInv'
<1>1. UNCHANGED <<urbs, length, reap_action, reap_status, lock>>
  BY DEF Bulk!Report, Bulk!Reap, Bulk!HandleDisconnect, Bulk!tpriv, Bulk!static
<1>2. /\ \A i \in 1..Len(urbs) : Intact(i)' <=> Intact(i)
      /\ EndedShort' <=> EndedShort
      /\ SomeNew' <=> SomeNew
  BY <1>1 DEF EndedShort, SomeNew, Intact, Bulk!Failed, Bulk!Short, Bulk!buffer_length,
     Bulk!num_urbs, Bulk!Offset
<1>3. CASE Bulk!Report
  <2>1. reporting /\ reporting' = FALSE /\ pending' = FALSE
        /\ result' = IF reap_action = "CANCELLED" THEN "CANCELLED" ELSE reap_status
    BY <1>3 DEF Bulk!Report
  <2>2. lock = "free"
    BY <2>1 DEF BulkInv, Progress, Counted
  <2> QED BY <1>1, <1>2, <2>1, <2>2 DEF OutcomeInv
<1>4. CASE Bulk!Reap
  <2>1. UNCHANGED <<pending, result, reporting>>
    BY <1>4 DEF Bulk!Reap, Bulk!user
  <2> QED BY <1>1, <1>2, <2>1 DEF OutcomeInv
<1>5. CASE Bulk!HandleDisconnect
  <2>1. /\ reporting' = reporting /\ pending' = FALSE
        /\ result' = IF pending THEN "NO_DEVICE" ELSE result
    BY <1>5 DEF Bulk!HandleDisconnect
  <2> QED BY <1>1, <1>2, <2>1 DEF OutcomeInv
<1> QED BY <1>3, <1>4, <1>5

LEMMA OutcomeInduction ==
    ASSUME TransfersAssumption, BulkInv, OutcomeInv, Bulk!Next PROVE OutcomeInv'
<1>1. CASE \E n \in BulkLengths, out \in BOOLEAN : Bulk!Submit(n, out)
  BY <1>1, SubmittedOutcome
<1>2. CASE Bulk!InCall
  BY <1>2, SubmitOutcome, RefusedOutcome, DiscardedOutcome DEF Bulk!InCall
<1>3. CASE Bulk!Cancel
  BY <1>3, CancelledOutcome
<1>4. CASE Bulk!EventThread
  BY <1>4, HandledOutcome, ReportedOutcome DEF Bulk!EventThread
<1>5. CASE \E s \in Bulk!KernelStatuses, n \in 0..MAX_BULK_BUFFER_LENGTH : Bulk!DeviceAnswers(s, n)
  BY <1>5, AnsweredOutcome
<1>6. CASE Bulk!Unplug
  BY <1>6, UnpluggedOutcome
<1> QED BY <1>1, <1>2, <1>3, <1>4, <1>5, <1>6 DEF Bulk!Next

LEMMA OutcomeUnchanged ==
    ASSUME OutcomeInv, UNCHANGED vars PROVE OutcomeInv'
<1>1. UNCHANGED <<urbs, length, reap_action, reap_status, lock, result, pending, reporting>>
  BY DEF vars, bulkOnly, arrays
<1>2. /\ \A i \in 1..Len(urbs) : Intact(i)' <=> Intact(i)
      /\ EndedShort' <=> EndedShort
      /\ SomeNew' <=> SomeNew
  BY <1>1 DEF EndedShort, SomeNew, Intact, Bulk!Failed, Bulk!Short, Bulk!buffer_length,
     Bulk!num_urbs, Bulk!Offset
<1> QED BY <1>1, <1>2 DEF OutcomeInv

\* A bulk transfer reported as completed lost nothing before its end: a short
\* URB, the kernel's refusal of a later one, or its last URB.
THEOREM CompletedIsDone == Spec => []CompletedMeansDone
<1> DEFINE J == type = "bulk" => OutcomeInv
<1>1. Init => J
  <2> SUFFICES ASSUME Init, type = "bulk" PROVE OutcomeInv
    OBVIOUS
  <2>1. Bulk!Init
    BY DEF Init
  <2>2. 1..Len(urbs) = {}
    BY <2>1 DEF Bulk!Init
  <2> QED BY <2>1, <2>2 DEF Bulk!Init, OutcomeInv
<1>2. TransfersInv /\ J /\ [Next]_vars => J'
  <2> SUFFICES ASSUME TransfersInv, J, [Next]_vars, type' = "bulk" PROVE OutcomeInv'
    OBVIOUS
  <2>1. type = "bulk"
    BY DEF Next, OfBulk, OfIso, OfControl, vars
  <2>2. BulkInv /\ OutcomeInv
    BY <2>1 DEF TransfersInv
  <2>3. CASE Next
    <3>1. Bulk!Next
      BY <2>1, <2>3 DEF Next, OfBulk, OfIso, OfControl
    <3> QED BY <2>2, <3>1, TransfersAssumption, OutcomeInduction
  <2>4. CASE UNCHANGED vars
    BY <2>2, <2>4, OutcomeUnchanged
  <2> QED BY <2>3, <2>4
<1>3. TransfersInv /\ J => CompletedMeansDone
  <2> SUFFICES ASSUME TransfersInv, J, type = "bulk", result = "COMPLETED",
                      NEW i \in 1..Len(urbs), Bulk!Failed(i)
               PROVE  \/ \E j \in 1..(i - 1) : Bulk!Short(j)
                      \/ \E j \in 1..Len(urbs) : urbs[j].st = "new"
    BY DEF CompletedMeansDone, Bulk!CompletedMeansDone, Bulk!num_urbs
  <2>1. EndedShort \/ SomeNew \/ \A k \in 1..Len(urbs) : Intact(k)
    BY DEF OutcomeInv
  <2>2. CASE EndedShort
    <3>1. PICK j \in 1..Len(urbs) : Bulk!Short(j) /\ \A k \in 1..j : Intact(k)
      BY <2>2 DEF EndedShort
    <3>2. Len(urbs) \in Nat
      BY DEF TransfersInv, BulkInv, Progress, Phases
    <3>3. ~(i <= j)
      BY <3>1, <3>2 DEF Intact
    <3>4. j \in 1..(i - 1)
      BY <3>1, <3>2, <3>3
    <3> QED BY <3>1, <3>4
  <2> QED BY <2>1, <2>2 DEF SomeNew, Intact
<1> QED BY <1>1, <1>2, <1>3, TransfersInvariant, PTL DEF Spec

-----------------------------------------------------------------------------
(* The bytes of a bulk transfer                                            *)

Bytes(i) == urbs[i].actual_length
Status(i) == urbs[i].status
Normal == reap_action = "NORMAL" /\ reap_status = "COMPLETED"

\* No more bytes come from the device.
Still == endpoint # "ok" \/ ~attached

\* What URB i received is at its place in the buffer, behind the g[i] bytes of
\* the URBs before it, until it is retired.
Placed(a, b, g) ==
    /\ g[b + 1] = sent
    /\ \A i \in (a + 1)..b : /\ g[i + 1] = g[i] + Bytes(i)
                             /\ \A k \in 1..Bytes(i) : buffer[Bulk!Offset(i) + k] = g[i] + k

\* The bytes of the URBs retired are in front, in order and, if no URB failed,
\* without a hole.
Gathered(a, g) ==
    /\ transferred <= length /\ (a < Len(urbs) => transferred <= Bulk!Offset(a + 1))
    /\ \A k \in 1..transferred : /\ 1 <= buffer[k] /\ buffer[k] <= g[a + 1]
                                 /\ k > 1 => buffer[k - 1] < buffer[k]
    /\ (\A i \in 1..a : ~Bulk!Failed(i)) => transferred = g[a + 1]
    /\ Normal /\ a < Len(urbs) => transferred = Bulk!Offset(a + 1)

\* A failure that does not change reap_action is the end of the data; an URB
\* the kernel cancelled of itself comes behind one that tells why.
Silent(a, b) ==
    /\ reap_action = "NORMAL" /\ reap_status # "COMPLETED" =>
         /\ \E i \in 1..a : Bulk!Failed(i)
         /\ a < Len(urbs) => Still /\ \A i \in (a + 1)..b : Bytes(i) = 0
    /\ \A i \in (a + 1)..b :
         /\ Status(i) \in {"EPIPE", "EOTHER"} => Still /\ \A j \in (i + 1)..b : Bytes(j) = 0
         /\ Status(i) = "EREMOTEIO" => Bytes(i) # Bulk!buffer_length(i)
         /\ Normal /\ Status(i) = "ENOENT" =>
              \E j \in (a + 1)..(i - 1) : Status(j) \notin {"OK", "ENOENT"}
    /\ Normal => lock # "discard"

\* The URBs are cut from the buffer.
Sized ==
    /\ length \in Nat /\ sent \in Nat /\ transferred \in Nat
    /\ buffer \in [1..length -> Nat]
    /\ Len(urbs) # 0 => /\ Bulk!Offset(Len(urbs)) <= length
                        /\ length <= Bulk!Offset(Len(urbs)) + MAX_BULK_BUFFER_LENGTH
    /\ \A i \in 1..Len(urbs) : Bytes(i) \in 0..Bulk!buffer_length(i)

AllCounted ==
    /\ reporting => polled
    /\ result \in {"COMPLETED", "CANCELLED"} =>
         /\ ~pending
         /\ (\E i \in 1..Len(urbs) : Bulk!Failed(i)) \/ transferred = sent

Places == [1..(Len(urbs) + 1) -> Nat]

SurplusInv ==
    /\ Sized /\ AllCounted
    /\ \E a, b, c \in 0..Len(urbs) :
         Phases(a, b, c) /\ \E g \in Places : Placed(a, b, g) /\ Gathered(a, g) /\ Silent(a, b)

\* An array is in one phase.
LEMMA OnePhase ==
    ASSUME NEW a \in 0..Len(urbs), NEW b \in 0..Len(urbs), NEW c \in 0..Len(urbs), Phases(a, b, c),
           NEW x \in 0..Len(urbs), NEW y \in 0..Len(urbs), NEW z \in 0..Len(urbs), Phases(x, y, z)
    PROVE  a = x /\ b = y /\ c = z
<1>1. /\ a <= b /\ b <= c /\ x <= y /\ y <= z /\ Len(urbs) \in Nat
      /\ \A i \in 1..Len(urbs) : Phase(i, a, b, c) = Phase(i, x, y, z)
  BY DEF Phases
<1>2. \A i \in 1..Len(urbs) : i <= a <=> i <= x
  BY <1>1 DEF Phase
<1>3. \A i \in 1..Len(urbs) : i <= b <=> i <= y
  BY <1>1 DEF Phase
<1>4. \A i \in 1..Len(urbs) : i <= c <=> i <= z
  BY <1>1 DEF Phase
<1>5. \A m, n \in 0..Len(urbs) : (\A i \in 1..Len(urbs) : i <= m <=> i <= n) => m = n
  <2> SUFFICES ASSUME NEW m \in 0..Len(urbs), NEW n \in 0..Len(urbs),
                      \A i \in 1..Len(urbs) : i <= m <=> i <= n
               PROVE  m = n
    OBVIOUS
  <2>1. m # 0 => m \in 1..Len(urbs)
    BY <1>1
  <2>2. n # 0 => n \in 1..Len(urbs)
    BY <1>1
  <2> QED BY <1>1, <2>1, <2>2
<1> QED BY <1>2, <1>3, <1>4, <1>5

\* What both invariants say of the array.
Here(a, b, c, g) ==
    /\ Progress(a, b, c) /\ g \in Places
    /\ Placed(a, b, g) /\ Gathered(a, g) /\ Silent(a, b)

LEMMA SurplusIs ==
    ASSUME BulkInv, SurplusInv
    PROVE  \E a, b, c \in 0..Len(urbs) : \E g \in Places : Here(a, b, c, g)
<1>1. PICK a, b, c \in 0..Len(urbs) : Progress(a, b, c)
  BY DEF BulkInv
<1>2. PICK x, y, z \in 0..Len(urbs) :
         Phases(x, y, z) /\ \E g \in Places : Placed(x, y, g) /\ Gathered(x, g) /\ Silent(x, y)
  BY DEF SurplusInv
<1>3. a = x /\ b = y /\ c = z
  BY <1>1, <1>2, OnePhase DEF Progress
<1> QED BY <1>1, <1>2, <1>3 DEF Here

-----------------------------------------------------------------------------
LEMMA Offsets ==
    ASSUME TransfersAssumption
    PROVE  /\ MAX_BULK_BUFFER_LENGTH \in Nat \ {0}
           /\ Bulk!Offset(1) = 0
           /\ \A i \in Nat \ {0} : /\ Bulk!Offset(i) \in Nat
                                   /\ Bulk!Offset(i + 1) = Bulk!Offset(i) + MAX_BULK_BUFFER_LENGTH
           /\ \A i, j \in Nat \ {0} : i < j => Bulk!Offset(i) + MAX_BULK_BUFFER_LENGTH <= Bulk!Offset(j)
<1>1. PICK M \in Nat \ {0} : M = MAX_BULK_BUFFER_LENGTH
  BY DEF TransfersAssumption
<1>2. \A i : Bulk!Offset(i) = (i - 1) * M
  BY <1>1 DEF Bulk!Offset
<1>3. ASSUME NEW i \in Nat \ {0}
      PROVE  (i - 1) * M \in Nat /\ ((i + 1) - 1) * M = (i - 1) * M + M
  <2>1. PICK p \in Nat : i = p + 1
    <3>1. i - 1 \in Nat /\ i = (i - 1) + 1
      OBVIOUS
    <3> QED BY <3>1
  <2>2. p * M \in Nat /\ (p + 1) * M = p * M + M
    BY <1>1
  <2>3. i - 1 = p /\ (i + 1) - 1 = p + 1
    BY <2>1
  <2> QED BY <2>2, <2>3
<1>4. ASSUME NEW i \in Nat \ {0}, NEW j \in Nat \ {0}, i < j
      PROVE  (i - 1) * M + M <= (j - 1) * M
  <2>1. PICK p \in Nat, q \in Nat : i = p + 1 /\ j = q + 1 + i
    <3>1. i - 1 \in Nat /\ i = (i - 1) + 1 /\ j - i - 1 \in Nat /\ j = (j - i - 1) + 1 + i
      BY <1>4
    <3> QED BY <3>1
  <2>2. i - 1 = p /\ j - 1 = q + 1 + p
    BY <2>1
  <2>3. (q + 1 + p) * M = q * M + M + p * M /\ q * M \in Nat /\ p * M \in Nat
    BY <1>1
  <2> QED BY <2>2, <2>3
<1>5. (1 - 1) * M = 0
  BY <1>1
<1> QED BY <1>1, <1>2, <1>3, <1>4, <1>5

\* The part of URB i in the buffer.
LEMMA Parts ==
    ASSUME TransfersAssumption, Sized, Len(urbs) \in Nat, NEW i \in 1..Len(urbs)
    PROVE  /\ Bulk!buffer_length(i) \in 0..MAX_BULK_BUFFER_LENGTH
           /\ Bulk!Offset(i) + Bulk!buffer_length(i) <= length
           /\ i < Len(urbs) => /\ Bulk!buffer_length(i) = MAX_BULK_BUFFER_LENGTH
                               /\ Bulk!Offset(i) + Bulk!buffer_length(i) = Bulk!Offset(i + 1)
           /\ Bytes(i) \in Nat /\ Bytes(i) <= Bulk!buffer_length(i)
           /\ Bulk!Offset(i) \in Nat
<1>1. PICK M \in Nat \ {0} : M = MAX_BULK_BUFFER_LENGTH
  BY DEF TransfersAssumption
<1>2. PICK L \in Nat \ {0} : L = Len(urbs) /\ i \in 1..L
  OBVIOUS
<1>8. Bulk!Offset(L) <= length /\ length <= Bulk!Offset(L) + M /\ length \in Nat
  <2>1. Len(urbs) # 0
    BY <1>2
  <2> QED BY <1>1, <1>2, <2>1 DEF Sized
<1>9. /\ Bulk!Offset(L) \in Nat /\ Bulk!Offset(i) \in Nat /\ Bulk!Offset(i + 1) = Bulk!Offset(i) + M
      /\ i < L => Bulk!Offset(i) + M <= Bulk!Offset(L)
  <2>1. i \in Nat \ {0}
    BY <1>2
  <2> QED BY <1>1, <1>2, <2>1, Offsets
<1>3. /\ Bulk!Offset(L) <= length /\ length <= Bulk!Offset(L) + M /\ length \in Nat
      /\ Bulk!Offset(L) \in Nat /\ Bulk!Offset(i) \in Nat /\ Bulk!Offset(i + 1) = Bulk!Offset(i) + M
      /\ i < L => Bulk!Offset(i) + M <= Bulk!Offset(L)
  BY <1>8, <1>9
<1>4. Bulk!buffer_length(i) = IF i < L THEN M ELSE length - Bulk!Offset(i)
  BY <1>1, <1>2 DEF Bulk!buffer_length, Bulk!num_urbs
<1>5. Bytes(i) \in 0..Bulk!buffer_length(i)
  BY DEF Sized
<1>6. CASE i < L
  BY <1>1, <1>2, <1>3, <1>4, <1>5, <1>6
<1>7. CASE i = L
  <2>1. Bulk!buffer_length(i) = length - Bulk!Offset(i)
    BY <1>2, <1>4, <1>7
  <2> QED BY <1>1, <1>2, <1>3, <1>5, <1>7, <2>1
<1> QED BY <1>2, <1>6, <1>7

\* The bytes of an URB end where those of a later one begin.
LEMMA PartsApart ==
    ASSUME TransfersAssumption, Sized, Len(urbs) \in Nat,
           NEW i \in 1..Len(urbs), NEW j \in 1..Len(urbs), i < j
    PROVE  Bulk!Offset(i) + Bytes(i) <= Bulk!Offset(j)
<1>1. PICK M \in Nat \ {0} : M = MAX_BULK_BUFFER_LENGTH
  BY DEF TransfersAssumption
<1>2. Bytes(i) \in Nat /\ Bytes(i) <= M /\ Bulk!Offset(i) \in Nat
  <2>1. Bulk!buffer_length(i) \in 0..M /\ Bytes(i) \in Nat /\ Bytes(i) <= Bulk!buffer_length(i) /\ Bulk!Offset(i) \in Nat
    BY <1>1, Parts
  <2> QED BY <1>1, <2>1
<1>3. Bulk!Offset(i) + M <= Bulk!Offset(j) /\ Bulk!Offset(j) \in Nat
  <2>1. i \in Nat \ {0} /\ j \in Nat \ {0}
    OBVIOUS
  <2> QED BY <1>1, <2>1, Offsets
<1> QED BY <1>1, <1>2, <1>3

\* What arrives is put at its place, and no other URB has it.
LEMMA Arrives ==
    ASSUME TransfersAssumption, Sized, NEW a \in 0..Len(urbs), NEW b \in 0..Len(urbs),
           NEW c \in 0..Len(urbs), NEW g \in Places, Here(a, b, c, g),
           NEW d \in 0..Len(urbs), b <= d, NEW n \in Nat,
           b = d => n = 0, b < d => n <= Bulk!buffer_length(b + 1),
           Len(urbs') = Len(urbs), sent' = sent + n,
           buffer' = [k \in DOMAIN buffer |-> IF k - Bulk!Offset(b + 1) \in 1..n
                                              THEN sent + k - Bulk!Offset(b + 1) ELSE buffer[k]],
           \A i \in 1..Len(urbs) : IF i \in (b + 1)..d
                                   THEN urbs'[i].actual_length = IF i = b + 1 THEN n ELSE 0
                                   ELSE urbs'[i] = urbs[i],
           UNCHANGED <<transferred, length, reap_action, reap_status>>
    PROVE  Sized' /\ \E h \in Places : h \in Places' /\ Placed(a, d, h)' /\ Gathered(a, h)'
<1> DEFINE L == Len(urbs)
           o == Bulk!Offset(b + 1)
<1>1. L \in Nat /\ a \in Nat /\ b \in Nat /\ d \in Nat /\ a <= b /\ b <= d /\ d <= L
  BY DEF Here, Progress, Phases
<1>21. g \in [1..(L + 1) -> Nat] /\ Placed(a, b, g) /\ Gathered(a, g)
  BY DEF Here, Places
<1>2. /\ length \in Nat /\ sent \in Nat /\ transferred \in Nat /\ buffer \in [1..length -> Nat]
      /\ length' = length /\ transferred' = transferred /\ sent' = sent + n
  BY DEF Sized
<1>3. o \in Nat
  <2>1. b + 1 \in Nat \ {0}
    BY <1>1
  <2> QED BY <2>1, Offsets
<1> HIDE DEF L, o
<1>4. /\ buffer' \in [1..length -> Nat]
      /\ \A k \in 1..length : buffer'[k] = IF k - o \in 1..n THEN sent + k - o ELSE buffer[k]
  <2>1. DOMAIN buffer = 1..length
    BY <1>2
  <2>2. buffer' = [k \in 1..length |-> IF k - o \in 1..n THEN sent + k - o ELSE buffer[k]]
    BY <2>1 DEF o
  <2>3. ASSUME NEW k \in 1..length PROVE (IF k - o \in 1..n THEN sent + k - o ELSE buffer[k]) \in Nat
    <3>1. buffer[k] \in Nat
      BY <1>2
    <3>2. k - o \in 1..n => sent + k - o \in Nat
      BY <1>2, <1>3
    <3> QED BY <3>1, <3>2
  <2> QED BY <2>2, <2>3
<1>5. \A i \in 1..L : IF i \in (b + 1)..d
                      THEN urbs'[i].actual_length = IF i = b + 1 THEN n ELSE 0
                      ELSE urbs'[i] = urbs[i]
  BY DEF L
<1>6. /\ \A i \in 1..L : Bulk!buffer_length(i)' = Bulk!buffer_length(i)
      /\ \A i : Bulk!Offset(i)' = Bulk!Offset(i)
  BY <1>2 DEF L, Bulk!buffer_length, Bulk!num_urbs, Bulk!Offset
<1>7. \A i \in 1..L : /\ Bulk!buffer_length(i) \in Nat /\ Bytes(i) \in Nat /\ Bulk!Offset(i) \in Nat
                      /\ Bytes(i) <= Bulk!buffer_length(i)
                      /\ Bulk!Offset(i) + Bulk!buffer_length(i) <= length
  BY <1>1, Parts DEF L
<1>8. \A i, j \in 1..L : i < j => Bulk!Offset(i) + Bytes(i) <= Bulk!Offset(j)
  BY <1>1, PartsApart DEF L
<1>9. n # 0 => b + 1 \in 1..L /\ n <= Bulk!buffer_length(b + 1) /\ o + n <= length
  <2> SUFFICES ASSUME n # 0 PROVE b + 1 \in 1..L /\ n <= Bulk!buffer_length(b + 1) /\ o + n <= length
    OBVIOUS
  <2>1. b + 1 \in 1..L /\ b < d
    BY <1>1
  <2>2. n <= Bulk!buffer_length(b + 1)
    BY <2>1
  <2> QED BY <1>2, <1>3, <1>7, <2>1, <2>2 DEF o
<1>10. Sized'
  <2>1. ASSUME NEW i \in 1..L PROVE urbs'[i].actual_length \in 0..Bulk!buffer_length(i)
    <3>1. CASE i \notin (b + 1)..d
      BY <1>5, <1>7, <3>1 DEF Bytes
    <3>4. Bulk!buffer_length(i) \in Nat
      BY <1>7
    <3>2. CASE i \in (b + 1)..d /\ i = b + 1
      <4>1. urbs'[i].actual_length = n
        BY <1>5, <3>2
      <4>2. n # 0 => n <= Bulk!buffer_length(i)
        BY <1>9, <3>2
      <4> QED BY <3>4, <4>1, <4>2
    <3>3. CASE i \in (b + 1)..d /\ i # b + 1
      <4>1. urbs'[i].actual_length = 0
        BY <1>5, <3>3
      <4> QED BY <3>4, <4>1
    <3> QED BY <3>1, <3>2, <3>3
  <2>2. L # 0 => Bulk!Offset(L)' <= length /\ length <= Bulk!Offset(L)' + MAX_BULK_BUFFER_LENGTH
    BY <1>6 DEF L, Sized
  <2>3. Len(urbs') = L /\ L = Len(urbs)
    BY DEF L
  <2>4. length' \in Nat /\ sent' \in Nat /\ transferred' \in Nat /\ buffer' \in [1..length' -> Nat]
    BY <1>2, <1>4
  <2>5. Len(urbs') # 0 => Bulk!Offset(Len(urbs))' <= length' /\ length' <= Bulk!Offset(Len(urbs))' + MAX_BULK_BUFFER_LENGTH
    BY <1>2, <2>2, Zenon DEF L
  <2>6. \A i \in 1..Len(urbs') : Bytes(i)' \in 0..Bulk!buffer_length(i)'
    BY <1>6, <2>1, <2>3 DEF Bytes
  <2> QED BY <2>4, <2>5, <2>6 DEF Sized
<1>11. PICK h \in [1..(L + 1) -> Nat] : \A j \in 1..(L + 1) : h[j] = IF j <= b + 1 THEN g[j] ELSE sent + n
  <2>1. [j \in 1..(L + 1) |-> IF j <= b + 1 THEN g[j] ELSE sent + n] \in [1..(L + 1) -> Nat]
    BY <1>1, <1>2, <1>21
  <2> QED BY <2>1
<1>12. g[b + 1] = sent /\ \A i \in (a + 1)..b : /\ g[i + 1] = g[i] + Bytes(i)
                                               /\ \A k \in 1..Bytes(i) : buffer[Bulk!Offset(i) + k] = g[i] + k
  BY <1>21 DEF Placed
<1>13. h[d + 1] = sent'
  <2>1. d + 1 \in 1..(L + 1) /\ (d = b \/ ~(d + 1 <= b + 1))
    BY <1>1
  <2>2. CASE d = b
    <3>1. n = 0 /\ b + 1 <= b + 1 /\ b + 1 \in 1..(L + 1)
      BY <1>1, <2>1, <2>2
    <3>2. h[b + 1] = g[b + 1]
      BY <1>11, <3>1
    <3> QED BY <1>2, <1>12, <2>2, <3>1, <3>2
  <2>3. CASE ~(d + 1 <= b + 1)
    BY <1>2, <1>11, <2>1, <2>3
  <2> QED BY <2>1, <2>2, <2>3
<1>14. ASSUME NEW i \in (a + 1)..d
       PROVE  /\ h[i + 1] = h[i] + urbs'[i].actual_length
              /\ \A k \in 1..urbs'[i].actual_length : buffer'[Bulk!Offset(i) + k] = h[i] + k
  <2>1. i \in 1..L /\ i \in 1..(L + 1) /\ i + 1 \in 1..(L + 1) /\ i \in Nat
    BY <1>1
  <2>2. CASE i <= b
    <3>1. urbs'[i] = urbs[i] /\ h[i + 1] = g[i + 1] /\ h[i] = g[i] /\ i \in (a + 1)..b
      BY <1>1, <1>5, <1>11, <2>1, <2>2, SMTT(30)
    <3>2. ASSUME NEW k \in 1..Bytes(i) PROVE buffer'[Bulk!Offset(i) + k] = buffer[Bulk!Offset(i) + k]
      <4>1. Bulk!Offset(i) + k \in 1..length
        <5>1. /\ Bytes(i) \in Nat /\ Bulk!Offset(i) \in Nat /\ Bulk!buffer_length(i) \in Nat
              /\ Bytes(i) <= Bulk!buffer_length(i) /\ Bulk!Offset(i) + Bulk!buffer_length(i) <= length
          BY <1>7, <2>1
        <5>2. PICK x \in Nat, y \in Nat, z \in Nat : x = Bulk!Offset(i) /\ y = Bytes(i) /\ z = length /\ x + y <= z
          BY <1>2, <5>1
        <5>3. k \in 1..y
          BY <5>2, Zenon
        <5>4. x \in Nat /\ y \in Nat /\ z \in Nat /\ x + y <= z
          BY <5>2
        <5>5. x + k \in 1..z
          BY <5>3, <5>4
        <5> QED BY <5>2, <5>5
      <4>2. n # 0 => Bulk!Offset(i) + k <= o
        <5> SUFFICES ASSUME n # 0 PROVE Bulk!Offset(i) + k <= o
          OBVIOUS
        <5>1. b + 1 \in 1..L /\ i < b + 1
          BY <1>1, <1>9, <2>1, <2>2
        <5>2. Bulk!Offset(i) + Bytes(i) <= o
          BY <1>8, <2>1, <5>1 DEF o
        <5>3. Bytes(i) \in Nat /\ Bulk!Offset(i) \in Nat
          BY <1>7, <2>1
        <5> QED BY <1>3, <5>2, <5>3, SMTT(30)
      <4>3. PICK p \in 1..length : p = Bulk!Offset(i) + k
        BY <4>1
      <4>4. p - o \notin 1..n
        BY <1>3, <4>2, <4>3, SMTT(30)
      <4> QED BY <1>4, <4>3, <4>4
    <3> QED BY <1>12, <3>1, <3>2 DEF Bytes
  <2>3. CASE i = b + 1
    <3>3. i \in (b + 1)..d /\ i <= b + 1 /\ ~(i + 1 <= b + 1)
      BY <1>1, <2>1, <2>3
    <3>4. urbs'[i].actual_length = n
      BY <1>5, <2>1, <2>3, <3>3
    <3>5. h[i] = g[i] /\ h[i + 1] = sent + n
      BY <1>11, <2>1, <3>3
    <3>1. urbs'[i].actual_length = n /\ h[i] = sent /\ h[i + 1] = sent + n
      BY <1>12, <2>3, <3>4, <3>5
    <3>2. ASSUME NEW k \in 1..n PROVE buffer'[o + k] = sent + k
      <4>1. PICK p \in 1..length : p = o + k
        BY <1>2, <1>3, <1>9
      <4>2. p - o = k /\ sent + p - o = sent + k
        BY <1>2, <1>3, <4>1
      <4>3. buffer'[p] = sent + p - o
        BY <1>4, <4>2
      <4> QED BY <4>1, <4>2, <4>3
    <3> QED BY <2>3, <3>1, <3>2 DEF o
  <2>4. CASE i > b + 1
    <3>3. i \in (b + 1)..d /\ ~(i <= b + 1) /\ ~(i + 1 <= b + 1) /\ i # b + 1
      BY <1>1, <2>1, <2>4
    <3>1. urbs'[i].actual_length = 0
      BY <1>5, <2>1, <3>3
    <3>2. h[i] = sent + n /\ h[i + 1] = sent + n
      BY <1>11, <2>1, <3>3
    <3> QED BY <1>2, <3>1, <3>2
  <2>5. i <= b \/ i = b + 1 \/ i > b + 1
    BY <1>1, <2>1
  <2> QED BY <2>2, <2>3, <2>4, <2>5
<1>15. Placed(a, d, h)'
  BY <1>6, <1>13, <1>14 DEF Placed, Bytes
<1>16. h[a + 1] = g[a + 1]
  <2>1. a + 1 \in 1..(L + 1) /\ a + 1 <= b + 1
    BY <1>1
  <2> QED BY <1>11, <2>1
<1>17. /\ transferred <= length /\ (a < L => transferred <= Bulk!Offset(a + 1))
       /\ \A k \in 1..transferred : /\ 1 <= buffer[k] /\ buffer[k] <= g[a + 1]
                                    /\ k > 1 => buffer[k - 1] < buffer[k]
       /\ (\A i \in 1..a : ~Bulk!Failed(i)) => transferred = g[a + 1]
       /\ Normal /\ a < L => transferred = Bulk!Offset(a + 1)
  BY <1>21 DEF Gathered, L
<1>18. ASSUME NEW k \in 1..transferred PROVE k \in 1..length /\ buffer'[k] = buffer[k]
  <2>1. k \in 1..length
    BY <1>2, <1>17
  <2>2. n # 0 => transferred <= o
    <3> SUFFICES ASSUME n # 0 PROVE transferred <= o
      OBVIOUS
    <3>5. b + 1 \in 1..L
      BY <1>9
    <3>1. a < L /\ a + 1 \in Nat \ {0} /\ b + 1 \in Nat \ {0} /\ (a = b \/ a + 1 < b + 1)
      BY <1>1, <3>5, SMTT(30)
    <3>2. a = b \/ Bulk!Offset(a + 1) + MAX_BULK_BUFFER_LENGTH <= o
      BY <3>1, Offsets DEF o
    <3>3. Bulk!Offset(a + 1) \in Nat /\ MAX_BULK_BUFFER_LENGTH \in Nat
      BY <3>1, Offsets
    <3>4. Bulk!Offset(a + 1) <= o
      BY <1>3, <3>2, <3>3, SMTT(30) DEF o
    <3> QED BY <1>2, <1>3, <1>17, <3>1, <3>3, <3>4
  <2>3. k - o \notin 1..n
    BY <1>2, <1>3, <2>2
  <2> QED BY <1>4, <2>1, <2>3
<1>19. Gathered(a, h)'
  <2>1. \A k \in 1..transferred : /\ 1 <= buffer'[k] /\ buffer'[k] <= h[a + 1]
                                  /\ k > 1 => buffer'[k - 1] < buffer'[k]
    <3> SUFFICES ASSUME NEW k \in 1..transferred
                 PROVE  /\ 1 <= buffer'[k] /\ buffer'[k] <= h[a + 1]
                        /\ k > 1 => buffer'[k - 1] < buffer'[k]
      OBVIOUS
    <3>1. k > 1 => k - 1 \in 1..transferred
      BY <1>2
    <3> QED BY <1>16, <1>17, <1>18, <3>1
  <2>2. ASSUME NEW i \in 1..a PROVE Bulk!Failed(i)' <=> Bulk!Failed(i)
    <3>1. i \in 1..L /\ i \notin (b + 1)..d
      BY <1>1
    <3> QED BY <1>5, <3>1 DEF Bulk!Failed
  <2>3. /\ transferred' <= length' /\ (a < Len(urbs') => transferred' <= Bulk!Offset(a + 1)')
        /\ (\A i \in 1..a : ~Bulk!Failed(i)') => transferred' = h[a + 1]
    BY <1>2, <1>6, <1>16, <1>17, <2>2 DEF L
  <2>4. Normal' /\ a < Len(urbs') => transferred' = Bulk!Offset(a + 1)'
    BY <1>2, <1>6, <1>17 DEF L, Normal
  <2> QED BY <1>2, <2>1, <2>3, <2>4 DEF Gathered, Bulk!Offset
<1>20. h \in Places /\ h \in Places'
  BY DEF Places, L
<1> QED BY <1>10, <1>15, <1>19, <1>20

\* The kernel hands back the URBs from b + 1 to d, the first with n more bytes.
HandsBack(b, d, n) ==
    /\ b = d => n = 0
    /\ b < d => n <= Bulk!buffer_length(b + 1)
    /\ Len(urbs') = Len(urbs) /\ urbs' = [i \in 1..Len(urbs) |-> urbs'[i]] /\ sent' = sent + n
    /\ buffer' = [k \in DOMAIN buffer |-> IF k - Bulk!Offset(b + 1) \in 1..n
                                          THEN sent + k - Bulk!Offset(b + 1) ELSE buffer[k]]
    /\ \A i \in 1..Len(urbs) : IF i \in (b + 1)..d
                               THEN /\ urbs'[i].st = "done"
                                    /\ urbs'[i].actual_length = IF i = b + 1 THEN n ELSE 0
                               ELSE urbs'[i] = urbs[i]
    /\ Still => Still' /\ n = 0
    /\ \A i \in (b + 1)..d :
         /\ urbs'[i].status \in {"EPIPE", "EOTHER"} => Still'
         /\ urbs'[i].status = "EREMOTEIO" => urbs'[i].actual_length # Bulk!buffer_length(i)
         /\ Normal /\ urbs'[i].status = "ENOENT" =>
              i # b + 1 /\ urbs'[b + 1].status \notin {"OK", "ENOENT"}
    /\ Normal' => lock' # "discard"
    /\ UNCHANGED <<transferred, length, reap_action, reap_status, result, pending, reporting, polled>>

\* What the kernel hands back leaves the array in order.
LEMMA KernelKeepsSurplus ==
    ASSUME TransfersAssumption, BulkInv, Sized, AllCounted, NEW a \in 0..Len(urbs),
           NEW b \in 0..Len(urbs), NEW c \in 0..Len(urbs), NEW g \in Places, Here(a, b, c, g),
           NEW d \in 0..Len(urbs), b <= d, d <= c, NEW n \in Nat, HandsBack(b, d, n)
    PROVE  SurplusInv'
<1>21. /\ b = d => n = 0
       /\ b < d => n <= Bulk!buffer_length(b + 1)
       /\ Len(urbs') = Len(urbs) /\ urbs' = [i \in 1..Len(urbs) |-> urbs'[i]] /\ sent' = sent + n
       /\ buffer' = [k \in DOMAIN buffer |-> IF k - Bulk!Offset(b + 1) \in 1..n
                                             THEN sent + k - Bulk!Offset(b + 1) ELSE buffer[k]]
       /\ Still => Still' /\ n = 0
       /\ Normal' => lock' # "discard"
       /\ UNCHANGED <<transferred, length, reap_action, reap_status, result, pending, reporting, polled>>
  BY Zenon DEF HandsBack
<1> DEFINE L == Len(urbs)
<1>1. L \in Nat /\ a \in Nat /\ b \in Nat /\ c \in Nat /\ d \in Nat /\ a <= b /\ b <= d /\ d <= c /\ c <= L
  BY DEF Here, Progress, Phases
<1>2. \A i \in 1..L : urbs[i].st = Phase(i, a, b, c)
  BY DEF Here, Progress, Phases
<1>3. \A i \in 1..L : IF i \in (b + 1)..d
                      THEN /\ urbs'[i].st = "done"
                           /\ urbs'[i].actual_length = IF i = b + 1 THEN n ELSE 0
                      ELSE urbs'[i] = urbs[i]
  BY Zenon DEF HandsBack
<1>4. Phases(a, d, c)'
  <2>1. ASSUME NEW i \in 1..L PROVE urbs'[i].st = Phase(i, a, d, c)
    <3>1. urbs'[i].st = IF i \in (b + 1)..d THEN "done" ELSE urbs[i].st
      BY <1>3
    <3> QED BY <1>1, <1>2, <3>1 DEF Phase
  <2> QED BY <1>1, <1>21, <2>1 DEF Phases
<1>5. Sized' /\ \E h \in Places : h \in Places' /\ Placed(a, d, h)' /\ Gathered(a, h)'
  <2>1. \A i \in 1..Len(urbs) : IF i \in (b + 1)..d
                                THEN urbs'[i].actual_length = IF i = b + 1 THEN n ELSE 0
                                ELSE urbs'[i] = urbs[i]
    BY <1>3
  <2> QED BY <1>21, <2>1, Arrives
<1>6. PICK h \in Places : h \in Places' /\ Placed(a, d, h)' /\ Gathered(a, h)'
  BY <1>5
<1>7. /\ reap_action = "NORMAL" /\ reap_status # "COMPLETED" =>
           /\ \E i \in 1..a : Bulk!Failed(i)
           /\ a < L => Still /\ \A i \in (a + 1)..b : Bytes(i) = 0
      /\ \A i \in (a + 1)..b :
           /\ Status(i) \in {"EPIPE", "EOTHER"} => Still /\ \A j \in (i + 1)..b : Bytes(j) = 0
           /\ Status(i) = "EREMOTEIO" => Bytes(i) # Bulk!buffer_length(i)
           /\ Normal /\ Status(i) = "ENOENT" =>
                \E j \in (a + 1)..(i - 1) : Status(j) \notin {"OK", "ENOENT"}
  BY DEF Here, Silent
<1>8. \A i \in (b + 1)..d :
        /\ urbs'[i].status \in {"EPIPE", "EOTHER"} => Still'
        /\ urbs'[i].status = "EREMOTEIO" => urbs'[i].actual_length # Bulk!buffer_length(i)
        /\ Normal /\ urbs'[i].status = "ENOENT" =>
             i # b + 1 /\ urbs'[b + 1].status \notin {"OK", "ENOENT"}
  BY Zenon DEF HandsBack
<1>9. \A i \in 1..L : Bulk!buffer_length(i)' = Bulk!buffer_length(i)
  BY <1>21 DEF Bulk!buffer_length, Bulk!num_urbs, Bulk!Offset
<1> HIDE DEF L
<1>10. ASSUME NEW i \in 1..b PROVE urbs'[i] = urbs[i] /\ i \in 1..L
  <2>1. i \in 1..L /\ i \notin (b + 1)..d
    BY <1>1
  <2> QED BY <1>3, <2>1
<1>11. ASSUME NEW i \in (b + 1)..d, Still \/ i # b + 1 PROVE urbs'[i].actual_length = 0
  <2>1. i \in 1..L
    BY <1>1
  <2> QED BY <1>3, <1>11, <1>21, <2>1
<1>12. ASSUME NEW i \in (a + 1)..d PROVE i \in 1..L /\ (i \in (a + 1)..b \/ i \in (b + 1)..d) /\ i \in Nat
  BY <1>1
<1>13. \A i \in (a + 1)..b : i \in 1..b
  BY <1>1
<1>14. reap_action = "NORMAL" /\ reap_status # "COMPLETED" =>
           /\ \E i \in 1..a : Bulk!Failed(i)'
           /\ a < L => Still' /\ \A i \in (a + 1)..d : urbs'[i].actual_length = 0
  <2> SUFFICES ASSUME reap_action = "NORMAL", reap_status # "COMPLETED"
               PROVE  /\ \E i \in 1..a : Bulk!Failed(i)'
                      /\ a < L => Still' /\ \A i \in (a + 1)..d : urbs'[i].actual_length = 0
    OBVIOUS
  <2>1. PICK i \in 1..a : Bulk!Failed(i)
    BY <1>7
  <2>2. i \in 1..b
    BY <1>1
  <2>3. Bulk!Failed(i)'
    BY <1>10, <2>1, <2>2 DEF Bulk!Failed
  <2>4. ASSUME a < L PROVE Still' /\ \A j \in (a + 1)..d : urbs'[j].actual_length = 0
    <3>1. Still /\ \A j \in (a + 1)..b : Bytes(j) = 0
      BY <1>7, <2>4
    <3>2. ASSUME NEW j \in (a + 1)..d PROVE urbs'[j].actual_length = 0
      <4>1. CASE j \in (a + 1)..b
        BY <1>10, <1>13, <3>1, <4>1 DEF Bytes
      <4>2. CASE j \in (b + 1)..d
        BY <1>11, <3>1, <4>2
      <4> QED BY <1>12, <4>1, <4>2
    <3> QED BY <1>21, <3>1, <3>2
  <2> QED BY <2>3, <2>4
<1>15. ASSUME NEW i \in (a + 1)..d, urbs'[i].status \in {"EPIPE", "EOTHER"}
       PROVE  Still' /\ \A j \in (i + 1)..d : urbs'[j].actual_length = 0
  <2>1. \A j \in (i + 1)..d : j \in (a + 1)..d /\ (j \in (i + 1)..b \/ (j \in (b + 1)..d /\ (i \in (b + 1)..d => j # b + 1)))
    BY <1>1, <1>12
  <2>2. CASE i \in (a + 1)..b
    <3>1. Still /\ \A j \in (i + 1)..b : Bytes(j) = 0
      BY <1>7, <1>10, <1>13, <1>15, <2>2 DEF Status
    <3>2. ASSUME NEW j \in (i + 1)..d PROVE urbs'[j].actual_length = 0
      <4>1. CASE j \in (i + 1)..b
        <5>1. j \in 1..b
          BY <1>1, <2>2, <4>1
        <5> QED BY <1>10, <3>1, <4>1, <5>1 DEF Bytes
      <4>2. CASE j \in (b + 1)..d
        BY <1>11, <3>1, <4>2
      <4> QED BY <2>1, <4>1, <4>2
    <3> QED BY <1>21, <3>1, <3>2
  <2>3. CASE i \in (b + 1)..d
    <3>1. Still'
      BY <1>8, <1>15, <2>3
    <3>2. ASSUME NEW j \in (i + 1)..d PROVE urbs'[j].actual_length = 0
      <4>1. j \in (b + 1)..d /\ j # b + 1
        BY <1>1, <2>3
      <4> QED BY <1>11, <4>1
    <3> QED BY <3>1, <3>2
  <2> QED BY <1>12, <2>2, <2>3
<1>16. ASSUME NEW i \in (a + 1)..d, urbs'[i].status = "EREMOTEIO"
       PROVE  urbs'[i].actual_length # Bulk!buffer_length(i)
  <2>1. CASE i \in (a + 1)..b
    BY <1>7, <1>10, <1>13, <1>16, <2>1 DEF Status, Bytes
  <2>2. CASE i \in (b + 1)..d
    BY <1>8, <1>16, <2>2
  <2> QED BY <1>12, <2>1, <2>2
<1>17. ASSUME NEW i \in (a + 1)..d, Normal, urbs'[i].status = "ENOENT"
       PROVE  \E j \in (a + 1)..(i - 1) : urbs'[j].status \notin {"OK", "ENOENT"}
  <2>1. CASE i \in (a + 1)..b
    <3>1. PICK j \in (a + 1)..(i - 1) : Status(j) \notin {"OK", "ENOENT"}
      BY <1>7, <1>10, <1>13, <1>17, <2>1 DEF Status
    <3>2. j \in 1..b
      BY <1>1, <2>1
    <3> QED BY <1>10, <3>1, <3>2 DEF Status
  <2>2. CASE i \in (b + 1)..d
    <3>1. i # b + 1 /\ urbs'[b + 1].status \notin {"OK", "ENOENT"}
      BY <1>8, <1>17, <2>2
    <3>2. b + 1 \in (a + 1)..(i - 1)
      BY <1>1, <2>2, <3>1
    <3> QED BY <3>1, <3>2
  <2> QED BY <1>12, <2>1, <2>2
<1>18. Silent(a, d)'
  <2>1. (reap_action = "NORMAL" /\ reap_status # "COMPLETED" =>
           /\ \E i \in 1..a : Bulk!Failed(i)
           /\ a < Len(urbs) => Still /\ \A i \in (a + 1)..d : Bytes(i) = 0)'
    BY <1>14, <1>21 DEF Bytes, L
  <2>2. \A i \in (a + 1)..d : Bulk!buffer_length(i)' = Bulk!buffer_length(i)
    BY <1>9, <1>12
  <2>3. \A i \in (a + 1)..d :
         /\ Status(i)' \in {"EPIPE", "EOTHER"} => Still' /\ \A j \in (i + 1)..d : Bytes(j)' = 0
         /\ Status(i)' = "EREMOTEIO" => Bytes(i)' # Bulk!buffer_length(i)'
    BY <1>15, <1>16, <2>2 DEF Bytes, Status
  <2>4. \A i \in (a + 1)..d :
         Normal' /\ Status(i)' = "ENOENT" =>
              \E j \in (a + 1)..(i - 1) : Status(j)' \notin {"OK", "ENOENT"}
    <3>1. Normal' => Normal
      BY <1>21 DEF Normal
    <3> QED BY <1>17, <3>1 DEF Status
  <2> QED BY <1>21, <2>1, <2>3, <2>4 DEF Silent
<1>19. AllCounted'
  <2> SUFFICES ASSUME result' \in {"COMPLETED", "CANCELLED"}
               PROVE  \/ \E i \in 1..Len(urbs') : Bulk!Failed(i)'
                      \/ transferred' = sent'
    BY <1>21 DEF AllCounted
  <2>1. ~pending /\ ((\E i \in 1..L : Bulk!Failed(i)) \/ transferred = sent)
    BY <1>21 DEF AllCounted, L
  <2>2. b = c
    BY <2>1 DEF BulkInv, Here, Progress, Counted
  <2>3. b = d
    BY <1>1, <2>2
  <2>4. n = 0 /\ sent' = sent
    BY <1>21, <2>3 DEF Sized
  <2>5. \A i \in 1..L : urbs'[i] = urbs[i]
    BY <1>1, <1>3, <2>3
  <2> QED BY <1>21, <2>1, <2>4, <2>5 DEF L, Bulk!Failed
<1>20. a \in 0..Len(urbs') /\ d \in 0..Len(urbs') /\ c \in 0..Len(urbs')
  BY <1>21 DEF L
<1> QED BY <1>4, <1>5, <1>6, <1>18, <1>19, <1>20 DEF SurplusInv

LEMMA AnsweredSurplus ==
    ASSUME TransfersAssumption, BulkInv, SurplusInv, NEW status_ \in Bulk!KernelStatuses, NEW n \in Nat,
           Bulk!DeviceAnswers(status_, n)
    PROVE  SurplusInv'
<1>1. PICK a, b, c \in 0..Len(urbs) : \E g \in Places : Here(a, b, c, g)
  BY SurplusIs
<1>2. PICK g \in Places : Here(a, b, c, g)
  BY <1>1
<1>3. /\ Len(urbs) \in Nat /\ a \in Nat /\ b \in Nat /\ c \in Nat /\ Phases(a, b, c)
      /\ a <= b /\ b <= c /\ c <= Len(urbs)
  BY <1>2 DEF Here, Progress, Phases
<1>4. Bulk!Queued = (b + 1)..c
  BY <1>3, QueuedIs
<1>5. b # c /\ (CHOOSE j \in Bulk!Queued : Bulk!Oldest(j)) = b + 1
  <2>1. (b + 1)..c # {}
    BY <1>4 DEF Bulk!DeviceAnswers
  <2>2. b # c
    BY <1>3, <2>1
  <2> QED BY <1>3, <2>2, QueuedIs
<1> DEFINE all == supports_flag_bulk_continuation /\ status_ # "OK"
           rest == IF all THEN ((b + 1)..c) \ {b + 1} ELSE {}
<1>6. PICK d \in 0..Len(urbs) : /\ b + 1 <= d /\ d <= c /\ rest = (b + 2)..d /\ (~all => d = b + 1)
  <2>1. b + 1 <= c
    BY <1>3, <1>5
  <2>2. CASE all
    BY <1>3, <2>1, <2>2, SMTT(30)
  <2>3. CASE ~all
    <3>1. b + 1 \in 0..Len(urbs) /\ (b + 2)..(b + 1) = {}
      BY <1>3, <2>1
    <3> QED BY <2>1, <2>3, <3>1
  <2> QED BY <2>2, <2>3
<1>7. /\ Bulk!Possible(b + 1, status_, n) /\ n \in 0..Bulk!buffer_length(b + 1)
      /\ urbs' = [j \in 1..Len(urbs) |->
                    IF j = b + 1 THEN Bulk!URB("done", status_, n)
                    ELSE IF j \in rest THEN Bulk!URB("done", "ENOENT", 0)
                    ELSE urbs[j]]
      /\ Bulk!Completes(b + 1, n)
  BY <1>4, <1>5, Zenon DEF Bulk!DeviceAnswers, Bulk!num_urbs
<1>19. /\ sent' = sent + n
       /\ buffer' = [k \in DOMAIN buffer |-> IF k - Bulk!Offset(b + 1) \in 1..n
                                             THEN sent + k - Bulk!Offset(b + 1) ELSE buffer[k]]
  BY <1>7, Zenon DEF Bulk!Completes
<1>8. /\ attached /\ endpoint = "ok" /\ lock' = lock
      /\ UNCHANGED <<transferred, length, reap_action, reap_status, result, pending, reporting, polled>>
      /\ endpoint' = IF status_ = "OK" THEN "ok"
                     ELSE IF supports_flag_bulk_continuation THEN "disabled"
                     ELSE IF status_ \in {"EPIPE", "EOTHER"} THEN "halted" ELSE "ok"
  BY DEF Bulk!DeviceAnswers, Bulk!tpriv, Bulk!user, Bulk!static
<1> HIDE DEF rest
<1>9. urbs' = [j \in 1..Len(urbs) |-> urbs'[j]] /\ Len(urbs') = Len(urbs)
  <2>1. urbs' = [j \in 1..Len(urbs) |-> urbs'[j]]
    BY <1>7, Zenon
  <2> QED BY <1>3, <2>1, LenIs
<1>10. \A i \in 1..Len(urbs) :
         urbs'[i] = IF i = b + 1 THEN [st |-> "done", status |-> status_, actual_length |-> n]
                    ELSE IF i \in rest THEN [st |-> "done", status |-> "ENOENT", actual_length |-> 0]
                    ELSE urbs[i]
  BY <1>7 DEF Bulk!URB
<1>11. \A i \in 1..Len(urbs) : /\ i \in (b + 1)..d <=> i = b + 1 \/ i \in rest
                               /\ i \in rest => i # b + 1
  BY <1>3, <1>6
<1>12. \A i \in 1..Len(urbs) : IF i \in (b + 1)..d
                               THEN /\ urbs'[i].st = "done"
                                    /\ urbs'[i].actual_length = IF i = b + 1 THEN n ELSE 0
                               ELSE urbs'[i] = urbs[i]
  BY <1>10, <1>11
<1>13. ~Still
  BY <1>8 DEF Still
<1>14. b + 1 \in 1..Len(urbs) /\ b + 1 \in (b + 1)..d
  BY <1>3, <1>6
<1>15. ASSUME NEW i \in (b + 1)..d
       PROVE  /\ urbs'[i].status \in {"EPIPE", "EOTHER"} => Still'
              /\ urbs'[i].status = "EREMOTEIO" => urbs'[i].actual_length # Bulk!buffer_length(i)
              /\ Normal /\ urbs'[i].status = "ENOENT" =>
                   i # b + 1 /\ urbs'[b + 1].status \notin {"OK", "ENOENT"}
  <2>1. i \in 1..Len(urbs)
    BY <1>3, <1>6
  <2>2. CASE i = b + 1
    <3>1. urbs'[i].status = status_ /\ urbs'[i].actual_length = n
      BY <1>10, <2>1, <2>2
    <3>2. status_ \in {"EPIPE", "EOTHER"} => Still'
      BY <1>8 DEF Still
    <3>3. status_ = "EREMOTEIO" => n # Bulk!buffer_length(i)
      BY <1>7, <2>2 DEF Bulk!Possible
    <3>4. status_ # "ENOENT"
      BY DEF Bulk!KernelStatuses
    <3> QED BY <3>1, <3>2, <3>3, <3>4
  <2>3. CASE i # b + 1
    <3>1. i \in rest
      BY <1>11, <2>1, <2>3
    <3>2. urbs'[i].status = "ENOENT"
      BY <1>10, <2>1, <2>3, <3>1
    <3>3. urbs'[b + 1].status = status_
      BY <1>10, <1>14
    <3>4. status_ # "OK" /\ status_ # "ENOENT"
      BY <3>1 DEF rest, Bulk!KernelStatuses
    <3> QED BY <2>3, <3>2, <3>3, <3>4
  <2> QED BY <2>2, <2>3
<1>16. Normal' => lock' # "discard"
  BY <1>2, <1>8 DEF Normal, Here, Silent
<1>17. b <= d /\ (b = d => n = 0) /\ (b < d => n <= Bulk!buffer_length(b + 1))
  <2>1. b # d /\ b <= d
    BY <1>3, <1>6
  <2> QED BY <1>7, <2>1
<1>18. Sized /\ AllCounted
  BY DEF SurplusInv
<1>20. HandsBack(b, d, n)
  BY <1>8, <1>9, <1>12, <1>13, <1>15, <1>16, <1>17, <1>19 DEF HandsBack
<1> QED BY <1>2, <1>6, <1>17, <1>18, <1>20, KernelKeepsSurplus

LEMMA UnpluggedSurplus ==
    ASSUME TransfersAssumption, BulkInv, SurplusInv, Bulk!Unplug PROVE SurplusInv'
<1>1. PICK a, b, c \in 0..Len(urbs) : \E g \in Places : Here(a, b, c, g)
  BY SurplusIs
<1>2. PICK g \in Places : Here(a, b, c, g)
  BY <1>1
<1>3. /\ Len(urbs) \in Nat /\ a \in Nat /\ b \in Nat /\ c \in Nat /\ Phases(a, b, c)
      /\ a <= b /\ b <= c /\ c <= Len(urbs)
  BY <1>2 DEF Here, Progress, Phases
<1>4. Bulk!Queued = (b + 1)..c
  BY <1>3, QueuedIs
<1>5. urbs' = [i \in 1..Len(urbs) |-> IF i \in (b + 1)..c THEN Bulk!URB("done", "EOTHER", 0)
                                      ELSE urbs[i]]
  BY <1>4, Zenon DEF Bulk!Unplug, Bulk!num_urbs
<1>6. /\ attached' = FALSE /\ lock' = lock /\ buffer' = buffer /\ sent' = sent
      /\ UNCHANGED <<transferred, length, reap_action, reap_status, result, pending, reporting, polled>>
  BY DEF Bulk!Unplug, Bulk!tpriv, Bulk!user, Bulk!static
<1>7. urbs' = [j \in 1..Len(urbs) |-> urbs'[j]] /\ Len(urbs') = Len(urbs)
  <2>1. urbs' = [j \in 1..Len(urbs) |-> urbs'[j]]
    BY <1>5, Zenon
  <2> QED BY <1>3, <2>1, LenIs
<1>8. \A i \in 1..Len(urbs) :
         urbs'[i] = IF i \in (b + 1)..c THEN [st |-> "done", status |-> "EOTHER", actual_length |-> 0]
                    ELSE urbs[i]
  BY <1>5 DEF Bulk!URB
<1>9. Sized /\ AllCounted
  BY DEF SurplusInv
<1>10. PICK n \in Nat : n = 0
  OBVIOUS
<1>11. sent' = sent + n
  BY <1>6, <1>9, <1>10 DEF Sized
<1>12. buffer' = [k \in DOMAIN buffer |-> IF k - Bulk!Offset(b + 1) \in 1..n
                                          THEN sent + k - Bulk!Offset(b + 1) ELSE buffer[k]]
  <2>1. buffer = [k \in DOMAIN buffer |-> buffer[k]]
    BY <1>9 DEF Sized
  <2>2. 1..n = {}
    BY <1>10
  <2>3. [k \in DOMAIN buffer |-> IF k - Bulk!Offset(b + 1) \in 1..n
                                 THEN sent + k - Bulk!Offset(b + 1) ELSE buffer[k]]
        = [k \in DOMAIN buffer |-> buffer[k]]
    BY <2>2, Zenon
  <2> QED BY <1>6, <2>1, <2>3
<1>13. \A i \in 1..Len(urbs) : IF i \in (b + 1)..c
                               THEN /\ urbs'[i].st = "done"
                                    /\ urbs'[i].actual_length = IF i = b + 1 THEN n ELSE 0
                               ELSE urbs'[i] = urbs[i]
  BY <1>8, <1>10
<1>14. Still'
  BY <1>6 DEF Still
<1>15. ASSUME NEW i \in (b + 1)..c
       PROVE  /\ urbs'[i].status \in {"EPIPE", "EOTHER"} => Still'
              /\ urbs'[i].status = "EREMOTEIO" => urbs'[i].actual_length # Bulk!buffer_length(i)
              /\ Normal /\ urbs'[i].status = "ENOENT" =>
                   i # b + 1 /\ urbs'[b + 1].status \notin {"OK", "ENOENT"}
  <2>1. i \in 1..Len(urbs)
    BY <1>3
  <2>2. urbs'[i].status = "EOTHER"
    BY <1>8, <2>1
  <2> QED BY <1>14, <2>2
<1>16. Normal' => lock' # "discard"
  BY <1>2, <1>6 DEF Normal, Here, Silent
<1>17. (b = c => n = 0) /\ (b < c => n <= Bulk!buffer_length(b + 1))
  <2>1. b < c => Bulk!buffer_length(b + 1) \in Nat
    <3>1. b < c => b + 1 \in 1..Len(urbs)
      BY <1>3
    <3> QED BY <1>3, <1>9, <3>1, Parts
  <2> QED BY <1>10, <2>1
<1>18. c <= c
  BY <1>3
<1>19. HandsBack(b, c, n)
  BY <1>6, <1>7, <1>10, <1>11, <1>12, <1>13, <1>14, <1>15, <1>16, <1>17 DEF HandsBack
<1> QED BY <1>2, <1>3, <1>9, <1>18, <1>19, KernelKeepsSurplus

LEMMA DiscardedSurplus ==
    ASSUME TransfersAssumption, BulkInv, SurplusInv, NEW n \in Nat, Bulk!DiscardUrb(n)
    PROVE  SurplusInv'
<1>1. PICK a, b, c \in 0..Len(urbs) : \E g \in Places : Here(a, b, c, g)
  BY SurplusIs
<1>2. PICK g \in Places : Here(a, b, c, g)
  BY <1>1
<1>3. /\ Len(urbs) \in Nat /\ a \in Nat /\ b \in Nat /\ c \in Nat /\ Phases(a, b, c)
      /\ a <= b /\ b <= c /\ c <= Len(urbs) /\ urbs = [i \in 1..Len(urbs) |-> urbs[i]]
  BY <1>2 DEF Here, Progress, Phases
<1>4. Bulk!Queued = (b + 1)..c
  BY <1>3, QueuedIs
<1>5. Sized /\ AllCounted
  BY DEF SurplusInv
<1>6. lock = "discard" /\ ~Normal
  BY <1>2 DEF Bulk!DiscardUrb, Here, Silent
<1>7. /\ attached' = attached /\ endpoint' = endpoint
      /\ UNCHANGED <<transferred, length, reap_action, reap_status, result, pending, reporting, polled>>
  BY DEF Bulk!DiscardUrb, Bulk!tpriv, Bulk!user, Bulk!static
<1>8. (Still' <=> Still) /\ ~Normal'
  BY <1>6, <1>7 DEF Still, Normal
<1> DEFINE j == Head(todo)
<1>9. j \in (b + 1)..c => j = b + 1
  <2>1. PICK m \in 1..Len(urbs), z \in 1..Len(urbs) :
          m <= z /\ todo = Interval(m, z) /\ (b = c \/ m <= b + 1)
    BY <1>2, <1>6 DEF Here, Progress, Looping
  <2>2. m \in Nat /\ z \in Nat /\ m <= z
    BY <1>3, <2>1
  <2>3. j = m
    BY <2>1, <2>2, IntervalSplits
  <2> HIDE DEF j
  <2> QED BY <1>3, <2>1, <2>3
<1>10. CASE j \notin (b + 1)..c
  <2>1. n = 0 /\ sent' = sent /\ buffer' = buffer /\ urbs' = urbs
    BY <1>4, <1>10 DEF Bulk!DiscardUrb
  <2>2. sent' = sent + n
    BY <1>5, <2>1 DEF Sized
  <2>3. buffer' = [k \in DOMAIN buffer |-> IF k - Bulk!Offset(b + 1) \in 1..n
                                           THEN sent + k - Bulk!Offset(b + 1) ELSE buffer[k]]
    <3>1. buffer = [k \in DOMAIN buffer |-> buffer[k]]
      BY <1>5 DEF Sized
    <3>2. 1..n = {}
      BY <2>1
    <3>3. [k \in DOMAIN buffer |-> IF k - Bulk!Offset(b + 1) \in 1..n
                                   THEN sent + k - Bulk!Offset(b + 1) ELSE buffer[k]]
          = [k \in DOMAIN buffer |-> buffer[k]]
      BY <3>2, Zenon
    <3> QED BY <2>1, <3>1, <3>3
  <2>4. PICK d \in 0..Len(urbs) : d = b /\ (b + 1)..d = {} /\ b <= d /\ d <= c
    <3>1. (b + 1)..b = {} /\ b <= b
      BY <1>3
    <3> QED BY <1>3, <3>1
  <2>5. Len(urbs') = Len(urbs) /\ urbs' = [i \in 1..Len(urbs) |-> urbs'[i]]
        /\ \A i \in 1..Len(urbs) : urbs'[i] = urbs[i]
    BY <1>3, <2>1
  <2>6. \A i \in 1..Len(urbs) : IF i \in (b + 1)..d
                                THEN /\ urbs'[i].st = "done"
                                     /\ urbs'[i].actual_length = IF i = b + 1 THEN n ELSE 0
                                ELSE urbs'[i] = urbs[i]
    BY <2>4, <2>5
  <2>7. \A i \in (b + 1)..d :
             /\ urbs'[i].status \in {"EPIPE", "EOTHER"} => Still'
             /\ urbs'[i].status = "EREMOTEIO" => urbs'[i].actual_length # Bulk!buffer_length(i)
             /\ Normal /\ urbs'[i].status = "ENOENT" =>
                  i # b + 1 /\ urbs'[b + 1].status \notin {"OK", "ENOENT"}
    BY <2>4
  <2>8. (b = d => n = 0) /\ (b < d => n <= Bulk!buffer_length(b + 1)) /\ (Still => Still' /\ n = 0)
        /\ (Normal' => lock' # "discard")
    BY <1>3, <1>8, <2>1, <2>4
  <2> HIDE DEF j
  <2>9. HandsBack(b, d, n)
    BY <1>7, <2>2, <2>3, <2>5, <2>6, <2>7, <2>8 DEF HandsBack
  <2> QED BY <1>2, <1>5, <2>4, <2>9, KernelKeepsSurplus
<1>11. CASE j \in (b + 1)..c
  <2>1. /\ n = 0 \/ (endpoint = "ok" /\ attached /\ n \in 0..Bulk!buffer_length(b + 1))
        /\ sent' = sent + n
        /\ buffer' = [k \in DOMAIN buffer |-> IF k - Bulk!Offset(b + 1) \in 1..n
                                              THEN sent + k - Bulk!Offset(b + 1) ELSE buffer[k]]
        /\ urbs' = [urbs EXCEPT ![b + 1] = Bulk!URB("done", "ENOENT", n)]
    <3>1. j = b + 1
      BY <1>9, <1>11
    <3> QED BY <1>4, <1>11, <3>1, Zenon DEF Bulk!DiscardUrb, Bulk!Completes
  <2>2. b + 1 \in 1..Len(urbs) /\ b + 1 \in 0..Len(urbs) /\ b + 1 <= c /\ b < b + 1
    <3>1. b + 1 \in (b + 1)..c
      BY <1>9, <1>11
    <3> QED BY <1>3, <3>1
  <2>3. PICK d \in 0..Len(urbs) : d = b + 1
    BY <2>2
  <2>4. urbs' = [i \in 1..Len(urbs) |-> IF i = d THEN Bulk!URB("done", "ENOENT", n) ELSE urbs[i]]
    BY <1>3, <2>1, <2>3, Zenon
  <2>5. Len(urbs') = Len(urbs) /\ urbs' = [i \in 1..Len(urbs) |-> urbs'[i]]
    <3>1. urbs' = [i \in 1..Len(urbs) |-> urbs'[i]]
      BY <2>4, Zenon
    <3> QED BY <1>3, <3>1, LenIs
  <2>6. \A i \in 1..Len(urbs) :
          urbs'[i] = IF i = d THEN [st |-> "done", status |-> "ENOENT", actual_length |-> n] ELSE urbs[i]
    BY <2>4 DEF Bulk!URB
  <2>7. \A i \in 1..Len(urbs) : i \in (b + 1)..d <=> i = d
    BY <1>3, <2>3
  <2>8. \A i \in 1..Len(urbs) : IF i \in (b + 1)..d
                                THEN /\ urbs'[i].st = "done"
                                     /\ urbs'[i].actual_length = IF i = b + 1 THEN n ELSE 0
                                ELSE urbs'[i] = urbs[i]
    BY <2>3, <2>6, <2>7
  <2>9. ASSUME NEW i \in (b + 1)..d PROVE i \in 1..Len(urbs) /\ urbs'[i].status = "ENOENT"
    <3>1. i = d /\ i \in 1..Len(urbs)
      BY <1>3, <2>2, <2>3
    <3> QED BY <2>6, <3>1
  <2>10. \A i \in (b + 1)..d :
             /\ urbs'[i].status \in {"EPIPE", "EOTHER"} => Still'
             /\ urbs'[i].status = "EREMOTEIO" => urbs'[i].actual_length # Bulk!buffer_length(i)
             /\ Normal /\ urbs'[i].status = "ENOENT" =>
                  i # b + 1 /\ urbs'[b + 1].status \notin {"OK", "ENOENT"}
    BY <1>6, <2>9
  <2>11. Still => Still' /\ n = 0
    BY <1>8, <2>1 DEF Still
  <2>12. n <= Bulk!buffer_length(b + 1)
    <3>1. Bulk!buffer_length(b + 1) \in Nat
      BY <1>3, <1>5, <2>2, Parts
    <3> QED BY <2>1, <3>1
  <2>13. b <= d /\ d <= c /\ b # d
    BY <1>3, <2>2, <2>3
  <2>14. (b = d => n = 0) /\ (b < d => n <= Bulk!buffer_length(b + 1)) /\ (Normal' => lock' # "discard")
    BY <1>8, <2>12, <2>13
  <2> HIDE DEF j
  <2>15. HandsBack(b, d, n)
    BY <1>7, <2>1, <2>5, <2>8, <2>10, <2>11, <2>14 DEF HandsBack
  <2> QED BY <1>2, <1>5, <2>13, <2>15, KernelKeepsSurplus
<1> QED BY <1>10, <1>11

\* An URB is retired and its bytes are behind those of the URBs before it.
Counts(a, n, g) ==
    /\ Len(urbs') = Len(urbs) /\ length' = length /\ sent' = sent
    /\ \A i \in 1..Len(urbs) : /\ urbs'[i].actual_length = urbs[i].actual_length
                               /\ urbs'[i].status = urbs[i].status
    /\ transferred' = transferred + n /\ buffer' \in [1..length -> Nat]
    /\ \A k \in 1..length : k - transferred \notin 1..n => buffer'[k] = buffer[k]
    /\ \A k \in 1..n : buffer'[transferred + k] = g[a + 1] + k
    /\ Normal' /\ a + 1 < Len(urbs) => Normal /\ n = Bulk!buffer_length(a + 1)

LEMMA CountedSurplus ==
    ASSUME TransfersAssumption, Sized, NEW a \in 0..Len(urbs), NEW b \in 0..Len(urbs),
           NEW c \in 0..Len(urbs), NEW g \in Places, Here(a, b, c, g), a < b,
           NEW n \in Nat, n = Bytes(a + 1), Counts(a, n, g)
    PROVE  Sized' /\ g \in Places' /\ Placed(a + 1, b, g)' /\ Gathered(a + 1, g)'
<1> DEFINE L == Len(urbs)
<1>1. L \in Nat /\ a \in Nat /\ b \in Nat /\ a < b /\ b <= L
  BY DEF Here, Progress, Phases
<1>2. PICK e \in 1..L : e = a + 1 /\ a < e /\ a < L /\ e <= b /\ e \in Nat
  BY <1>1
<1>3. g \in [1..(L + 1) -> Nat] /\ Placed(a, b, g) /\ Gathered(a, g)
  BY DEF Here, Places
<1>4. /\ length \in Nat /\ sent \in Nat /\ transferred \in Nat /\ buffer \in [1..length -> Nat]
  BY DEF Sized
<1>5. /\ Len(urbs') = L /\ length' = length /\ sent' = sent /\ transferred' = transferred + n
      /\ buffer' \in [1..length -> Nat]
  BY DEF Counts
<1>6. \A i \in 1..L : urbs'[i].actual_length = urbs[i].actual_length /\ urbs'[i].status = urbs[i].status
  BY DEF Counts
<1>7. /\ \A k \in 1..length : k - transferred \notin 1..n => buffer'[k] = buffer[k]
      /\ \A k \in 1..n : buffer'[transferred + k] = g[e] + k
      /\ Normal' /\ e < L => Normal /\ n = Bulk!buffer_length(e)
  BY <1>2 DEF Counts
<1>8. \A i : Bulk!Offset(i)' = Bulk!Offset(i)
  BY DEF Bulk!Offset
<1>9. \A i \in 1..L : Bulk!buffer_length(i)' = Bulk!buffer_length(i)
  BY <1>5, <1>8 DEF Bulk!buffer_length, Bulk!num_urbs
<1> HIDE DEF L
<1>10. \A i \in 1..L : /\ Bulk!buffer_length(i) \in Nat /\ Bytes(i) \in Nat /\ Bulk!Offset(i) \in Nat
                       /\ Bytes(i) <= Bulk!buffer_length(i)
                       /\ Bulk!Offset(i) + Bulk!buffer_length(i) <= length
                       /\ i < L => Bulk!Offset(i) + Bulk!buffer_length(i) = Bulk!Offset(i + 1)
  BY <1>1, Parts DEF L
<1>11. PICK o \in Nat, w \in Nat : /\ o = Bulk!Offset(e) /\ w = Bulk!buffer_length(e) /\ n <= w /\ o + w <= length
                                   /\ e < L => o + w = Bulk!Offset(e + 1)
  BY <1>2, <1>10
<1>12. /\ g[b + 1] = sent
       /\ \A i \in e..b : /\ g[i + 1] = g[i] + Bytes(i)
                          /\ \A k \in 1..Bytes(i) : buffer[Bulk!Offset(i) + k] = g[i] + k
  BY <1>2, <1>3 DEF Placed
<1>13. /\ transferred <= o
       /\ \A k \in 1..transferred : /\ 1 <= buffer[k] /\ buffer[k] <= g[e]
                                    /\ k > 1 => buffer[k - 1] < buffer[k]
       /\ (\A i \in 1..a : ~Bulk!Failed(i)) => transferred = g[e]
       /\ Normal => transferred = o
  BY <1>2, <1>3, <1>11 DEF Gathered, L
<1>14. g[e] \in Nat /\ g[e + 1] = g[e] + n
  <2>1. e \in 1..(L + 1) /\ e \in e..b
    BY <1>1, <1>2
  <2> QED BY <1>2, <1>3, <1>12, <2>1
<1>15. Sized'
  <2>1. \A i \in 1..L : urbs'[i].actual_length \in 0..Bulk!buffer_length(i)
    BY <1>6 DEF Sized, Bytes, L
  <2>2. Len(urbs') # 0 => Bulk!Offset(Len(urbs))' <= length' /\ length' <= Bulk!Offset(Len(urbs))' + MAX_BULK_BUFFER_LENGTH
    <3>1. L # 0 => Bulk!Offset(L) <= length /\ length <= Bulk!Offset(L) + MAX_BULK_BUFFER_LENGTH
      BY DEF Sized, L
    <3>2. Bulk!Offset(Len(urbs))' = Bulk!Offset(L)
      BY <1>5 DEF Bulk!Offset
    <3> QED BY <1>5, <3>1, <3>2
  <2>3. \A i \in 1..Len(urbs') : Bytes(i)' \in 0..Bulk!buffer_length(i)'
    BY <1>5, <1>9, <2>1 DEF Bytes
  <2>4. length' \in Nat /\ sent' \in Nat /\ buffer' \in [1..length' -> Nat]
    BY <1>4, <1>5
  <2>5. transferred' \in Nat
    <3>1. transferred \in Nat /\ transferred' = transferred + n
      BY <1>4, <1>5
    <3> QED BY <3>1
  <2> QED BY <2>2, <2>3, <2>4, <2>5 DEF Sized
<1>16. Placed(e, b, g)'
  <2>1. ASSUME NEW i \in (e + 1)..b
        PROVE  /\ g[i + 1] = g[i] + urbs'[i].actual_length
               /\ \A k \in 1..urbs'[i].actual_length : buffer'[Bulk!Offset(i) + k] = g[i] + k
    <3>1. i \in 1..L /\ i \in e..b /\ e < i
      BY <1>1, <1>2
    <3>2. urbs'[i].actual_length = Bytes(i) /\ Bytes(i) \in Nat
      BY <1>6, <1>10, <3>1 DEF Bytes
    <3>3. ASSUME NEW k \in 1..Bytes(i) PROVE buffer'[Bulk!Offset(i) + k] = buffer[Bulk!Offset(i) + k]
      <4>1. PICK x \in Nat, y \in Nat : x = Bulk!Offset(i) /\ y = Bytes(i) /\ x + y <= length
        <5>1. Bulk!Offset(i) \in Nat /\ Bytes(i) \in Nat /\ Bulk!buffer_length(i) \in Nat
              /\ Bytes(i) <= Bulk!buffer_length(i) /\ Bulk!Offset(i) + Bulk!buffer_length(i) <= length
          BY <1>10, <3>1
        <5> QED BY <1>4, <5>1, SMTT(30)
      <4>2. o + n <= x
        <5>1. Bulk!Offset(e) + Bytes(e) <= Bulk!Offset(i)
          BY <1>1, <3>1, PartsApart DEF L
        <5> QED BY <1>2, <1>11, <4>1, <5>1
      <4>3. k \in 1..y
        BY <4>1, Zenon
      <4>4. PICK p \in 1..length : p = x + k
        <5>1. x \in Nat /\ y \in Nat /\ x + y <= length
          BY <4>1
        <5>2. x + k \in 1..length
          BY <1>4, <4>3, <5>1
        <5> QED BY <5>2
      <4>5. p - transferred \notin 1..n
        <5>3. p = x + k /\ p \in Nat /\ x \in Nat /\ y \in Nat
          <6>1. p \in Nat
            BY <1>4, <4>4
          <6> QED BY <4>1, <4>4, <6>1
        <5>1. x \in Nat /\ p > x /\ p \in Nat
          BY <4>3, <5>3
        <5>2. transferred <= o
          BY <1>13
        <5> QED BY <1>4, <4>2, <5>1, <5>2, SMTT(30)
      <4>6. buffer'[p] = buffer[p]
        BY <1>7, <4>5
      <4> QED BY <4>1, <4>4, <4>6
    <3>4. g[i + 1] = g[i] + Bytes(i) /\ \A k \in 1..Bytes(i) : buffer[Bulk!Offset(i) + k] = g[i] + k
      BY <1>12, <3>1
    <3> QED BY <3>2, <3>3, <3>4
  <2> QED BY <1>5, <1>8, <1>12, <2>1 DEF Placed, Bytes
<1>17. transferred + n <= length /\ (e < L => transferred + n <= Bulk!Offset(e + 1))
  <2>1. transferred <= o /\ transferred \in Nat /\ length \in Nat
    BY <1>4, <1>13
  <2>2. transferred + n <= o + w /\ o + w <= length
    BY <1>11, <2>1, SMTT(30)
  <2>3. transferred + n <= length
    BY <2>1, <2>2
  <2>4. e < L => transferred + n <= Bulk!Offset(e + 1)
    BY <1>11, <2>2
  <2> QED BY <2>3, <2>4
<1>18. ASSUME NEW k \in 1..(transferred + n)
       PROVE  /\ k \in 1..length
              /\ k <= transferred => buffer'[k] = buffer[k]
              /\ k > transferred => buffer'[k] = g[e] + (k - transferred)
  <2>1. k \in 1..length
    BY <1>4, <1>17
  <2>2. k <= transferred => k - transferred \notin 1..n
    BY <1>4
  <2>3. k > transferred => k - transferred \in 1..n /\ transferred + (k - transferred) = k
    BY <1>4
  <2>4. k > transferred => buffer'[transferred + (k - transferred)] = g[e] + (k - transferred)
    BY <1>7, <2>3
  <2> QED BY <1>7, <2>1, <2>2, <2>3, <2>4
<1>19. ASSUME NEW k \in 1..(transferred + n)
       PROVE  1 <= buffer'[k] /\ buffer'[k] <= g[e + 1] /\ (k > 1 => buffer'[k - 1] < buffer'[k])
  <2>1. k > 1 => k - 1 \in 1..(transferred + n)
    BY <1>4
  <2>2. CASE k <= transferred
    <3>1. k \in 1..transferred /\ (k > 1 => k - 1 <= transferred)
      BY <1>4, <2>2
    <3>2. buffer'[k] = buffer[k] /\ (k > 1 => buffer'[k - 1] = buffer[k - 1])
      BY <1>18, <2>1, <2>2, <3>1
    <3>3. 1 <= buffer[k] /\ buffer[k] <= g[e] /\ (k > 1 => buffer[k - 1] < buffer[k])
      BY <1>13, <3>1
    <3>4. buffer[k] \in Nat
      <4>1. k \in 1..length
        BY <1>18
      <4> QED BY <1>4, <4>1
    <3> QED BY <1>14, <3>2, <3>3, <3>4
  <2>3. CASE k > transferred
    <3>1. PICK t \in Nat, x \in Nat : t = transferred /\ x = g[e] /\ g[e + 1] = x + n
      BY <1>4, <1>14
    <3>2. k \in 1..(t + n) /\ k > t
      BY <2>3, <3>1
    <3>3. PICK z \in 1..n : z = k - t
      BY <3>1, <3>2
    <3>4. buffer'[k] = x + z
      BY <1>18, <2>3, <3>1, <3>3
    <3>5. 1 <= x + z /\ x + z <= x + n
      <4>1. x \in Nat /\ z \in Nat /\ 1 <= z /\ z <= n /\ n \in Nat
        BY <3>1, <3>3
      <4> QED BY <4>1
    <3>6. ASSUME k > 1 PROVE buffer'[k - 1] < x + z
      <4>1. PICK q \in 1..(transferred + n) : q = k - 1
        BY <2>1, <3>6
      <4>2. CASE q > t
        <5>1. buffer'[q] = x + (q - t)
          BY <1>18, <3>1, <4>2
        <5>2. q - t = z - 1
          BY <3>1, <3>2, <3>3, <4>1
        <5>3. x + (z - 1) < x + z
          BY <3>1, <3>3, SMTT(30)
        <5> QED BY <4>1, <5>1, <5>2, <5>3
      <4>3. CASE ~(q > t)
        <5>1. q \in 1..t
          BY <3>1, <4>1, <4>3
        <5>2. buffer'[q] = buffer[q] /\ q \in 1..transferred
          BY <1>18, <3>1, <5>1
        <5>3. buffer[q] <= x /\ buffer[q] \in Nat
          <6>1. q \in 1..length
            BY <1>18
          <6> QED BY <1>4, <1>13, <3>1, <5>2, <6>1
        <5>4. PICK y \in Nat : y = buffer[q] /\ y <= x
          BY <5>3
        <5>5. y < x + z
          <6>1. x \in Nat /\ z \in Nat /\ z >= 1 /\ y \in Nat /\ y <= x
            BY <3>1, <3>3, <5>4
          <6> QED BY <6>1
        <5> QED BY <4>1, <5>2, <5>4, <5>5
      <4> QED BY <4>2, <4>3
    <3> QED BY <3>1, <3>4, <3>5, <3>6
  <2> QED BY <1>4, <2>2, <2>3
<1>20. (\A i \in 1..e : ~Bulk!Failed(i)') => transferred + n = g[e + 1]
  <2> SUFFICES ASSUME \A i \in 1..e : ~Bulk!Failed(i)' PROVE transferred + n = g[e + 1]
    OBVIOUS
  <2>1. ASSUME NEW i \in 1..a PROVE ~Bulk!Failed(i)
    <3>1. i \in 1..e /\ i \in 1..L
      BY <1>1, <1>2
    <3> QED BY <1>6, <3>1 DEF Bulk!Failed
  <2> QED BY <1>13, <1>14, <2>1
<1>21. Normal' /\ e < L => transferred + n = Bulk!Offset(e + 1)
  BY <1>7, <1>11, <1>13
<1>22. Gathered(e, g)'
  <2>1. /\ transferred' <= length' /\ (e < Len(urbs') => transferred' <= Bulk!Offset(e + 1)')
        /\ (\A i \in 1..e : ~Bulk!Failed(i)') => transferred' = g[e + 1]
        /\ Normal' /\ e < Len(urbs') => transferred' = Bulk!Offset(e + 1)'
    BY <1>5, <1>8, <1>17, <1>20, <1>21
  <2>2. \A k \in 1..transferred' : /\ 1 <= buffer'[k] /\ buffer'[k] <= g[e + 1]
                                   /\ k > 1 => buffer'[k - 1] < buffer'[k]
    BY <1>5, <1>19
  <2> QED BY <2>1, <2>2 DEF Gathered, Bulk!Offset
<1>23. g \in Places'
  BY <1>3, <1>5 DEF Places
<1> QED BY <1>2, <1>15, <1>16, <1>22, <1>23

\* The URB retired is dropped only behind a failure.
LEMMA DroppedSurplus ==
    ASSUME TransfersAssumption, Sized, NEW a \in 0..Len(urbs), NEW b \in 0..Len(urbs),
           NEW c \in 0..Len(urbs), NEW g \in Places, Here(a, b, c, g), a < b,
           Len(urbs') = Len(urbs), UNCHANGED <<length, sent, transferred, buffer>>,
           \A i \in 1..Len(urbs) : /\ urbs'[i].actual_length = urbs[i].actual_length
                                   /\ urbs'[i].status = urbs[i].status,
           \E i \in 1..(a + 1) : Bulk!Failed(i), ~Normal'
    PROVE  Sized' /\ g \in Places' /\ Placed(a + 1, b, g)' /\ Gathered(a + 1, g)'
<1> DEFINE L == Len(urbs)
<1>1. L \in Nat /\ a \in Nat /\ b \in Nat /\ a < b /\ b <= L
  BY DEF Here, Progress, Phases
<1>2. PICK e \in 1..L : e = a + 1 /\ a < e /\ a < L /\ e <= b /\ e \in Nat
  BY <1>1
<1>3. g \in [1..(L + 1) -> Nat] /\ Placed(a, b, g) /\ Gathered(a, g)
  BY DEF Here, Places
<1>4. /\ length \in Nat /\ sent \in Nat /\ transferred \in Nat /\ buffer \in [1..length -> Nat]
      /\ length' = length /\ sent' = sent /\ transferred' = transferred /\ buffer' = buffer
      /\ Len(urbs') = L
  BY DEF Sized
<1>6. \A i \in 1..L : urbs'[i].actual_length = urbs[i].actual_length /\ urbs'[i].status = urbs[i].status
  OBVIOUS
<1>8. \A i : Bulk!Offset(i)' = Bulk!Offset(i)
  BY DEF Bulk!Offset
<1>9. \A i \in 1..L : Bulk!buffer_length(i)' = Bulk!buffer_length(i)
  BY <1>4, <1>8 DEF Bulk!buffer_length, Bulk!num_urbs
<1>10. /\ g[b + 1] = sent
       /\ \A i \in e..b : /\ g[i + 1] = g[i] + Bytes(i)
                          /\ \A k \in 1..Bytes(i) : buffer[Bulk!Offset(i) + k] = g[i] + k
  BY <1>2, <1>3 DEF Placed
<1>11. /\ transferred <= length /\ transferred <= Bulk!Offset(e)
       /\ \A k \in 1..transferred : /\ 1 <= buffer[k] /\ buffer[k] <= g[e]
                                    /\ k > 1 => buffer[k - 1] < buffer[k]
  BY <1>2, <1>3 DEF Gathered
<1> HIDE DEF L
<1>12. Sized'
  <2>1. \A i \in 1..L : urbs'[i].actual_length \in 0..Bulk!buffer_length(i)
    BY <1>6 DEF Sized, Bytes, L
  <2>2. Len(urbs') # 0 => Bulk!Offset(Len(urbs))' <= length' /\ length' <= Bulk!Offset(Len(urbs))' + MAX_BULK_BUFFER_LENGTH
    <3>1. L # 0 => Bulk!Offset(L) <= length /\ length <= Bulk!Offset(L) + MAX_BULK_BUFFER_LENGTH
      BY DEF Sized, L
    <3>2. Bulk!Offset(Len(urbs))' = Bulk!Offset(L)
      BY <1>4 DEF Bulk!Offset
    <3> QED BY <1>4, <3>1, <3>2
  <2>3. \A i \in 1..Len(urbs') : Bytes(i)' \in 0..Bulk!buffer_length(i)'
    BY <1>4, <1>9, <2>1 DEF Bytes
  <2> QED BY <1>4, <2>2, <2>3 DEF Sized
<1>13. Placed(e, b, g)'
  <2>1. ASSUME NEW i \in (e + 1)..b
        PROVE  /\ g[i + 1] = g[i] + urbs'[i].actual_length
               /\ \A k \in 1..urbs'[i].actual_length : buffer'[Bulk!Offset(i) + k] = g[i] + k
    <3>1. i \in 1..L /\ i \in e..b
      BY <1>1, <1>2
    <3>2. urbs'[i].actual_length = Bytes(i)
      BY <1>6, <3>1 DEF Bytes
    <3> QED BY <1>4, <1>10, <3>1, <3>2
  <2> QED BY <1>4, <1>8, <1>10, <2>1 DEF Placed, Bytes
<1>14. g[e] \in Nat /\ g[e + 1] \in Nat /\ g[e] <= g[e + 1]
  <2>1. e \in 1..(L + 1) /\ e + 1 \in 1..(L + 1) /\ e \in e..b
    BY <1>1, <1>2
  <2>2. Bytes(e) \in Nat
    BY <1>1, <1>2, Parts DEF L
  <2>3. g[e] \in Nat /\ g[e + 1] = g[e] + Bytes(e)
    BY <1>3, <1>10, <2>1
  <2> QED BY <2>2, <2>3
<1>15. \A k \in 1..transferred : buffer[k] <= g[e + 1]
  <2> SUFFICES ASSUME NEW k \in 1..transferred PROVE buffer[k] <= g[e + 1]
    OBVIOUS
  <2>1. k \in 1..length
    BY <1>4, <1>11
  <2>2. buffer[k] \in Nat /\ buffer[k] <= g[e]
    BY <1>4, <1>11, <2>1
  <2> QED BY <1>14, <2>2
<1>16. e < L => transferred <= Bulk!Offset(e + 1)
  <2>1. Bulk!Offset(e) \in Nat /\ Bulk!Offset(e + 1) = Bulk!Offset(e) + MAX_BULK_BUFFER_LENGTH
        /\ MAX_BULK_BUFFER_LENGTH \in Nat
    <3>1. e \in Nat \ {0}
      BY <1>2
    <3> QED BY <3>1, Offsets
  <2> QED BY <1>4, <1>11, <2>1
<1>17. ~(\A i \in 1..e : ~Bulk!Failed(i)')
  <2>1. PICK i \in 1..e : Bulk!Failed(i)
    BY <1>2
  <2>2. i \in 1..L
    BY <1>1, <1>2
  <2> QED BY <1>6, <2>1, <2>2 DEF Bulk!Failed
<1>18. Gathered(e, g)'
  <2>1. /\ transferred' <= length' /\ (e < Len(urbs') => transferred' <= Bulk!Offset(e + 1)')
        /\ ~(\A i \in 1..e : ~Bulk!Failed(i)')
        /\ ~Normal'
    BY <1>4, <1>8, <1>11, <1>16, <1>17
  <2>2. \A k \in 1..transferred' : /\ 1 <= buffer'[k] /\ buffer'[k] <= g[e + 1]
                                   /\ k > 1 => buffer'[k - 1] < buffer'[k]
    BY <1>4, <1>11, <1>15
  <2> QED BY <2>1, <2>2 DEF Gathered, Bulk!Offset
<1>19. g \in Places'
  BY <1>3, <1>4 DEF Places
<1> QED BY <1>2, <1>12, <1>13, <1>18, <1>19

\* What the retired URB tells of those behind it.
Tells(a) ==
    /\ reap_action' = "NORMAL" /\ reap_status' # "COMPLETED" =>
         /\ reap_action = "NORMAL"
         /\ \/ reap_status # "COMPLETED"
            \/ /\ Bulk!Failed(a + 1)
               /\ a + 1 < Len(urbs) => Status(a + 1) \in {"EPIPE", "EOTHER"}
    /\ Normal' =>
         /\ Normal /\ lock' # "discard"
         /\ a + 1 < Len(urbs) => /\ Status(a + 1) \in {"OK", "EREMOTEIO"}
                                 /\ Bytes(a + 1) = Bulk!buffer_length(a + 1)

LEMMA SilentRetired ==
    ASSUME NEW a \in 0..Len(urbs), NEW b \in 0..Len(urbs),
           NEW c \in 0..Len(urbs), NEW g \in Places, Here(a, b, c, g), a < b,
           Len(urbs') = Len(urbs), UNCHANGED <<length, endpoint, attached>>,
           \A i \in 1..Len(urbs) : /\ urbs'[i].actual_length = urbs[i].actual_length
                                   /\ urbs'[i].status = urbs[i].status,
           Tells(a)
    PROVE  Silent(a + 1, b)'
<1> DEFINE L == Len(urbs)
<1>1. L \in Nat /\ a \in Nat /\ b \in Nat /\ a < b /\ b <= L
  BY DEF Here, Progress, Phases
<1>2. PICK e \in 1..L : e = a + 1 /\ a < e /\ a < L /\ e <= b /\ e \in Nat /\ e \in (a + 1)..b
  BY <1>1
<1>3. /\ reap_action = "NORMAL" /\ reap_status # "COMPLETED" =>
           /\ \E i \in 1..a : Bulk!Failed(i)
           /\ Still /\ \A i \in (a + 1)..b : Bytes(i) = 0
      /\ \A i \in (a + 1)..b :
           /\ Status(i) \in {"EPIPE", "EOTHER"} => Still /\ \A j \in (i + 1)..b : Bytes(j) = 0
           /\ Status(i) = "EREMOTEIO" => Bytes(i) # Bulk!buffer_length(i)
           /\ Normal /\ Status(i) = "ENOENT" =>
                \E j \in (a + 1)..(i - 1) : Status(j) \notin {"OK", "ENOENT"}
  BY <1>2 DEF Here, Silent
<1>4. \A i \in 1..L : urbs'[i].actual_length = urbs[i].actual_length /\ urbs'[i].status = urbs[i].status
  OBVIOUS
<1>5. (\A i \in 1..L : Bulk!buffer_length(i)' = Bulk!buffer_length(i)) /\ (Still' <=> Still)
  BY DEF Bulk!buffer_length, Bulk!num_urbs, Bulk!Offset, Still
<1>6. /\ reap_action' = "NORMAL" /\ reap_status' # "COMPLETED" =>
           /\ reap_action = "NORMAL"
           /\ reap_status # "COMPLETED" \/ (Bulk!Failed(e) /\ (e < L => Status(e) \in {"EPIPE", "EOTHER"}))
      /\ Normal' =>
           /\ Normal /\ lock' # "discard"
           /\ e < L => Status(e) \in {"OK", "EREMOTEIO"} /\ Bytes(e) = Bulk!buffer_length(e)
  BY <1>2 DEF Tells
<1>7. Len(urbs') = L
  OBVIOUS
<1> HIDE DEF L
<1>8. \A i \in (e + 1)..b : i \in (a + 1)..b /\ i \in 1..L /\ e < L
  BY <1>1, <1>2
<1>9. ASSUME NEW i \in 1..e PROVE i \in 1..L /\ (Bulk!Failed(i)' <=> Bulk!Failed(i))
  <2>1. i \in 1..L
    BY <1>1, <1>2
  <2> QED BY <1>4, <2>1 DEF Bulk!Failed
<1>10. ASSUME reap_action' = "NORMAL", reap_status' # "COMPLETED"
       PROVE  /\ \E i \in 1..e : Bulk!Failed(i)'
              /\ e < L => Still /\ \A i \in (e + 1)..b : Bytes(i) = 0
  <2>1. CASE reap_status # "COMPLETED"
    <3>1. /\ \E i \in 1..a : Bulk!Failed(i)
          /\ Still /\ \A i \in (a + 1)..b : Bytes(i) = 0
      BY <1>3, <1>6, <1>10, <2>1
    <3>2. PICK i \in 1..a : Bulk!Failed(i)
      BY <3>1
    <3>3. i \in 1..e
      BY <1>1, <1>2
    <3> QED BY <1>8, <1>9, <3>1, <3>2, <3>3
  <2>2. CASE Bulk!Failed(e) /\ (e < L => Status(e) \in {"EPIPE", "EOTHER"})
    <3>1. e < L => Still /\ \A j \in (e + 1)..b : Bytes(j) = 0
      BY <1>2, <1>3, <2>2
    <3>2. e \in 1..e
      BY <1>2
    <3> QED BY <1>9, <2>2, <3>1, <3>2
  <2> QED BY <1>6, <1>10, <2>1, <2>2
<1>11. ASSUME NEW i \in (e + 1)..b, Normal', Status(i) = "ENOENT"
       PROVE  \E j \in (e + 1)..(i - 1) : Status(j) \notin {"OK", "ENOENT"}
  <2>1. PICK j \in (a + 1)..(i - 1) : Status(j) \notin {"OK", "ENOENT"}
    BY <1>3, <1>6, <1>8, <1>11
  <2>2. j # e
    <3>1. Status(e) \in {"OK", "EREMOTEIO"} /\ Bytes(e) = Bulk!buffer_length(e)
      BY <1>6, <1>8, <1>11
    <3>2. Status(e) # "EREMOTEIO"
      BY <1>2, <1>3, <3>1
    <3> QED BY <2>1, <3>1, <3>2
  <2>3. j \in (e + 1)..(i - 1)
    BY <1>1, <1>2, <2>2
  <2> QED BY <2>1, <2>3
<1>12. \A i \in (e + 1)..b : Bytes(i)' = Bytes(i) /\ Status(i)' = Status(i) /\ Bulk!buffer_length(i)' = Bulk!buffer_length(i)
  BY <1>4, <1>5, <1>8 DEF Bytes, Status
<1>13. \A i \in (e + 1)..b : /\ \A j \in (e + 1)..(i - 1) : j \in (e + 1)..b
                             /\ \A j \in (i + 1)..b : j \in (e + 1)..b
  BY <1>1, <1>2
<1>14. reap_action' = "NORMAL" /\ reap_status' # "COMPLETED" =>
         /\ \E i \in 1..e : Bulk!Failed(i)'
         /\ e < Len(urbs') => Still' /\ \A i \in (e + 1)..b : Bytes(i)' = 0
  BY <1>5, <1>7, <1>10, <1>12
<1>15. \A i \in (e + 1)..b :
         /\ Status(i)' \in {"EPIPE", "EOTHER"} => Still' /\ \A j \in (i + 1)..b : Bytes(j)' = 0
         /\ Status(i)' = "EREMOTEIO" => Bytes(i)' # Bulk!buffer_length(i)'
         /\ Normal' /\ Status(i)' = "ENOENT" =>
              \E j \in (e + 1)..(i - 1) : Status(j)' \notin {"OK", "ENOENT"}
  <2> SUFFICES ASSUME NEW i \in (e + 1)..b
               PROVE  /\ Status(i)' \in {"EPIPE", "EOTHER"} => Still' /\ \A j \in (i + 1)..b : Bytes(j)' = 0
                      /\ Status(i)' = "EREMOTEIO" => Bytes(i)' # Bulk!buffer_length(i)'
                      /\ Normal' /\ Status(i)' = "ENOENT" =>
                           \E j \in (e + 1)..(i - 1) : Status(j)' \notin {"OK", "ENOENT"}
    OBVIOUS
  <2>1. i \in (a + 1)..b
    BY <1>8
  <2>2. Status(i)' \in {"EPIPE", "EOTHER"} => Still' /\ \A j \in (i + 1)..b : Bytes(j)' = 0
    BY <1>3, <1>5, <1>12, <1>13, <2>1
  <2>3. Status(i)' = "EREMOTEIO" => Bytes(i)' # Bulk!buffer_length(i)'
    BY <1>3, <1>12, <2>1
  <2>4. Normal' /\ Status(i)' = "ENOENT" => \E j \in (e + 1)..(i - 1) : Status(j)' \notin {"OK", "ENOENT"}
    BY <1>11, <1>12, <1>13
  <2> QED BY <2>2, <2>3, <2>4
<1>16. Silent(e, b)'
  <2>1. Normal' => lock' # "discard"
    BY <1>6
  <2> QED BY <1>14, <1>15, <2>1 DEF Silent
<1> QED BY <1>2, <1>16

LEMMA ReapedIs ==
    ASSUME TransfersAssumption, BulkInv, SurplusInv, reaped # 0,
           urbs' = WithState(urbs, reaped, "reaped"), length' = length
    PROVE  /\ \E a, b, c \in 0..Len(urbs) : \E g \in Places : Here(a, b, c, g) /\ reaped = a + 1 /\ a < b
           /\ Len(urbs') = Len(urbs) /\ allocated /\ pending /\ polled /\ Sized
           /\ \A i \in 1..Len(urbs) : /\ urbs'[i].actual_length = urbs[i].actual_length
                                      /\ urbs'[i].status = urbs[i].status
<1>1. PICK a, b, c \in 0..Len(urbs) : \E g \in Places : Here(a, b, c, g)
  BY SurplusIs
<1>2. PICK g \in Places : Here(a, b, c, g)
  BY <1>1
<1>3. reaped = a + 1 /\ a < b /\ polled
  BY <1>2 DEF Here, Progress, Reaping, Gone, BulkInv, Flags
<1>4. allocated /\ Len(urbs') = Len(urbs)
      /\ \A i \in 1..Len(urbs) : /\ urbs'[i].actual_length = urbs[i].actual_length
                                 /\ urbs'[i].status = urbs[i].status
  BY RetiringKeeps
<1> QED BY <1>2, <1>3, <1>4 DEF BulkInv, SurplusInv

LEMMA RetiredSurplus ==
    ASSUME BulkInv, AllCounted, NEW a \in 0..Len(urbs), NEW b \in 0..Len(urbs),
           NEW c \in 0..Len(urbs), NEW g \in Places, Here(a, b, c, g), a < b,
           reaped = a + 1, urbs' = WithState(urbs, reaped, "reaped"), polled,
           UNCHANGED <<length, result, pending, polled>>,
           Sized', g \in Places', Placed(a + 1, b, g)', Gathered(a + 1, g)', Silent(a + 1, b)'
    PROVE  SurplusInv'
<1>1. Len(urbs) \in Nat /\ a \in Nat /\ b \in Nat /\ a < b /\ b <= Len(urbs) /\ b <= c /\ c <= Len(urbs)
      /\ \A i \in 1..Len(urbs) : urbs[i].st = Phase(i, a, b, c)
  BY DEF Here, Progress, Phases
<1>2. /\ Len(urbs') = Len(urbs) /\ urbs' = [i \in 1..Len(urbs) |-> urbs'[i]] /\ allocated
      /\ \A i \in 1..Len(urbs) : urbs'[i].st = IF i = reaped THEN "reaped" ELSE urbs[i].st
  BY <1>1, RetiringKeeps
<1>3. PICK e \in 0..Len(urbs) : e = a + 1
  BY <1>1
<1>4. Phases(e, b, c)'
  <2>1. ASSUME NEW i \in 1..Len(urbs) PROVE urbs'[i].st = Phase(i, e, b, c)
    <3>1. urbs[i].st = Phase(i, a, b, c) /\ i \in Nat
      BY <1>1
    <3>2. urbs'[i].st = IF i = e THEN "reaped" ELSE urbs[i].st
      BY <1>2, <1>3
    <3>3. (i = e => i <= e) /\ (i # e => (i <= e <=> i <= a))
      BY <1>1, <1>3, <3>1
    <3> QED BY <3>1, <3>2, <3>3 DEF Phase
  <2>2. e <= b
    BY <1>1, <1>3
  <2> QED BY <1>1, <1>2, <2>1, <2>2 DEF Phases
<1>5. AllCounted'
  <2>1. result \notin {"COMPLETED", "CANCELLED"}
    BY <1>2 DEF AllCounted, BulkInv
  <2> QED BY <2>1 DEF AllCounted
<1>6. Placed(e, b, g)' /\ Gathered(e, g)' /\ Silent(e, b)'
  BY <1>3
<1>7. e \in 0..Len(urbs') /\ b \in 0..Len(urbs') /\ c \in 0..Len(urbs')
  BY <1>2
<1> QED BY <1>4, <1>5, <1>6, <1>7 DEF SurplusInv

LEMMA AbnormalSurplus ==
    ASSUME TransfersAssumption, BulkInv, SurplusInv, Bulk!HandleAbnormalReap PROVE SurplusInv'
<1>1. /\ reaped # 0 /\ reap_action # "NORMAL" /\ reap_action' = reap_action
      /\ urbs' = WithState(urbs, reaped, "reaped")
      /\ buffer' = [k \in DOMAIN buffer |-> IF k - transferred \in 1..urbs[reaped].actual_length
                                            THEN buffer[Bulk!Offset(reaped) + k - transferred]
                                            ELSE buffer[k]]
      /\ transferred' = transferred + urbs[reaped].actual_length
      /\ UNCHANGED <<length, sent, endpoint, attached, polled, pending, result>>
  BY Zenon DEF Bulk!HandleAbnormalReap, Bulk!static, Bulk!kernel, Bulk!user, WithState
<1>2. /\ \E a, b, c \in 0..Len(urbs) : \E g \in Places : Here(a, b, c, g) /\ reaped = a + 1 /\ a < b
      /\ Len(urbs') = Len(urbs) /\ allocated /\ pending /\ polled /\ Sized
      /\ \A i \in 1..Len(urbs) : /\ urbs'[i].actual_length = urbs[i].actual_length
                                 /\ urbs'[i].status = urbs[i].status
  BY <1>1, ReapedIs
<1>3. PICK a, b, c \in 0..Len(urbs) :
        \E g \in Places : Here(a, b, c, g) /\ reaped = a + 1 /\ a < b
  BY <1>2
<1>4. PICK g \in Places : Here(a, b, c, g)
  BY <1>3
<1>5. Len(urbs) \in Nat /\ a \in Nat /\ b \in Nat /\ b <= Len(urbs)
  BY <1>4 DEF Here, Progress, Phases
<1>6. PICK e \in 1..Len(urbs) : e = a + 1 /\ e = reaped /\ a < Len(urbs) /\ e \in (a + 1)..b
  BY <1>3, <1>5
<1>7. PICK n \in Nat, o \in Nat, t \in Nat, z \in Nat :
        /\ n = Bytes(e) /\ o = Bulk!Offset(e) /\ t = transferred /\ z = length
        /\ t <= o /\ o + n <= z
  <2>1. /\ Bulk!buffer_length(e) \in Nat /\ Bytes(e) \in Nat /\ Bulk!Offset(e) \in Nat
        /\ Bytes(e) <= Bulk!buffer_length(e) /\ Bulk!Offset(e) + Bulk!buffer_length(e) <= length
    BY <1>2, <1>5, Parts
  <2>2. transferred \in Nat /\ length \in Nat
    BY <1>2 DEF Sized
  <2>3. transferred <= Bulk!Offset(e)
    BY <1>4, <1>6 DEF Here, Gathered
  <2>4. Bulk!Offset(e) + Bytes(e) <= length
    BY <2>1, <2>2
  <2> QED BY <2>1, <2>2, <2>3, <2>4
<1>8. buffer \in [1..z -> Nat]
  BY <1>2, <1>7 DEF Sized
<1>9. \A k \in 1..n : buffer[o + k] = g[e] + k
  BY <1>4, <1>6, <1>7 DEF Here, Placed
<1>10. buffer' = [k \in 1..z |-> IF k - t \in 1..n THEN buffer[o + k - t] ELSE buffer[k]]
  BY <1>1, <1>6, <1>7, <1>8 DEF Bytes
<1>11. /\ buffer' \in [1..z -> Nat]
       /\ \A k \in 1..z : k - t \notin 1..n => buffer'[k] = buffer[k]
       /\ \A k \in 1..n : buffer'[t + k] = g[e] + k
  <2>1. ASSUME NEW k \in 1..z PROVE (IF k - t \in 1..n THEN buffer[o + k - t] ELSE buffer[k]) \in Nat
    <3>1. k - t \in 1..n => o + k - t \in 1..z
      BY <1>7, SMTT(30)
    <3> QED BY <1>8, <3>1
  <2>2. ASSUME NEW k \in 1..n PROVE buffer'[t + k] = g[e] + k
    <3>1. t + k \in 1..z /\ (t + k) - t = k /\ o + (t + k) - t = o + k
      BY <1>7
    <3>2. buffer'[t + k] = buffer[o + (t + k) - t]
      BY <1>10, <3>1
    <3> QED BY <1>9, <3>1, <3>2
  <2> QED BY <1>10, <2>1, <2>2
<1>12. ~Normal'
  BY <1>1 DEF Normal
<1>13. Counts(a, n, g)
  <2>1. transferred' = transferred + n
    BY <1>1, <1>6, <1>7 DEF Bytes
  <2>2. \A k \in 1..n : buffer'[transferred + k] = g[a + 1] + k
    BY <1>6, <1>7, <1>11
  <2>3. /\ buffer' \in [1..length -> Nat]
        /\ \A k \in 1..length : k - transferred \notin 1..n => buffer'[k] = buffer[k]
    BY <1>7, <1>11
  <2> QED BY <1>1, <1>2, <1>12, <2>1, <2>2, <2>3 DEF Counts
<1>14. Sized' /\ g \in Places' /\ Placed(a + 1, b, g)' /\ Gathered(a + 1, g)'
  <2>1. n = Bytes(a + 1)
    BY <1>6, <1>7
  <2> QED BY <1>2, <1>3, <1>4, <1>13, <2>1, CountedSurplus
<1>15. Silent(a + 1, b)'
  <2>1. Tells(a)
    BY <1>1, <1>12 DEF Tells
  <2> QED BY <1>1, <1>2, <1>3, <1>4, <2>1, SilentRetired
<1> QED BY <1>1, <1>2, <1>3, <1>4, <1>14, <1>15, RetiredSurplus DEF SurplusInv

\* Bytes that are counted where they are.
LEMMA CountedInPlace ==
    ASSUME TransfersAssumption, BulkInv, SurplusInv, reaped # 0, reap_action = "NORMAL",
           urbs' = WithState(urbs, reaped, "reaped"), buffer' = buffer,
           transferred' = transferred + urbs[reaped].actual_length,
           UNCHANGED <<length, sent, endpoint, attached, polled, pending, result>>,
           NEW a \in 0..Len(urbs), NEW b \in 0..Len(urbs), NEW c \in 0..Len(urbs),
           NEW g \in Places, Here(a, b, c, g), reaped = a + 1, a < b,
           Normal' /\ reaped < Len(urbs) => Normal /\ urbs[reaped].actual_length = Bulk!buffer_length(reaped),
           Tells(a)
    PROVE  SurplusInv'
<1>1. /\ Len(urbs') = Len(urbs) /\ allocated /\ pending /\ polled /\ Sized
      /\ \A i \in 1..Len(urbs) : /\ urbs'[i].actual_length = urbs[i].actual_length
                                 /\ urbs'[i].status = urbs[i].status
  BY ReapedIs
<1>2. Len(urbs) \in Nat /\ a \in Nat /\ b \in Nat /\ b <= Len(urbs)
  BY DEF Here, Progress, Phases
<1>3. PICK e \in 1..Len(urbs) : e = a + 1 /\ e = reaped /\ a < Len(urbs) /\ e \in (a + 1)..b
  BY <1>2
<1>4. PICK n \in Nat : n = Bytes(e)
  BY <1>1, <1>2, Parts
<1>5. \A k \in 1..n : buffer[transferred + k] = g[e] + k
  <2>1. CASE reap_status = "COMPLETED"
    <3>1. transferred = Bulk!Offset(e)
      BY <1>3, <2>1 DEF Here, Gathered, Normal
    <3>2. \A k \in 1..n : buffer[Bulk!Offset(e) + k] = g[e] + k
      BY <1>3, <1>4 DEF Here, Placed
    <3> QED BY <3>1, <3>2
  <2>2. CASE reap_status # "COMPLETED"
    <3>1. Bytes(e) = 0
      BY <1>3, <2>2 DEF Here, Silent
    <3> QED BY <1>4, <3>1
  <2> QED BY <2>1, <2>2
<1>6. Counts(a, n, g)
  <2>1. transferred' = transferred + n
    BY <1>3, <1>4 DEF Bytes
  <2>2. buffer' \in [1..length -> Nat]
    BY <1>1 DEF Sized
  <2>3. \A k \in 1..n : buffer'[transferred + k] = g[a + 1] + k
    BY <1>3, <1>5
  <2>4. Normal' /\ a + 1 < Len(urbs) => Normal /\ n = Bulk!buffer_length(a + 1)
    BY <1>3, <1>4 DEF Bytes
  <2> QED BY <1>1, <2>1, <2>2, <2>3, <2>4 DEF Counts
<1>7. Sized' /\ g \in Places' /\ Placed(a + 1, b, g)' /\ Gathered(a + 1, g)'
  <2>1. n = Bytes(a + 1)
    BY <1>3, <1>4
  <2> QED BY <1>1, <1>6, <2>1, CountedSurplus
<1>8. Silent(a + 1, b)'
  BY <1>1, SilentRetired
<1> QED BY <1>1, <1>7, <1>8, RetiredSurplus DEF SurplusInv

LEMMA GoodSurplus ==
    ASSUME TransfersAssumption, BulkInv, SurplusInv, Bulk!HandleGoodReap PROVE SurplusInv'
<1> DEFINE early == reaped < Len(urbs) /\ urbs[reaped].actual_length < Bulk!buffer_length(reaped)
<1>1. /\ reaped # 0 /\ lock = "free" /\ reap_action = "NORMAL"
      /\ urbs' = WithState(urbs, reaped, "reaped") /\ buffer' = buffer
      /\ transferred' = transferred + urbs[reaped].actual_length
      /\ urbs[reaped].status \in {"OK", "EREMOTEIO"}
      /\ UNCHANGED <<length, sent, endpoint, attached, polled, pending, result, reap_status>>
      /\ reap_action' = IF early THEN "COMPLETED_EARLY" ELSE "NORMAL"
      /\ ~early => lock' = lock
  BY Zenon DEF Bulk!HandleGoodReap, Bulk!static, Bulk!kernel, Bulk!user, Bulk!num_urbs, WithState
<1>2. PICK a, b, c \in 0..Len(urbs) :
        \E g \in Places : Here(a, b, c, g) /\ reaped = a + 1 /\ a < b
  BY <1>1, ReapedIs
<1>3. PICK g \in Places : Here(a, b, c, g)
  BY <1>2
<1>4. Sized /\ Len(urbs) \in Nat /\ a \in Nat /\ b \in Nat /\ b <= Len(urbs)
  BY <1>3 DEF Here, Progress, Phases, SurplusInv
<1>5. PICK e \in 1..Len(urbs) : e = a + 1 /\ e = reaped
  BY <1>2, <1>4
<1>6. ~early /\ e < Len(urbs) => urbs[e].actual_length = Bulk!buffer_length(e)
  <2>1. Bytes(e) \in Nat /\ Bytes(e) <= Bulk!buffer_length(e) /\ Bulk!buffer_length(e) \in Nat
    BY <1>4, Parts
  <2> QED BY <1>5, <2>1 DEF Bytes
<1> HIDE DEF early
<1>7. Normal' => Normal /\ ~early /\ lock' # "discard"
  BY <1>1 DEF Normal
<1>8. Normal' /\ reaped < Len(urbs) => Normal /\ urbs[reaped].actual_length = Bulk!buffer_length(reaped)
  BY <1>5, <1>6, <1>7
<1>9. Tells(a)
  <2>1. reap_action' = "NORMAL" /\ reap_status' # "COMPLETED" =>
           reap_action = "NORMAL" /\ reap_status # "COMPLETED"
    BY <1>1
  <2>2. a + 1 < Len(urbs) /\ Normal' => /\ Status(a + 1) \in {"OK", "EREMOTEIO"}
                                        /\ Bytes(a + 1) = Bulk!buffer_length(a + 1)
    BY <1>1, <1>5, <1>8 DEF Status, Bytes
  <2> QED BY <1>7, <2>1, <2>2 DEF Tells
<1> QED BY <1>1, <1>2, <1>3, <1>8, <1>9, CountedInPlace

LEMMA OverflowSurplus ==
    ASSUME TransfersAssumption, BulkInv, SurplusInv, Bulk!HandleOverflow PROVE SurplusInv'
<1>1. /\ reaped # 0 /\ lock = "free" /\ reap_action = "NORMAL"
      /\ urbs' = WithState(urbs, reaped, "reaped") /\ buffer' = buffer
      /\ transferred' = transferred + urbs[reaped].actual_length
      /\ urbs[reaped].status = "EOVERFLOW" /\ reap_status' # "COMPLETED"
      /\ UNCHANGED <<length, sent, endpoint, attached, polled, pending, result>>
  BY DEF Bulk!HandleOverflow, Bulk!static, Bulk!kernel, Bulk!user, Bulk!Unwanted, WithState
<1>2. PICK a, b, c \in 0..Len(urbs) :
        \E g \in Places : Here(a, b, c, g) /\ reaped = a + 1 /\ a < b
  BY <1>1, ReapedIs
<1>3. PICK g \in Places : Here(a, b, c, g)
  BY <1>2
<1>4. Len(urbs) \in Nat /\ a \in Nat /\ b \in Nat /\ b <= Len(urbs)
  BY <1>3 DEF Here, Progress, Phases
<1>5. PICK e \in 1..Len(urbs) : e = a + 1 /\ e = reaped
  BY <1>2, <1>4
<1>6. e = Len(urbs) /\ Bulk!Failed(e)
  BY <1>1, <1>5 DEF BulkInv, BulkUrb, Bulk!Failed
<1>7. ~Normal'
  BY <1>1 DEF Normal
<1>8. Tells(a)
  <2>1. Bulk!Failed(a + 1) /\ ~(a + 1 < Len(urbs))
    BY <1>4, <1>5, <1>6
  <2> QED BY <1>1, <1>7, <2>1 DEF Tells
<1> QED BY <1>1, <1>2, <1>3, <1>7, <1>8, CountedInPlace

LEMMA FailedSurplus ==
    ASSUME TransfersAssumption, BulkInv, SurplusInv, Bulk!HandleFailedReap PROVE SurplusInv'
<1>1. /\ reaped # 0 /\ lock = "free" /\ reap_action = "NORMAL"
      /\ urbs' = WithState(urbs, reaped, "reaped") /\ buffer' = buffer
      /\ urbs[reaped].status \notin {"OK", "EREMOTEIO", "EOVERFLOW"} /\ reap_status' # "COMPLETED"
      /\ reap_action' = IF urbs[reaped].status = "EPROTO" THEN "ERROR" ELSE "NORMAL"
      /\ UNCHANGED <<length, sent, endpoint, attached, polled, pending, result, transferred>>
  BY DEF Bulk!HandleFailedReap, Bulk!static, Bulk!kernel, Bulk!user, Bulk!Unwanted, WithState
<1>2. /\ \E a, b, c \in 0..Len(urbs) : \E g \in Places : Here(a, b, c, g) /\ reaped = a + 1 /\ a < b
      /\ Len(urbs') = Len(urbs) /\ allocated /\ pending /\ polled /\ Sized
      /\ \A i \in 1..Len(urbs) : /\ urbs'[i].actual_length = urbs[i].actual_length
                                 /\ urbs'[i].status = urbs[i].status
  BY <1>1, ReapedIs
<1>3. PICK a, b, c \in 0..Len(urbs) :
        \E g \in Places : Here(a, b, c, g) /\ reaped = a + 1 /\ a < b
  BY <1>2
<1>4. PICK g \in Places : Here(a, b, c, g)
  BY <1>3
<1>5. Len(urbs) \in Nat /\ a \in Nat /\ b \in Nat /\ b <= Len(urbs)
  BY <1>4 DEF Here, Progress, Phases
<1>6. PICK e \in 1..Len(urbs) : e = a + 1 /\ e = reaped /\ e \in (a + 1)..b /\ a < Len(urbs)
  BY <1>3, <1>5
<1>7. ~Normal'
  BY <1>1 DEF Normal
<1>8. urbs[e].status \in Bulk!KernelStatuses \cup {"ENOENT"}
  BY DEF BulkInv, BulkUrb, BulkRecords
<1>9. Silent(a, b)
  BY <1>4 DEF Here
<1>10. CASE reap_status # "COMPLETED"
  <2>1. \E i \in 1..a : Bulk!Failed(i)
    BY <1>1, <1>9, <1>10 DEF Silent
  <2>2. \E i \in 1..(a + 1) : Bulk!Failed(i)
    <3>1. \A i \in 1..a : i \in 1..(a + 1)
      BY <1>5
    <3> QED BY <2>1, <3>1
  <2>3. Sized' /\ g \in Places' /\ Placed(a + 1, b, g)' /\ Gathered(a + 1, g)'
    BY <1>1, <1>2, <1>3, <1>4, <1>7, <2>2, DroppedSurplus
  <2>4. Tells(a)
    BY <1>1, <1>7, <1>10 DEF Tells
  <2>5. Silent(a + 1, b)'
    BY <1>1, <1>2, <1>3, <1>4, <2>4, SilentRetired
  <2> QED BY <1>1, <1>2, <1>3, <1>4, <2>3, <2>5, RetiredSurplus DEF SurplusInv
<1>11. CASE reap_status = "COMPLETED"
  <2>1. urbs[e].status # "ENOENT"
    <3>1. Normal
      BY <1>1, <1>11 DEF Normal
    <3>2. Status(e) = "ENOENT" => \E j \in (a + 1)..(e - 1) : Status(j) \notin {"OK", "ENOENT"}
      BY <1>6, <1>9, <3>1 DEF Silent
    <3>3. (a + 1)..(e - 1) = {}
      BY <1>5, <1>6
    <3> QED BY <3>2, <3>3 DEF Status
  <2>2. urbs[e].status \in {"EPIPE", "EPROTO", "EOTHER"}
    BY <1>1, <1>6, <1>8, <2>1 DEF Bulk!KernelStatuses
  <2>3. Bulk!Failed(e)
    BY <2>2 DEF Bulk!Failed
  <2>4. \E i \in 1..(a + 1) : Bulk!Failed(i)
    <3>1. e \in 1..(a + 1)
      BY <1>5, <1>6
    <3> QED BY <2>3, <3>1
  <2>5. Sized' /\ g \in Places' /\ Placed(a + 1, b, g)' /\ Gathered(a + 1, g)'
    BY <1>1, <1>2, <1>3, <1>4, <1>7, <2>4, DroppedSurplus
  <2>6. Tells(a)
    <3>1. reap_action' = "NORMAL" => Bulk!Failed(a + 1) /\ Status(a + 1) \in {"EPIPE", "EOTHER"}
      BY <1>1, <1>6, <2>2, <2>3 DEF Status
    <3> QED BY <1>1, <1>7, <3>1 DEF Tells
  <2>7. Silent(a + 1, b)'
    BY <1>1, <1>2, <1>3, <1>4, <2>6, SilentRetired
  <2> QED BY <1>1, <1>2, <1>3, <1>4, <2>5, <2>7, RetiredSurplus DEF SurplusInv
<1> QED BY <1>10, <1>11

-----------------------------------------------------------------------------
\* A step that moves no byte, is not the start of a loop of DISCARDURB unless
\* the transfer is given up, and reports nothing that is not so.
LEMMA KeptSurplus ==
    ASSUME BulkInv, SurplusInv,
           NEW a \in 0..Len(urbs), NEW b \in 0..Len(urbs), NEW c \in 0..Len(urbs),
           NEW g \in Places, Here(a, b, c, g), NEW d \in 0..Len(urbs), Phases(a, b, d)',
           Len(urbs') = Len(urbs),
           \A i \in 1..Len(urbs) : /\ urbs'[i].actual_length = urbs[i].actual_length
                                   /\ urbs'[i].status = urbs[i].status,
           UNCHANGED <<length, sent, buffer, transferred, endpoint, attached, reap_status>>,
           reap_action' = "NORMAL" => reap_action = "NORMAL",
           lock' = "discard" => lock = "discard" \/ reap_action' # "NORMAL",
           reporting' => polled',
           result' \in {"COMPLETED", "CANCELLED"} =>
             ~pending' /\ ((\E i \in 1..Len(urbs) : Bulk!Failed(i)) \/ transferred = sent)
    PROVE  SurplusInv'
<1>1. /\ Len(urbs) \in Nat /\ a \in Nat /\ b \in Nat /\ a <= b /\ b <= Len(urbs)
      /\ Placed(a, b, g) /\ Gathered(a, g) /\ Silent(a, b)
  BY DEF Here, Progress, Phases
<1>2. /\ \A i \in 1..Len(urbs) : /\ Bytes(i)' = Bytes(i) /\ Status(i)' = Status(i)
                                 /\ Bulk!Failed(i)' <=> Bulk!Failed(i)
                                 /\ Bulk!buffer_length(i)' = Bulk!buffer_length(i)
      /\ \A i : Bulk!Offset(i)' = Bulk!Offset(i)
      /\ Still' <=> Still
      /\ Normal' => Normal
  BY DEF Bytes, Status, Bulk!Failed, Bulk!buffer_length, Bulk!num_urbs, Bulk!Offset, Still, Normal
<1>3. Sized'
  BY <1>2 DEF SurplusInv, Sized
<1>4. AllCounted'
  BY <1>2 DEF AllCounted
<1>5. Placed(a, b, g)'
  <2>1. \A i \in (a + 1)..b : i \in 1..Len(urbs)
    BY <1>1
  <2> QED BY <1>1, <1>2, <2>1 DEF Placed
<1>6. Gathered(a, g)'
  <2>1. \A i \in 1..a : i \in 1..Len(urbs)
    BY <1>1
  <2> QED BY <1>1, <1>2, <2>1 DEF Gathered
<1>7. Silent(a, b)'
  <2>1. \A i \in (a + 1)..b : i \in 1..Len(urbs) /\ (a + 1)..(i - 1) \subseteq 1..Len(urbs)
                              /\ (i + 1)..b \subseteq 1..Len(urbs)
    BY <1>1
  <2>2. \A i \in 1..a : i \in 1..Len(urbs)
    BY <1>1
  <2>3. (a + 1)..b \subseteq 1..Len(urbs)
    BY <1>1
  <2>4. Normal' => lock' # "discard"
    BY <1>1, <1>2 DEF Silent, Normal
  <2>5. reap_action' = "NORMAL" /\ reap_status' # "COMPLETED" =>
          /\ (\E i \in 1..a : Bulk!Failed(i))'
          /\ (a < Len(urbs))' => Still' /\ \A i \in (a + 1)..b : Bytes(i)' = 0
    BY <1>1, <1>2, <2>2, <2>3 DEF Silent
  <2>6. ASSUME NEW i \in (a + 1)..b
        PROVE  /\ Status(i)' \in {"EPIPE", "EOTHER"} => Still' /\ \A j \in (i + 1)..b : Bytes(j)' = 0
               /\ Status(i)' = "EREMOTEIO" => Bytes(i)' # Bulk!buffer_length(i)'
               /\ Normal' /\ Status(i)' = "ENOENT" =>
                    \E j \in (a + 1)..(i - 1) : Status(j)' \notin {"OK", "ENOENT"}
    BY <1>1, <1>2, <2>1 DEF Silent
  <2> QED BY <2>4, <2>5, <2>6 DEF Silent
<1>8. g \in Places'
  BY DEF Places
<1>9. (\E x, y, z \in 0..Len(urbs) :
         Phases(x, y, z) /\ \E h \in Places : Placed(x, y, h) /\ Gathered(x, h) /\ Silent(x, y))'
  BY <1>5, <1>6, <1>7, <1>8
<1> QED BY <1>3, <1>4, <1>9 DEF SurplusInv

\* The steps that leave the array as it is.
LEMMA ArrayKeepsSurplus ==
    ASSUME BulkInv, SurplusInv,
           UNCHANGED <<urbs, length, sent, buffer, transferred, endpoint, attached, reap_status>>,
           reap_action' = "NORMAL" => reap_action = "NORMAL",
           lock' = "discard" => lock = "discard" \/ reap_action' # "NORMAL",
           reporting' => polled',
           result' \in {"COMPLETED", "CANCELLED"} =>
             ~pending' /\ ((\E i \in 1..Len(urbs) : Bulk!Failed(i)) \/ transferred = sent)
    PROVE  SurplusInv'
<1>1. PICK a, b, c \in 0..Len(urbs) : \E g \in Places : Here(a, b, c, g)
  BY SurplusIs
<1>2. PICK g \in Places : Here(a, b, c, g)
  BY <1>1
<1>3. Phases(a, b, c)' /\ Len(urbs') = Len(urbs)
  BY <1>2 DEF Here, Progress, Phases
<1> QED BY <1>2, <1>3, KeptSurplus

\* The report is made when all URBs are back: what is transferred is what was
\* sent, unless one failed.
LEMMA ReportedSurplus ==
    ASSUME BulkInv, SurplusInv, Bulk!Report PROVE SurplusInv'
<1>1. /\ reporting /\ reporting' = FALSE /\ pending' = FALSE
      /\ UNCHANGED <<urbs, length, sent, buffer, transferred, endpoint, attached, reap_status,
                     reap_action, lock, polled>>
  BY DEF Bulk!Report, Bulk!tpriv, Bulk!kernel, Bulk!static
<1>2. (\E i \in 1..Len(urbs) : Bulk!Failed(i)) \/ transferred = sent
  <2>1. PICK a, b, c \in 0..Len(urbs) : \E g \in Places : Here(a, b, c, g)
    BY SurplusIs
  <2>2. PICK g \in Places : Here(a, b, c, g)
    BY <2>1
  <2>3. ~allocated /\ polled
    BY <1>1 DEF BulkInv, SurplusInv, AllCounted
  <2>4. a = b /\ a \in Nat /\ Len(urbs) \in Nat /\ a <= Len(urbs)
    BY <2>2, <2>3 DEF Here, Progress, Phases, Counted
  <2>5. g[a + 1] = sent /\ ((\A i \in 1..a : ~Bulk!Failed(i)) => transferred = g[a + 1])
    BY <2>2, <2>4 DEF Here, Placed, Gathered
  <2>6. \A i \in 1..a : i \in 1..Len(urbs)
    BY <2>4
  <2> QED BY <2>5, <2>6
<1> QED BY <1>1, <1>2, ArrayKeepsSurplus

LEMMA QuietSurplus ==
    ASSUME BulkInv, SurplusInv,
           \/ Bulk!Reap \/ Bulk!HandleDisconnect \/ Bulk!Cancel \/ Bulk!FirstUrbRefused
           \/ \E errno \in {"EREMOTEIO", "EIO"} : Bulk!LaterUrbRefused(errno)
           \/ UNCHANGED vars
    PROVE  SurplusInv'
<1>1. /\ reporting => polled
      /\ result \in {"COMPLETED", "CANCELLED"} =>
           ~pending /\ ((\E i \in 1..Len(urbs) : Bulk!Failed(i)) \/ transferred = sent)
      /\ pending \in BOOLEAN
  BY DEF SurplusInv, AllCounted, BulkInv, Flags
<1>2. CASE Bulk!Reap
  <2>1. UNCHANGED <<urbs, length, sent, buffer, transferred, endpoint, attached, reap_status,
                    reap_action, lock, reporting, polled, result, pending>>
    BY <1>2 DEF Bulk!Reap, Bulk!tpriv, Bulk!static, Bulk!user
  <2> QED BY <1>1, <2>1, ArrayKeepsSurplus
<1>3. CASE Bulk!HandleDisconnect
  <2>1. /\ ~reporting /\ ~reporting' /\ pending' = FALSE
        /\ result' = IF pending THEN "NO_DEVICE" ELSE result
        /\ UNCHANGED <<urbs, length, sent, buffer, transferred, endpoint, attached, reap_status,
                       reap_action, lock>>
    BY <1>3 DEF Bulk!HandleDisconnect, Bulk!kernel, Bulk!static
  <2> QED BY <1>1, <2>1, ArrayKeepsSurplus
<1>4. CASE Bulk!Cancel
  <2>1. /\ reap_action' # "NORMAL"
        /\ UNCHANGED <<urbs, length, sent, buffer, transferred, endpoint, attached, reap_status,
                       reporting, polled, result, pending>>
    BY <1>4 DEF Bulk!Cancel, Bulk!kernel, Bulk!static
  <2> QED BY <1>1, <2>1, ArrayKeepsSurplus
<1>5. CASE Bulk!FirstUrbRefused
  <2>1. /\ pending' = FALSE /\ lock' = "free"
        /\ UNCHANGED <<urbs, length, sent, buffer, transferred, endpoint, attached, reap_status,
                       reap_action, reporting, polled, result>>
    BY <1>5 DEF Bulk!FirstUrbRefused, Bulk!kernel, Bulk!static
  <2> QED BY <1>1, <2>1, ArrayKeepsSurplus
<1>6. CASE \E errno \in {"EREMOTEIO", "EIO"} : Bulk!LaterUrbRefused(errno)
  <2>1. /\ reap_action' # "NORMAL"
        /\ UNCHANGED <<urbs, length, sent, buffer, transferred, endpoint, attached, reap_status,
                       reporting, polled, result, pending>>
    BY <1>6 DEF Bulk!LaterUrbRefused, Bulk!kernel, Bulk!static, Bulk!user
  <2> QED BY <1>1, <2>1, ArrayKeepsSurplus
<1>7. CASE UNCHANGED vars
  <2>1. UNCHANGED <<urbs, length, sent, buffer, transferred, endpoint, attached, reap_status,
                    reap_action, lock, reporting, polled, result, pending>>
    BY <1>7 DEF vars, bulkOnly, arrays
  <2> QED BY <1>1, <2>1, ArrayKeepsSurplus
<1> QED BY <1>2, <1>3, <1>4, <1>5, <1>6, <1>7

LEMMA SubmitUrbSurplus ==
    ASSUME BulkInv, SurplusInv, Bulk!SubmitUrb PROVE SurplusInv'
<1>1. PICK a, b, c \in 0..Len(urbs) : \E g \in Places : Here(a, b, c, g)
  BY SurplusIs
<1>2. PICK g \in Places : Here(a, b, c, g)
  BY <1>1
<1>3. /\ Len(urbs) \in Nat /\ a \in Nat /\ b \in Nat /\ c \in Nat /\ Phases(a, b, c)
      /\ c < Len(urbs) /\ todo = Interval(c + 1, Len(urbs))
      /\ urbs = [i \in 1..Len(urbs) |-> urbs[i]]
  BY <1>2 DEF Here, Progress, Phases, Looping, Bulk!SubmitUrb
<1>4. PICK e \in 1..Len(urbs) : e = c + 1
  BY <1>3
<1>5. Head(todo) = e
  <2>1. c + 1 \in Nat /\ c + 1 <= Len(urbs)
    BY <1>3
  <2>2. Head(Interval(c + 1, Len(urbs))) = c + 1
    BY <1>3, <2>1, IntervalSplits
  <2> QED BY <1>3, <1>4, <2>2
<1>6. /\ Len(urbs') = Len(urbs) /\ urbs' = [i \in 1..Len(urbs) |-> urbs'[i]]
      /\ \A i \in 1..Len(urbs) : i # e => urbs'[i] = urbs[i]
      /\ urbs'[e].st = "queued" /\ urbs'[e].status = urbs[e].status
      /\ urbs'[e].actual_length = urbs[e].actual_length
  <2>1. urbs[e] \in BulkRecords
    BY DEF BulkInv, BulkUrb
  <2>2. "queued" \in States
    BY DEF States
  <2>3. urbs' = WithState(urbs, e, "queued")
    BY <1>5 DEF Bulk!SubmitUrb, WithState
  <2> QED BY <1>3, <2>1, <2>2, <2>3, StateChanges
<1>7. Phases(a, b, c + 1)'
  <2>1. \A i \in 1..Len(urbs) : urbs'[i].st = Phase(i, a, b, c + 1)
    <3> SUFFICES ASSUME NEW i \in 1..Len(urbs) PROVE urbs'[i].st = Phase(i, a, b, c + 1)
      OBVIOUS
    <3>1. a <= b /\ b <= c /\ urbs[i].st = Phase(i, a, b, c)
      BY <1>3 DEF Phases
    <3>2. CASE i = e
      BY <1>3, <1>4, <1>6, <3>1, <3>2 DEF Phase
    <3>3. CASE i # e
      <4>1. urbs'[i].st = Phase(i, a, b, c) /\ (i <= c <=> i <= c + 1)
        BY <1>3, <1>4, <1>6, <3>1, <3>3
      <4> QED BY <4>1 DEF Phase
    <3> QED BY <3>2, <3>3
  <2>2. a <= b /\ b <= c + 1 /\ c + 1 <= Len(urbs)
    BY <1>3 DEF Phases
  <2> QED BY <1>3, <1>6, <2>1, <2>2 DEF Phases
<1>8. /\ lock' # "discard"
      /\ UNCHANGED <<length, sent, buffer, transferred, endpoint, attached, reap_status,
                     reap_action, reporting, polled, result, pending>>
  BY DEF Bulk!SubmitUrb, Bulk!tpriv, Bulk!kernel, Bulk!static, Bulk!user
<1>9. \A i \in 1..Len(urbs) : /\ urbs'[i].actual_length = urbs[i].actual_length
                              /\ urbs'[i].status = urbs[i].status
  BY <1>6
<1>10. /\ reporting => polled
       /\ result \in {"COMPLETED", "CANCELLED"} =>
            ~pending /\ ((\E i \in 1..Len(urbs) : Bulk!Failed(i)) \/ transferred = sent)
  BY DEF SurplusInv, AllCounted
<1>11. c + 1 \in 0..Len(urbs)
  BY <1>3
<1> QED BY <1>2, <1>6, <1>7, <1>8, <1>9, <1>10, <1>11, KeptSurplus

-----------------------------------------------------------------------------
\* As many URBs as the length needs, and one for no bytes.
LEMMA NumUrbsFit ==
    ASSUME NEW n \in Nat, NEW M \in Nat \ {0}, NEW z \in Nat \ {0}, M = MAX_BULK_BUFFER_LENGTH,
           z = Bulk!NumUrbs(n)
    PROVE  (z - 1) * M <= n /\ n <= (z - 1) * M + M
<1> DEFINE d == (n + M - 1) \div M
           r == (n + M - 1) % M
<1>1. n + M - 1 = M * d + r /\ d \in Int /\ r \in 0..(M - 1)
  <2>1. n + M - 1 \in Int
    OBVIOUS
  <2> QED BY <2>1
<1>2. z = IF 1 > d THEN 1 ELSE d
  BY DEF Bulk!NumUrbs, Bulk!Max
<1> HIDE DEF d, r
<1>3. CASE 1 > d
  <2>1. M * d <= 0
    <3>1. d <= 0
      BY <1>1, <1>3
    <3> QED BY <1>1, <3>1
  <2>2. n = 0 \/ n + M - 1 < M
    BY <1>1, <2>1
  <2>3. z = 1 /\ n <= M
    BY <1>2, <1>3, <2>2
  <2>4. (z - 1) * M = 0
    BY <2>3
  <2> QED BY <2>3, <2>4
<1>4. CASE ~(1 > d)
  <2>1. PICK e \in Nat : d = e + 1
    <3>1. d - 1 \in Nat /\ d = (d - 1) + 1
      BY <1>1, <1>4
    <3> QED BY <3>1
  <2>2. M * d = e * M + M /\ e * M \in Nat
    BY <2>1
  <2>3. z - 1 = e
    BY <1>2, <1>4, <2>1
  <2> QED BY <1>1, <2>2, <2>3
<1> QED BY <1>3, <1>4

LEMMA SubmittedSurplus ==
    ASSUME TransfersAssumption, BulkInv, NEW n \in BulkLengths, NEW out \in BOOLEAN,
           Bulk!Submit(n, out)
    PROVE  SurplusInv'
<1>1. PICK z \in Nat \ {0} : z = Bulk!NumUrbs(n)
  BY NumUrbsPositive
<1>2. PICK M \in Nat \ {0} : M = MAX_BULK_BUFFER_LENGTH
  BY DEF TransfersAssumption
<1>3. n \in Nat
  BY DEF TransfersAssumption
<1>4. /\ urbs' = [i \in 1..z |-> Bulk!URB("new", "OK", 0)] /\ buffer' = [k \in 1..n |-> 0]
      /\ length' = n /\ sent' = 0 /\ transferred' = 0
      /\ reap_action' = "NORMAL" /\ reap_status' = "COMPLETED" /\ result' = "none"
      /\ lock' = "submit" /\ reporting' = reporting /\ ~pending
  BY <1>1, Zenon DEF Bulk!Submit
<1>5. urbs' = [i \in 1..z |-> urbs'[i]] /\ \A i \in 1..z : urbs'[i] = Bulk!URB("new", "OK", 0)
  BY <1>4, Zenon
<1>6. Len(urbs') = z
  BY <1>5, LenIs
<1>7. \A i \in 1..z : urbs'[i].st = "new" /\ Bytes(i)' = 0
  BY <1>5 DEF Bulk!URB, Bytes
<1>8. (z - 1) * M <= n /\ n <= (z - 1) * M + M
  BY <1>1, <1>2, <1>3, NumUrbsFit
<1>9. Sized'
  <2>1. Bulk!Offset(Len(urbs))' = (z - 1) * M /\ (z - 1) * M \in Nat
    <3>1. z - 1 \in Nat
      OBVIOUS
    <3>2. (z - 1) * M \in Nat
      BY <3>1
    <3> QED BY <1>2, <1>6, <3>2 DEF Bulk!Offset
  <2>2. ASSUME NEW i \in 1..z PROVE Bytes(i)' \in 0..(Bulk!buffer_length(i)')
    <3>1. Bulk!buffer_length(i)' = IF i < z THEN M ELSE n - (i - 1) * M
      BY <1>2, <1>4, <1>6 DEF Bulk!buffer_length, Bulk!num_urbs, Bulk!Offset
    <3>2. CASE i < z
      BY <1>2, <1>7, <3>1, <3>2
    <3>3. CASE ~(i < z)
      <4>1. i = z
        BY <3>3
      <4>2. Bulk!buffer_length(i)' = n - (z - 1) * M
        BY <3>1, <3>3, <4>1
      <4>3. 0 <= n - (z - 1) * M /\ n - (z - 1) * M \in Int
        BY <1>3, <1>8, <2>1
      <4> QED BY <1>7, <4>2, <4>3
    <3> QED BY <3>2, <3>3
  <2>3. buffer' \in [1..length' -> Nat]
    BY <1>4
  <2>4. \A i \in 1..Len(urbs') : Bytes(i)' \in 0..(Bulk!buffer_length(i)')
    BY <1>6, <2>2
  <2>5. Bulk!Offset(Len(urbs))' <= length' /\ length' <= Bulk!Offset(Len(urbs))' + MAX_BULK_BUFFER_LENGTH
    BY <1>2, <1>4, <1>8, <2>1
  <2> QED BY <1>3, <1>4, <2>3, <2>4, <2>5 DEF Sized
<1>10. AllCounted'
  BY <1>4 DEF AllCounted, BulkInv
<1>11. Phases(0, 0, 0)'
  <2>1. \A i \in 1..z : urbs'[i].st = Phase(i, 0, 0, 0)
    BY <1>7 DEF Phase
  <2> QED BY <1>5, <1>6, <2>1 DEF Phases
<1>12. PICK g : g = [i \in 1..(z + 1) |-> 0]
  OBVIOUS
<1>13. g \in Places' /\ g[0 + 1] = 0
  BY <1>6, <1>12 DEF Places
<1>14. Placed(0, 0, g)'
  BY <1>4, <1>13 DEF Placed
<1>15. Gathered(0, g)'
  <2>1. Bulk!Offset(0 + 1)' = 0
    BY <1>2 DEF Bulk!Offset
  <2> QED BY <1>3, <1>4, <1>13, <2>1 DEF Gathered
<1>16. Silent(0, 0)'
  BY <1>4 DEF Silent
<1>17. (\E x, y, w \in 0..Len(urbs) :
          Phases(x, y, w) /\ \E h \in Places : Placed(x, y, h) /\ Gathered(x, h) /\ Silent(x, y))'
  <2>1. 0 \in 0..Len(urbs')
    BY <1>6
  <2> QED BY <1>11, <1>13, <1>14, <1>15, <1>16, <2>1
<1> QED BY <1>9, <1>10, <1>17 DEF SurplusInv

LEMMA StartSurplus == ASSUME TransfersAssumption, Bulk!Init PROVE SurplusInv
<1>1. /\ urbs = <<>> /\ buffer = <<>> /\ length = 0 /\ sent = 0 /\ transferred = 0
      /\ reap_action = "NORMAL" /\ reap_status = "COMPLETED" /\ result = "none" /\ lock = "free"
      /\ reporting = FALSE
  BY DEF Bulk!Init
<1>2. Len(urbs) = 0 /\ urbs = [i \in 1..0 |-> urbs[i]] /\ buffer \in [1..0 -> Nat]
  BY <1>1, EmptySeq
<1>3. Sized /\ AllCounted
  BY <1>1, <1>2 DEF Sized, AllCounted
<1>4. Phases(0, 0, 0)
  BY <1>2 DEF Phases
<1>5. PICK g : g = [i \in 1..1 |-> 0]
  OBVIOUS
<1>6. g \in Places /\ g[0 + 1] = 0
  BY <1>2, <1>5 DEF Places
<1>7. Placed(0, 0, g) /\ Gathered(0, g) /\ Silent(0, 0)
  BY <1>1, <1>2, <1>6 DEF Placed, Gathered, Silent
<1>8. 0 \in 0..Len(urbs)
  BY <1>2
<1> QED BY <1>3, <1>4, <1>6, <1>7, <1>8 DEF SurplusInv

LEMMA SurplusInduction ==
    ASSUME TransfersAssumption, BulkInv, SurplusInv, Bulk!Next PROVE SurplusInv'
<1>1. CASE \E n \in BulkLengths, out \in BOOLEAN : Bulk!Submit(n, out)
  BY <1>1, SubmittedSurplus
<1>2. CASE Bulk!InCall
  <2>1. CASE Bulk!SubmitUrb
    BY <2>1, SubmitUrbSurplus
  <2>2. CASE Bulk!FirstUrbRefused \/ \E errno \in {"EREMOTEIO", "EIO"} : Bulk!LaterUrbRefused(errno)
    BY <2>2, QuietSurplus
  <2>3. CASE \E n \in 0..MAX_BULK_BUFFER_LENGTH : Bulk!DiscardUrb(n)
    <3>1. PICK n \in 0..MAX_BULK_BUFFER_LENGTH : Bulk!DiscardUrb(n)
      BY <2>3
    <3>2. n \in Nat
      BY DEF TransfersAssumption
    <3> QED BY <3>1, <3>2, DiscardedSurplus
  <2> QED BY <1>2, <2>1, <2>2, <2>3 DEF Bulk!InCall
<1>3. CASE Bulk!Cancel
  BY <1>3, QuietSurplus
<1>4. CASE Bulk!EventThread
  BY <1>4, QuietSurplus, ReportedSurplus, AbnormalSurplus, GoodSurplus, OverflowSurplus, FailedSurplus
     DEF Bulk!EventThread
<1>5. CASE \E s \in Bulk!KernelStatuses, n \in 0..MAX_BULK_BUFFER_LENGTH : Bulk!DeviceAnswers(s, n)
  <2>1. PICK s \in Bulk!KernelStatuses, n \in 0..MAX_BULK_BUFFER_LENGTH : Bulk!DeviceAnswers(s, n)
    BY <1>5
  <2>2. n \in Nat
    BY DEF TransfersAssumption
  <2> QED BY <2>1, <2>2, AnsweredSurplus
<1>6. CASE Bulk!Unplug
  BY <1>6, UnpluggedSurplus
<1> QED BY <1>1, <1>2, <1>3, <1>4, <1>5, <1>6 DEF Bulk!Next

-----------------------------------------------------------------------------
\* A control transfer is reported with what its one URB received.
AnswerInv ==
    result \in {"COMPLETED", "CANCELLED"} =>
      ~pending /\ (status = "OK" => transferred = actual_length)

LEMMA AnswerInduction ==
    ASSUME ControlInv, AnswerInv, Control!Next PROVE AnswerInv'
<1>0. urb = "queued" => pending
  BY DEF ControlInv, Flags
<1>1. CASE \E n \in ControlLengths : Control!Submit(n)
  BY <1>1 DEF Control!Submit, AnswerInv
<1>2. CASE \E s \in {"OK", "EPIPE", "EPROTO", "EOTHER"}, n \in 0..(length - SETUP) :
             Control!DeviceAnswers(s, n)
  <2>1. urb = "queued" /\ UNCHANGED <<result, pending>>
    BY <1>2 DEF Control!DeviceAnswers, Control!UrbEnds, Control!user
  <2> QED BY <1>0, <2>1 DEF AnswerInv
<1>3. CASE Control!Unplug
  <2>1. UNCHANGED <<result, pending, transferred>>
        /\ (urb = "queued" \/ UNCHANGED <<status, actual_length>>)
    BY <1>3 DEF Control!Unplug, Control!user
  <2> QED BY <1>0, <2>1 DEF AnswerInv
<1>4. CASE Control!Cancel
  <2>1. pending /\ UNCHANGED <<result, pending>>
    BY <1>4 DEF Control!Cancel
  <2> QED BY <2>1 DEF AnswerInv
<1>5. CASE Control!HandleControlCompletion
  <2>1. /\ pending' = FALSE /\ UNCHANGED <<status, actual_length>>
        /\ status = "OK" => transferred' = actual_length
    BY <1>5 DEF Control!HandleControlCompletion
  <2> QED BY <2>1 DEF AnswerInv
<1>6. CASE Control!HandleDisconnect
  <2>1. /\ pending' = FALSE /\ result' = IF pending THEN "NO_DEVICE" ELSE result
        /\ UNCHANGED <<status, actual_length, transferred>>
    BY <1>6 DEF Control!HandleDisconnect
  <2> QED BY <2>1 DEF AnswerInv
<1>7. CASE Control!InCall
  <2>1. CASE Control!SubmitUrb
    BY <2>1 DEF Control!SubmitUrb, Control!user, AnswerInv
  <2>2. CASE Control!UrbRefused
    BY <2>2 DEF Control!UrbRefused, AnswerInv
  <2>3. CASE Control!DiscardUrb
    <3>1. UNCHANGED <<result, pending, transferred>>
          /\ (urb = "queued" \/ UNCHANGED <<status, actual_length>>)
      BY <2>3 DEF Control!DiscardUrb, Control!user
    <3> QED BY <1>0, <3>1 DEF AnswerInv
  <2> QED BY <1>7, <2>1, <2>2, <2>3 DEF Control!InCall
<1> QED BY <1>1, <1>2, <1>3, <1>4, <1>5, <1>6, <1>7 DEF Control!Next, Control!EventThread

-----------------------------------------------------------------------------
\* What the device sent is in the user's buffer, in the order it was sent and
\* with no hole, and all of it if the transfer is reported as completed or
\* cancelled and no URB failed; a control transfer counts what its URB got.
THEOREM SurplusIsKept == Spec => []SurplusDataKept
<1> DEFINE J == /\ type = "bulk" => SurplusInv
                /\ type = "control" => AnswerInv
<1>1. Init => J
  <2> SUFFICES ASSUME Init PROVE J
    OBVIOUS
  <2>1. CASE type = "bulk"
    BY <2>1, TransfersAssumption, StartSurplus DEF Init
  <2>2. CASE type = "control"
    <3>1. result = "none"
      BY <2>2 DEF Init, Control!Init
    <3> QED BY <2>2, <3>1 DEF AnswerInv
  <2> QED BY <2>1, <2>2
<1>2. TransfersInv /\ J /\ [Next]_vars => J'
  <2> SUFFICES ASSUME TransfersInv, J, [Next]_vars PROVE J'
    OBVIOUS
  <2>1. type' = type
    BY DEF Next, OfBulk, OfIso, OfControl, vars
  <2>2. CASE type = "bulk"
    <3>1. BulkInv /\ SurplusInv
      BY <2>2 DEF TransfersInv
    <3>2. Bulk!Next \/ UNCHANGED vars
      BY <2>2 DEF Next, OfBulk, OfIso, OfControl
    <3>3. SurplusInv'
      BY <3>1, <3>2, TransfersAssumption, SurplusInduction, QuietSurplus
    <3> QED BY <2>1, <2>2, <3>3
  <2>3. CASE type = "control"
    <3>1. ControlInv /\ AnswerInv
      BY <2>3 DEF TransfersInv
    <3>2. Control!Next \/ UNCHANGED vars
      BY <2>3 DEF Next, OfBulk, OfIso, OfControl
    <3>3. ASSUME UNCHANGED vars PROVE AnswerInv'
      <4>1. UNCHANGED <<result, pending, status, transferred, actual_length>>
        BY <3>3 DEF vars, controlOnly
      <4> QED BY <3>1, <4>1 DEF AnswerInv
    <3>4. AnswerInv'
      BY <3>1, <3>2, <3>3, AnswerInduction
    <3> QED BY <2>1, <2>3, <3>4
  <2> QED BY <2>1, <2>2, <2>3
<1>3. TransfersInv /\ J => SurplusDataKept
  <2> SUFFICES ASSUME TransfersInv, J PROVE SurplusDataKept
    OBVIOUS
  <2>1. ASSUME type = "bulk" PROVE Bulk!SurplusDataKept
    <3>1. BulkInv /\ SurplusInv
      BY <2>1 DEF TransfersInv
    <3>2. PICK a, b, c \in 0..Len(urbs) : \E g \in Places : Here(a, b, c, g)
      BY <3>1, SurplusIs
    <3>3. PICK g \in Places : Here(a, b, c, g)
      BY <3>2
    <3>4. ASSUME NEW k \in 1..transferred
          PROVE  buffer[k] # 0 /\ (k > 1 => buffer[k - 1] < buffer[k])
      <4>1. 1 <= buffer[k] /\ (k > 1 => buffer[k - 1] < buffer[k])
        BY <3>3 DEF Here, Gathered
      <4> QED BY <4>1
    <3>5. result \in {"COMPLETED", "CANCELLED"} =>
            (\E i \in 1..Len(urbs) : Bulk!Failed(i)) \/ transferred = sent
      BY <3>1 DEF SurplusInv, AllCounted
    <3> QED BY <3>4, <3>5 DEF Bulk!SurplusDataKept, Bulk!num_urbs
  <2>2. ASSUME type = "control" PROVE Control!AnswerCounted
    BY <2>2 DEF AnswerInv, Control!AnswerCounted
  <2> QED BY <2>1, <2>2 DEF SurplusDataKept
<1> QED BY <1>1, <1>2, <1>3, TransfersInvariant, PTL DEF Spec

\* Induction up to a bound, on the set of numbers a fact holds of.
LEMMA Climb ==
    ASSUME NEW n \in Nat, NEW T, 0 \in T, \A k \in 1..n : k - 1 \in T => k \in T
    PROVE  \A k \in 0..n : k \in T
<1> DEFINE U == {k \in 0..n : k \notin T}
<1>1. SUFFICES ASSUME U # {} PROVE FALSE
  OBVIOUS
<1>2. PICK x \in U : \A y \in U : x <= y
  <2>1. U \in SUBSET Nat
    OBVIOUS
  <2> HIDE DEF U
  <2> QED BY <1>1, <2>1, LeastOf
<1>3. x \in 0..n /\ x \notin T /\ x # 0
  OBVIOUS
<1>4. x \in 1..n /\ x - 1 \in 0..n /\ ~(x <= x - 1)
  BY <1>3
<1>5. x - 1 \in T
  BY <1>2, <1>4
<1> QED BY <1>3, <1>4, <1>5

Runs(f, n, start, F) == f[0] = start /\ \A k \in 1..n : f[k] = F[<<f[k - 1], k>>]

\* A recursion that stays in D defines a function of D.
LEMMA Recursion ==
    ASSUME NEW n \in Nat, NEW D, NEW start \in D, NEW F \in [D \X (1..n) -> D]
    PROVE  \E f \in [0..n -> D] : Runs(f, n, start, F)
<1> DEFINE Good(f, m) == /\ f \in [0..m -> D] /\ f[0] = start
                         /\ \A k \in 1..m : f[k] = F[<<f[k - 1], k>>]
           T == {m \in 0..n : \E f \in [0..m -> D] : Good(f, m)}
<1>1. 0 \in T
  <2>1. [k \in 0..0 |-> start] \in [0..0 -> D] /\ [k \in 0..0 |-> start][0] = start
    OBVIOUS
  <2>2. Good([k \in 0..0 |-> start], 0)
    BY <2>1
  <2> HIDE DEF Good
  <2> QED BY <2>1, <2>2
<1>2. ASSUME NEW m \in 1..n, m - 1 \in T PROVE m \in T
  <2>1. PICK f \in [0..(m - 1) -> D] : Good(f, m - 1)
    BY <1>2
  <2>2. m - 1 \in 0..(m - 1) /\ m \in 0..m /\ 0 \in 0..(m - 1) /\ m \notin 0..(m - 1) /\ m \in 0..n
    OBVIOUS
  <2>3. f[m - 1] \in D /\ F[<<f[m - 1], m>>] \in D
    BY <2>1, <2>2
  <2> DEFINE v == F[<<f[m - 1], m>>]
             g == [k \in 0..m |-> IF k \in 0..(m - 1) THEN f[k] ELSE v]
  <2>4. g \in [0..m -> D]
    <3> HIDE DEF v
    <3>1. v \in D
      BY <2>3 DEF v
    <3> QED BY <2>1, <3>1
  <2>5. \A k \in 0..(m - 1) : g[k] = f[k]
    OBVIOUS
  <2>6. g[m] = v
    BY <2>2
  <2> HIDE DEF g
  <2>7. ASSUME NEW k \in 1..m PROVE g[k] = F[<<g[k - 1], k>>]
    <3>1. CASE k = m
      <4>1. k - 1 \in 0..(m - 1) /\ g[k - 1] = f[m - 1]
        BY <2>2, <2>5, <3>1
      <4> QED BY <2>6, <3>1, <4>1
    <3>2. CASE k # m
      <4>1. k - 1 \in 0..(m - 1) /\ k \in 0..(m - 1) /\ k \in 1..(m - 1)
        BY <3>2
      <4>2. f[k] = F[<<f[k - 1], k>>]
        BY <2>1, <4>1
      <4> QED BY <2>5, <4>1, <4>2, Zenon
    <3> QED BY <3>1, <3>2
  <2>8. Good(g, m)
    BY <2>1, <2>2, <2>4, <2>5, <2>7
  <2> HIDE DEF Good
  <2> QED BY <2>2, <2>4, <2>8
<1>3. n \in T
  <2> HIDE DEF T
  <2>1. n \in 0..n /\ \A k \in 1..n : k - 1 \in T => k \in T
    BY <1>2
  <2> QED BY <1>1, <2>1, Climb
<1>4. PICK f \in [0..n -> D] : Good(f, n)
  BY <1>3
<1> QED BY <1>4 DEF Runs

\* The sums of the lengths, as the equation that defines them.
LEMMA BeforeIs ==
    ASSUME NEW lens \in Seq(Nat)
    PROVE  /\ Iso!Before(lens)[0] = 0
           /\ \A k \in 1..Len(lens) :
                Iso!Before(lens)[k] = Iso!Before(lens)[k - 1] + lens[k]
           /\ \A k \in 0..Len(lens) : Iso!Before(lens)[k] \in Nat
<1> DEFINE n == Len(lens)
           Good(f) == f = [k \in 0..n |-> IF k = 0 THEN 0 ELSE f[k - 1] + lens[k]]
           F == [x \in Nat \X (1..n) |-> x[1] + lens[x[2]]]
           B == Iso!Before(lens)
<1>1. n \in Nat /\ \A k \in 1..n : lens[k] \in Nat
  OBVIOUS
<1>2. B = CHOOSE f : Good(f)
  BY Zenon DEF Iso!Before
<1> HIDE DEF n
<1>3. F \in [Nat \X (1..n) -> Nat] /\ \A a \in Nat, k \in 1..n : F[<<a, k>>] = a + lens[k]
  <2>1. \A x \in Nat \X (1..n) : x[1] \in Nat /\ x[2] \in 1..n
    OBVIOUS
  <2>2. \A x \in Nat \X (1..n) : x[1] + lens[x[2]] \in Nat
    BY <1>1, <2>1
  <2>3. F \in [Nat \X (1..n) -> Nat]
    BY <2>2
  <2>4. ASSUME NEW a \in Nat, NEW k \in 1..n PROVE F[<<a, k>>] = a + lens[k]
    <3>1. <<a, k>> \in Nat \X (1..n) /\ <<a, k>>[1] = a /\ <<a, k>>[2] = k
      OBVIOUS
    <3> QED BY <3>1
  <2> QED BY <2>3, <2>4
<1> HIDE DEF F
<1>4. PICK f \in [0..n -> Nat] : f[0] = 0 /\ \A k \in 1..n : f[k] = F[<<f[k - 1], k>>]
  <2>1. PICK f \in [0..n -> Nat] : Runs(f, n, 0, F)
    <3>1. 0 \in Nat
      OBVIOUS
    <3> QED BY <1>1, <1>3, <3>1, Recursion
  <2> QED BY <2>1 DEF Runs
<1>5. Good(f)
  <2>1. ASSUME NEW k \in 0..n PROVE f[k] = IF k = 0 THEN 0 ELSE f[k - 1] + lens[k]
    <3>1. CASE k # 0
      <4>1. k \in 1..n /\ k - 1 \in 0..n
        BY <1>1, <3>1
      <4>2. f[k - 1] \in Nat
        BY <4>1
      <4> QED BY <1>3, <1>4, <3>1, <4>1, <4>2
    <3> QED BY <1>4, <3>1
  <2> QED BY <2>1
<1>6. Good(B)
  <2> HIDE DEF Good, B
  <2> QED BY <1>2, <1>5, Zenon
<1> HIDE DEF B
<1>7. B[0] = 0 /\ \A k \in 1..n : B[k] = B[k - 1] + lens[k]
  <2>1. 0 \in 0..n /\ \A k \in 1..n : k \in 0..n /\ k # 0
    BY <1>1
  <2> QED BY <1>6, <2>1, Zenon
<1>8. \A k \in 0..n : B[k] \in Nat
  <2> DEFINE T == {k \in 0..n : B[k] \in Nat}
  <2>1. 0 \in T
    BY <1>1, <1>7
  <2>2. ASSUME NEW k \in 1..n, k - 1 \in T PROVE k \in T
    <3>1. B[k - 1] \in Nat /\ k \in 0..n
      BY <1>1, <2>2
    <3>2. B[k] = B[k - 1] + lens[k] /\ lens[k] \in Nat
      BY <1>1, <1>7
    <3> QED BY <3>1, <3>2
  <2>3. \A k \in 0..n : k \in T
    <3> HIDE DEF T
    <3> QED BY <1>1, <2>1, <2>2, Climb
  <2> QED BY <2>3
<1> QED BY <1>7, <1>8 DEF B, n

\* The sums grow.
LEMMA BeforeGrows ==
    ASSUME NEW lens \in Seq(Nat), NEW i \in 0..Len(lens), NEW j \in 0..Len(lens), i <= j
    PROVE  Iso!Before(lens)[i] <= Iso!Before(lens)[j]
<1> DEFINE B == Iso!Before(lens)
           T == {k \in 0..Len(lens) : i <= k => B[i] <= B[k]}
<1>1. /\ Len(lens) \in Nat
      /\ \A k \in 1..Len(lens) : B[k] = B[k - 1] + lens[k] /\ lens[k] \in Nat
      /\ \A k \in 0..Len(lens) : B[k] \in Nat
  BY BeforeIs
<1> HIDE DEF B
<1>2. 0 \in T
  BY <1>1
<1>3. ASSUME NEW k \in 1..Len(lens), k - 1 \in T PROVE k \in T
  <2>1. k \in 0..Len(lens) /\ k - 1 \in 0..Len(lens)
    BY <1>1
  <2>2. B[k - 1] \in Nat /\ B[k] = B[k - 1] + lens[k] /\ lens[k] \in Nat /\ B[i] \in Nat
    BY <1>1, <2>1
  <2>3. i <= k - 1 => B[i] <= B[k - 1]
    BY <1>3
  <2>4. i <= k => B[i] <= B[k]
    <3>1. CASE i = k
      BY <2>2, <3>1
    <3>2. CASE i # k
      BY <2>1, <2>2, <2>3, <3>2
    <3> QED BY <3>1, <3>2
  <2> QED BY <2>1, <2>4
<1>4. \A k \in 0..Len(lens) : k \in T
  <2> HIDE DEF T
  <2> QED BY <1>1, <1>2, <1>3, Climb
<1> QED BY <1>4 DEF B

-----------------------------------------------------------------------------
\* The last packet of an URB exists, whatever the lengths.
LEMMA EndingHasLast ==
    ASSUME TransfersAssumption, NEW lens \in Seq(Nat), NEW from \in 0..Len(lens)
    PROVE  \E k \in Iso!Ending(lens, from) : \A j \in Iso!Ending(lens, from) : j <= k
<1> DEFINE E == Iso!Ending(lens, from)
           T == {Len(lens) - k : k \in E}
<1>1. Len(lens) \in Nat /\ MAX_ISO_BUFFER_LENGTH \in Nat
  BY DEF TransfersAssumption
<1>2. E \subseteq from..Len(lens) /\ from \in E
  <2>1. Iso!Before(lens)[from] \in Nat
    BY BeforeIs
  <2>2. from \in from..Len(lens) /\ Iso!Before(lens)[from] - Iso!Before(lens)[from] = 0
    BY <1>1, <2>1
  <2> QED BY <1>1, <2>2 DEF Iso!Ending
<1> HIDE DEF E
<1>3. T \in SUBSET Nat /\ T # {}
  BY <1>1, <1>2
<1>4. PICK x \in T : \A y \in T : x <= y
  <2> HIDE DEF T
  <2> QED BY <1>3, LeastOf
<1>5. PICK k \in E : x = Len(lens) - k
  OBVIOUS
<1>6. ASSUME NEW j \in E PROVE j <= k
  <2>1. Len(lens) - j \in T
    OBVIOUS
  <2>2. Len(lens) - k <= Len(lens) - j
    BY <1>4, <1>5, <2>1
  <2>3. j \in Nat /\ k \in Nat
    BY <1>1, <1>2
  <2> QED BY <1>1, <2>2, <2>3
<1> QED BY <1>5, <1>6 DEF E

LEMMA SwallowedIs ==
    ASSUME TransfersAssumption, NEW lens \in Seq(Nat)
    PROVE  /\ Iso!Swallowed(lens) \in [0..Iso!num_urbs(lens) -> 0..Len(lens)]
           /\ Iso!Swallowed(lens)[0] = 0
           /\ \A i \in 1..Iso!num_urbs(lens) :
                LET E == Iso!Ending(lens, Iso!Swallowed(lens)[i - 1])
                IN /\ Iso!Swallowed(lens)[i] \in E
                   /\ \A j \in E : j <= Iso!Swallowed(lens)[i]
<1> DEFINE E(from) == Iso!Ending(lens, from)
           last(from) == CHOOSE k \in E(from) : \A j \in E(from) : j <= k
           n == Iso!num_urbs(lens)
           D == 0..Len(lens)
           Good(f) == f = [i \in 0..n |-> IF i = 0 THEN 0 ELSE last(f[i - 1])]
           F == [x \in D \X (1..n) |-> last(x[1])]
           S == Iso!Swallowed(lens)
<1>1. n \in Nat /\ Len(lens) \in Nat
  BY IsoHasUrbs
<1>2. \A from \in D : /\ last(from) \in E(from) /\ \A j \in E(from) : j <= last(from)
                      /\ last(from) \in D
  <2> SUFFICES ASSUME NEW from \in D
               PROVE  /\ last(from) \in E(from) /\ \A j \in E(from) : j <= last(from)
                      /\ last(from) \in D
    OBVIOUS
  <2>1. \E k \in E(from) : \A j \in E(from) : j <= k
    BY EndingHasLast
  <2>2. E(from) \subseteq D
    BY <1>1 DEF Iso!Ending
  <2> HIDE DEF E, D
  <2> QED BY <2>1, <2>2, Zenon
<1>3. S = CHOOSE f : Good(f)
  BY Zenon DEF Iso!Swallowed
<1> HIDE DEF n, last, D
<1>4. F \in [D \X (1..n) -> D] /\ \A a \in D, k \in 1..n : F[<<a, k>>] = last(a)
  BY <1>1, <1>2
<1> HIDE DEF F
<1>5. 0 \in D
  BY <1>1 DEF D
<1>6. PICK f \in [0..n -> D] : Runs(f, n, 0, F)
  BY <1>1, <1>4, <1>5, Recursion
<1>7. Good(f)
  <2>1. ASSUME NEW i \in 0..n PROVE f[i] = IF i = 0 THEN 0 ELSE last(f[i - 1])
    <3>1. CASE i # 0
      <4>1. i \in 1..n /\ i - 1 \in 0..n
        BY <1>1, <3>1
      <4>2. f[i - 1] \in D
        BY <4>1
      <4> QED BY <1>4, <1>6, <3>1, <4>1, <4>2 DEF Runs
    <3> QED BY <1>6, <3>1 DEF Runs
  <2> QED BY <2>1
<1>8. Good(S)
  <2> HIDE DEF Good, S
  <2> QED BY <1>3, <1>7, Zenon
<1> HIDE DEF S
<1>9. S[0] = 0 /\ (\A i \in 1..n : S[i] = last(S[i - 1])) /\ S = [i \in 0..n |-> S[i]]
  <2>1. 0 \in 0..n /\ \A i \in 1..n : i \in 0..n /\ i # 0
    BY <1>1
  <2>2. S = [i \in 0..n |-> S[i]]
    BY <1>8, Zenon
  <2> QED BY <1>8, <2>1, <2>2, Zenon
<1>10. \A i \in 0..n : S[i] \in D
  <2> DEFINE T == {i \in 0..n : S[i] \in D}
  <2>1. 0 \in T
    BY <1>1, <1>5, <1>9
  <2>2. ASSUME NEW i \in 1..n, i - 1 \in T PROVE i \in T
    <3>1. i \in 0..n
      BY <1>1
    <3>2. S[i] \in D
      BY <1>2, <1>9, <2>2, Zenon
    <3> QED BY <3>1, <3>2
  <2>3. \A i \in 0..n : i \in T
    <3> HIDE DEF T
    <3> QED BY <1>1, <2>1, <2>2, Climb
  <2> QED BY <2>3
<1>11. S \in [0..n -> D]
  <2>1. [i \in 0..n |-> S[i]] \in [0..n -> D]
    BY <1>10
  <2> QED BY <1>9, <2>1, Zenon
<1>12. ASSUME NEW i \in 1..n
       PROVE  S[i] \in E(S[i - 1]) /\ \A j \in E(S[i - 1]) : j <= S[i]
  <2>1. i - 1 \in 0..n
    BY <1>1
  <2>2. S[i - 1] \in D /\ S[i] = last(S[i - 1])
    BY <1>9, <1>10, <2>1
  <2> QED BY <1>2, <2>2, Zenon
<1> QED BY <1>9, <1>11, <1>12, Zenon DEF S, n, D, E

-----------------------------------------------------------------------------
\* What the first loop has counted after k packets.
LEMMA CountedSoFar ==
    ASSUME NEW lens \in Seq(Nat)
    PROVE  LET c == Iso!Counts(lens)
           IN /\ c[0] = [n |-> 1, used |-> 0]
              /\ \A k \in 1..Len(lens) : c[k] = Iso!CountPacket(c[k - 1], lens[k])
              /\ \A k \in 0..Len(lens) : /\ c[k].n \in 1..Iso!num_urbs(lens)
                                         /\ c[k].used \in Nat
<1> DEFINE c == Iso!Counts(lens)
           z == Len(lens)
           N == Iso!num_urbs(lens)
           Typed == {k \in 0..z : c[k].n \in Nat \ {0} /\ c[k].used \in Nat}
           Below == {k \in 0..z : c[z - k].n <= N}
<1>1. c = [k \in 0..z |-> IF k = 0 THEN [n |-> 1, used |-> 0]
                          ELSE Iso!CountPacket(c[k - 1], lens[k])]
  BY CountsIs
<1>2. z \in Nat /\ \A k \in 1..z : lens[k] \in Nat
  OBVIOUS
<1>3. N = c[z].n
  BY DEF Iso!num_urbs
<1> HIDE DEF c, z, N
<1>4. c[0] = [n |-> 1, used |-> 0] /\ \A k \in 1..z : c[k] = Iso!CountPacket(c[k - 1], lens[k])
  <2>1. 0 \in 0..z /\ \A k \in 1..z : k \in 0..z /\ k # 0
    BY <1>2
  <2> QED BY <1>1, <2>1, Zenon
<1>5. \A k \in 1..z : k - 1 \in 0..z /\ k \in 0..z
  BY <1>2
<1>6. ASSUME NEW k \in 1..z, c[k - 1].n \in Nat \ {0}, c[k - 1].used \in Nat
      PROVE  c[k].n \in Nat \ {0} /\ c[k].used \in Nat /\ c[k - 1].n <= c[k].n
  <2>1. c[k] = Iso!CountPacket(c[k - 1], lens[k]) /\ lens[k] \in Nat
    BY <1>2, <1>4
  <2>2. PICK m \in Nat \ {0}, u \in Nat, p \in Nat :
           m = c[k - 1].n /\ u = c[k - 1].used /\ p = lens[k]
    BY <1>6, <2>1
  <2>3. c[k] = [n |-> m + 1, used |-> p] \/ c[k] = [n |-> m, used |-> u + p]
    BY <2>1, <2>2 DEF Iso!CountPacket
  <2>4. (c[k].n = m + 1 /\ c[k].used = p) \/ (c[k].n = m /\ c[k].used = u + p)
    BY <2>3
  <2>5. m + 1 \in Nat \ {0} /\ u + p \in Nat /\ m <= m + 1 /\ m <= m
    OBVIOUS
  <2> QED BY <2>2, <2>4, <2>5
<1>7. \A k \in 0..z : k \in Typed
  <2>1. 0 \in Typed
    BY <1>2, <1>4
  <2>2. ASSUME NEW k \in 1..z, k - 1 \in Typed PROVE k \in Typed
    BY <1>5, <1>6, <2>2
  <2> HIDE DEF Typed
  <2> QED BY <1>2, <2>1, <2>2, Climb
<1>8. \A k \in 0..z : k \in Below
  <2>1. 0 \in Below
    <3>1. z \in 0..z /\ z - 0 = z /\ 0 \in 0..z
      BY <1>2
    <3>2. c[z].n \in Nat /\ N <= N
      BY <1>3, <1>7, <3>1
    <3> QED BY <1>3, <3>1, <3>2
  <2>2. ASSUME NEW k \in 1..z, k - 1 \in Below PROVE k \in Below
    <3>1. z - k + 1 \in 1..z /\ (z - k + 1) - 1 = z - k /\ z - (k - 1) = z - k + 1 /\ k \in 0..z
          /\ z - k \in 0..z /\ z \in 0..z /\ z - k + 1 \in 0..z
      BY <1>2
    <3> DEFINE m == z - k + 1
    <3>2. c[m - 1].n \in Nat \ {0} /\ c[m - 1].used \in Nat /\ c[m].n \in Nat /\ N \in Nat
      BY <1>3, <1>7, <3>1
    <3>3. c[m].n <= N
      BY <2>2, <3>1
    <3>4. m \in 1..z /\ m - 1 = z - k
      BY <3>1
    <3> HIDE DEF m
    <3>5. c[m - 1].n <= c[m].n
      BY <1>6, <3>2, <3>4
    <3>6. c[z - k].n <= N
      BY <3>2, <3>3, <3>4, <3>5
    <3> QED BY <3>1, <3>6
  <2> HIDE DEF Below
  <2> QED BY <1>2, <2>1, <2>2, Climb
<1>9. ASSUME NEW k \in 0..z PROVE c[k].n \in 1..N /\ c[k].used \in Nat
  <2>1. z - k \in 0..z /\ z - (z - k) = k /\ z \in 0..z
    BY <1>2
  <2>2. z - k \in Below
    BY <1>8, <2>1
  <2>3. c[k].n <= N
    BY <2>1, <2>2
  <2>4. c[k].n \in Nat \ {0} /\ c[k].used \in Nat /\ N \in Nat
    BY <1>3, <1>7, <2>1
  <2> QED BY <2>3, <2>4
<1> QED BY <1>4, <1>9 DEF c, z, N

\* While no packet is larger than an URB, the URB the first loop counts in is
\* the one the second loop fills, and it holds as many bytes.
LEMMA LoopsAgree ==
    ASSUME TransfersAssumption, NEW lens \in Seq(Nat),
           \A k \in 1..Len(lens) : lens[k] <= MAX_ISO_BUFFER_LENGTH
    PROVE  Iso!Swallowed(lens)[Iso!num_urbs(lens)] = Len(lens)
<1> DEFINE c == Iso!Counts(lens)
           B == Iso!Before(lens)
           S == Iso!Swallowed(lens)
           N == Iso!num_urbs(lens)
           z == Len(lens)
           Same(k) == /\ S[c[k].n - 1] <= k
                      /\ B[k] - B[S[c[k].n - 1]] = c[k].used
                      /\ c[k].used <= MAX_ISO_BUFFER_LENGTH
           T == {k \in 0..z : Same(k)}
<1>1. PICK M \in Nat : M = MAX_ISO_BUFFER_LENGTH
  BY DEF TransfersAssumption
<1>2. z \in Nat /\ N \in Nat \ {0} /\ \A k \in 1..z : lens[k] \in Nat /\ lens[k] <= M
  BY <1>1, IsoHasUrbs
<1>3. /\ c[0] = [n |-> 1, used |-> 0]
      /\ \A k \in 1..z : c[k] = Iso!CountPacket(c[k - 1], lens[k])
      /\ \A k \in 0..z : c[k].n \in 1..N /\ c[k].used \in Nat
  BY CountedSoFar
<1>4. /\ B[0] = 0 /\ (\A k \in 1..z : B[k] = B[k - 1] + lens[k])
      /\ \A k \in 0..z : B[k] \in Nat
  BY BeforeIs
<1>5. \A i, j \in 0..z : i <= j => B[i] <= B[j]
  BY BeforeGrows
<1>6. /\ S[0] = 0 /\ (\A i \in 0..N : S[i] \in 0..z)
      /\ \A i \in 1..N : /\ S[i] \in Iso!Ending(lens, S[i - 1])
                         /\ \A j \in Iso!Ending(lens, S[i - 1]) : j <= S[i]
  BY SwallowedIs
<1>7. \A from, k : k \in Iso!Ending(lens, from) <=> k \in from..z /\ B[k] - B[from] <= M
  BY <1>1 DEF Iso!Ending
<1>8. c[z].n = N
  BY DEF Iso!num_urbs
<1> HIDE DEF c, B, S, N, z
<1>9. 0 \in T
  <2>1. 0 \in 0..z /\ c[0].n = 1 /\ c[0].used = 0 /\ 1 - 1 = 0
    BY <1>2, <1>3
  <2>2. S[c[0].n - 1] = 0 /\ B[0] - B[0] = 0
    BY <1>4, <1>6, <2>1
  <2> QED BY <1>1, <2>1, <2>2
<1>10. ASSUME NEW k \in 1..z, k - 1 \in T PROVE k \in T
  <2>1. PICK j \in 0..z : j = k - 1 /\ k = j + 1
    BY <1>2
  <2>2. PICK m \in 1..N : m = c[j].n
    BY <1>3
  <2>3. PICK used \in Nat : used = c[j].used
    BY <1>3
  <2>4. k \in 0..z /\ m - 1 \in 0..N
    BY <1>2
  <2>5. PICK from \in 0..z : from = S[m - 1]
    BY <1>6, <2>4
  <2>6. PICK p \in Nat : p = lens[k] /\ p <= M
    BY <1>2
  <2>7. PICK bj \in Nat, bf \in Nat, bk \in Nat : bj = B[j] /\ bf = B[from] /\ bk = B[k]
    BY <1>4, <2>4
  <2>8. /\ from <= j /\ bj - bf = used /\ used <= M
        /\ B[j] - B[from] = used /\ bk = bj + p
    <3>1. from <= j /\ B[j] - B[from] = used /\ used <= M
      BY <1>1, <1>10, <2>1, <2>2, <2>3, <2>5
    <3>2. bk = bj + p
      BY <1>4, <2>1, <2>6, <2>7
    <3> QED BY <2>7, <3>1, <3>2
  <2>9. c[k] = Iso!CountPacket(c[j], p)
    BY <1>3, <2>1, <2>6
  <2>10. CASE p <= M - used
    <3>1. c[k] = [n |-> m, used |-> used + p]
      BY <1>1, <2>2, <2>3, <2>9, <2>10 DEF Iso!CountPacket, Iso!Fits
    <3>2. c[k].n = m /\ c[k].used = used + p
      BY <3>1
    <3>3. from <= k /\ bk - bf = used + p /\ used + p <= M
      BY <2>1, <2>8, <2>10
    <3>4. B[k] - B[from] = used + p
      BY <2>7, <3>3
    <3> QED BY <1>1, <2>4, <2>5, <3>2, <3>3, <3>4
  <2>11. CASE ~(p <= M - used)
    <3>1. c[k] = [n |-> m + 1, used |-> p]
      BY <1>1, <2>2, <2>3, <2>8, <2>9, <2>11 DEF Iso!CountPacket, Iso!Fits
    <3>2. c[k].n = m + 1 /\ c[k].used = p /\ (m + 1) - 1 = m
      BY <3>1
    <3>3. j \in Iso!Ending(lens, from)
      <4>1. j \in from..z /\ B[j] - B[from] <= M
        BY <1>2, <2>8
      <4> QED BY <1>7, <4>1
    <3>4. j <= S[m]
      BY <1>6, <2>5, <3>3
    <3>5. S[m] \in Iso!Ending(lens, from) /\ S[m] \in 0..z
      <4>1. m \in 0..N
        BY <1>2
      <4> QED BY <1>6, <2>5, <4>1
    <3>6. PICK bs \in Nat : bs = B[S[m]] /\ bs - bf <= M
      BY <1>4, <1>7, <2>7, <3>5
    <3>7. ~(k <= S[m])
      <4>1. k <= S[m] => B[k] <= B[S[m]]
        BY <1>5, <2>4, <3>5
      <4>2. ~(bk <= bs)
        BY <2>8, <2>11, <3>6
      <4> QED BY <2>7, <3>6, <4>1, <4>2
    <3>8. S[m] = j
      BY <2>1, <3>4, <3>5, <3>7
    <3>9. j <= k /\ bk - bj = p /\ B[k] - B[j] = p
      BY <2>1, <2>7, <2>8
    <3> QED BY <1>1, <2>4, <2>6, <3>2, <3>8, <3>9
  <2> QED BY <2>10, <2>11
<1>11. z \in T
  <2>1. \A k \in 0..z : k \in T
    <3> HIDE DEF T
    <3> QED BY <1>2, <1>9, <1>10, Climb
  <2> QED BY <1>2, <2>1
<1>12. S[N - 1] <= z /\ B[z] - B[S[N - 1]] <= M
  BY <1>1, <1>8, <1>11
<1>13. N - 1 \in 0..N /\ N \in 1..N /\ N \in 0..N
  BY <1>2
<1>14. z \in Iso!Ending(lens, S[N - 1])
  <2>1. PICK from \in 0..z : from = S[N - 1]
    BY <1>6, <1>13
  <2>2. from <= z /\ B[z] - B[from] <= M
    BY <1>12, <2>1
  <2>3. z \in from..z
    BY <1>2, <2>2
  <2> QED BY <1>7, <2>1, <2>2, <2>3
<1>15. z <= S[N] /\ S[N] \in 0..z
  BY <1>6, <1>13, <1>14
<1>16. S[N] = z
  BY <1>2, <1>15
<1> QED BY <1>16 DEF S, N, z

\* Intervals that follow each other make one.
LEMMA Flattened ==
    ASSUME NEW z \in Nat, NEW e \in [0..z -> Nat], e[0] = 0,
           \A i \in 1..z : e[i - 1] <= e[i],
           NEW seqs, seqs = [i \in 1..z |-> Interval(e[i - 1] + 1, e[i])]
    PROVE  Iso!FlattenSeq(seqs) = Interval(1, e[z])
<1>1. Len(seqs) = z
  <2>1. seqs = [i \in 1..z |-> seqs[i]] /\ Len(seqs) = z
    <3>1. seqs = [i \in 1..z |-> seqs[i]]
      BY Zenon
    <3> QED BY <3>1, LenIs
  <2> QED BY <2>1
<1>2. CASE z = 0
  <2>1. seqs = <<>>
    BY <1>2, EmptySeq
  <2>2. Interval(0 + 1, 0) = <<>>
    BY IntervalEmpty
  <2>3. Iso!FlattenSeq(seqs) = seqs
    BY <1>1, <1>2 DEF Iso!FlattenSeq
  <2> QED BY <1>2, <2>1, <2>2, <2>3
<1>3. CASE z # 0
  <2> DEFINE Good(f) == f = [i \in 1..z |-> IF i = 1 THEN seqs[i] ELSE f[i - 1] \o seqs[i]]
             flatten == CHOOSE f : Good(f)
             g == [i \in 1..z |-> Interval(1, e[i])]
  <2>1. \A i \in 1..z : seqs[i] = Interval(e[i - 1] + 1, e[i])
    BY Zenon
  <2>2. ASSUME NEW i \in 1..z
        PROVE  i # 1 => Interval(1, e[i - 1]) \o Interval(e[i - 1] + 1, e[i]) = Interval(1, e[i])
    <3>1. i - 1 \in 0..z /\ i \in 0..z
      OBVIOUS
    <3>2. e[i - 1] \in Nat /\ e[i] \in Nat /\ e[i - 1] <= e[i] /\ 1 <= e[i - 1] + 1
      <4>1. e[i - 1] \in Nat /\ e[i] \in Nat /\ e[i - 1] <= e[i]
        BY <3>1
      <4> QED BY <4>1
    <3>3. 1 \in Nat
      OBVIOUS
    <3> QED BY <3>2, <3>3, IntervalJoins
  <2>3. \A i \in 1..z : i # 1 => i - 1 \in 1..z
    OBVIOUS
  <2>4. 1 \in 1..z /\ z \in 1..z /\ 1 - 1 = 0
    BY <1>3
  <2>5. seqs[1] = Interval(1, e[1])
    BY <2>1, <2>4
  <2>6. Good(g)
    <3>1. ASSUME NEW i \in 1..z
          PROVE  g[i] = IF i = 1 THEN seqs[i] ELSE g[i - 1] \o seqs[i]
      <4>1. g[i] = Interval(1, e[i])
        BY Zenon
      <4>2. CASE i = 1
        BY <2>5, <4>1, <4>2, Zenon
      <4>3. CASE i # 1
        <5>1. g[i - 1] = Interval(1, e[i - 1])
          BY <2>3, <4>3, Zenon
        <5> QED BY <2>1, <2>2, <4>1, <4>3, <5>1, Zenon
      <4> QED BY <4>2, <4>3
    <3>2. g = [i \in 1..z |-> g[i]]
      BY Zenon
    <3> HIDE DEF g
    <3> QED BY <3>1, <3>2, Zenon
  <2>7. Good(flatten)
    <3> HIDE DEF Good, g
    <3> QED BY <2>6, Zenon
  <2>8. Iso!FlattenSeq(seqs) = flatten[z]
    BY <1>1, <1>3, Zenon DEF Iso!FlattenSeq
  <2> HIDE DEF flatten
  <2>9. \A i \in 1..z : flatten[i] = Interval(1, e[i])
    <3> DEFINE T == {0} \cup {i \in 1..z : flatten[i] = Interval(1, e[i])}
    <3>1. ASSUME NEW i \in 1..z, i - 1 \in T PROVE i \in T
      <4>1. flatten[i] = IF i = 1 THEN seqs[i] ELSE flatten[i - 1] \o seqs[i]
        BY <2>7, Zenon
      <4>2. CASE i = 1
        BY <2>5, <4>1, <4>2
      <4>3. CASE i # 1
        <5>1. i - 1 \in 1..z /\ i - 1 # 0
          BY <4>3
        <5>2. flatten[i - 1] = Interval(1, e[i - 1])
          BY <3>1, <5>1
        <5>3. flatten[i] = Interval(1, e[i])
          BY <2>1, <2>2, <4>1, <4>3, <5>2, Zenon
        <5> QED BY <5>3
      <4> QED BY <4>2, <4>3
    <3>2. \A i \in 0..z : i \in T
      <4>1. 0 \in T
        OBVIOUS
      <4> HIDE DEF T
      <4> QED BY <3>1, <4>1, Climb
    <3>3. ASSUME NEW i \in 1..z PROVE flatten[i] = Interval(1, e[i])
      <4>1. i \in 0..z /\ i # 0
        OBVIOUS
      <4> QED BY <3>2, <4>1
    <3> QED BY <3>3
  <2> QED BY <2>4, <2>8, <2>9
<1> QED BY <1>2, <1>3

-----------------------------------------------------------------------------
\* The packets of the URBs end at e[1], e[2], ..., and if each packet fits in
\* an URB the last of them ends with the last packet.
Cut(e) ==
    /\ e \in [0..Len(urbs) -> 0..Len(length)] /\ e[0] = 0
    /\ \A i \in 1..Len(urbs) : /\ e[i - 1] <= e[i]
                               /\ urbs[i].packets = Interval(e[i - 1] + 1, e[i])
    /\ (\A k \in 1..Len(length) : length[k] <= MAX_ISO_BUFFER_LENGTH) =>
         e[Len(urbs)] = Len(length)

\* The results of the a URBs retired are in the descriptors of their packets,
\* unless one of them failed.
Copied(a, e) ==
    /\ iso_packet_offset \in Nat /\ iso_packet_offset <= e[a]
    /\ (\A i \in 1..a : urbs[i].status = "OK") =>
         /\ iso_packet_offset = e[a]
         /\ \A k \in 1..e[a] : desc[k] = k
    /\ result = "COMPLETED" => a = Len(urbs)

Ahead(a) == \A i \in 1..Len(urbs) : urbs[i].st = "reaped" <=> i <= a

PacketsInv ==
    /\ length \in Seq(Nat) /\ Len(urbs) \in Nat
    /\ desc \in [1..Len(length) -> 0..Len(length)]
    /\ \E a \in 0..Len(urbs) : \E e : Ahead(a) /\ Cut(e) /\ Copied(a, e)

LEMMA SubmittedPackets ==
    ASSUME TransfersAssumption, NEW lens \in PacketLists, Iso!Submit(lens) PROVE PacketsInv'
<1> DEFINE z == Iso!num_urbs(lens)
           S == Iso!Swallowed(lens)
<1>1. lens \in Seq(Nat) /\ Len(lens) \in Nat
  BY DEF TransfersAssumption
<1>2. z \in Nat
  BY <1>1, IsoHasUrbs
<1>3. /\ S \in [0..z -> 0..Len(lens)] /\ S[0] = 0
      /\ \A i \in 1..z : S[i] \in Iso!Ending(lens, S[i - 1])
  BY <1>1, SwallowedIs
<1>4. /\ urbs' = [i \in 1..z |-> [st |-> "new", status |-> "OK", packets |-> Iso!Fill(lens)[i]]]
      /\ length' = lens /\ desc' = [k \in 1..Len(lens) |-> 0] /\ iso_packet_offset' = 0
      /\ result' = "none"
  <2>1. /\ urbs' = [i \in 1..z |-> [st |-> "new", status |-> "OK", packets |-> Iso!Fill(lens)[i]]]
        /\ length' = lens /\ desc' = [k \in 1..Len(lens) |-> 0]
    BY Zenon DEF Iso!Submit
  <2> QED BY <2>1 DEF Iso!Submit
<1>5. Iso!Fill(lens) = [i \in 1..z |-> [k \in 1..(S[i] - S[i - 1]) |-> S[i - 1] + k]]
  BY Zenon DEF Iso!Fill
<1>6. (\A k \in 1..Len(lens) : lens[k] <= MAX_ISO_BUFFER_LENGTH) => S[z] = Len(lens)
  BY <1>1, LoopsAgree
<1> HIDE DEF z, S
<1>7. urbs' = [i \in 1..z |-> urbs'[i]]
  BY <1>4, Zenon
<1>8. Len(urbs') = z
  BY <1>2, <1>7, LenIs
<1>9. ASSUME NEW i \in 1..z
      PROVE  /\ S[i - 1] <= S[i] /\ urbs'[i].packets = Interval(S[i - 1] + 1, S[i])
             /\ urbs'[i].st = "new"
  <2>1. i - 1 \in 0..z /\ i \in 0..z
    BY <1>2
  <2>2. PICK m \in 0..Len(lens), n \in 0..Len(lens) : m = S[i - 1] /\ n = S[i]
    BY <1>3, <2>1
  <2>3. n \in m..Len(lens)
    BY <1>3, <2>2 DEF Iso!Ending
  <2>4. urbs'[i] = [st |-> "new", status |-> "OK", packets |-> Iso!Fill(lens)[i]]
    BY <1>4, Zenon
  <2>5. Iso!Fill(lens)[i] = [k \in 1..(n - m) |-> m + k]
    BY <1>5, <2>2, Zenon
  <2>6. [k \in 1..(n - m) |-> m + k] = Interval(m + 1, n)
    <3>1. n - (m + 1) + 1 = n - m /\ \A k \in 1..(n - m) : (m + 1) + k - 1 = m + k
      BY <1>1, <2>3
    <3> QED BY <3>1 DEF Interval
  <2>7. urbs'[i].packets = Iso!Fill(lens)[i] /\ urbs'[i].st = "new"
    BY <2>4
  <2> QED BY <1>1, <2>2, <2>3, <2>5, <2>6, <2>7
<1>10. Cut(S)'
  BY <1>3, <1>4, <1>6, <1>8, <1>9 DEF Cut
<1>11. Copied(0, S)'
  BY <1>3, <1>4 DEF Copied
<1>12. Ahead(0)'
  BY <1>2, <1>8, <1>9 DEF Ahead
<1>13. desc' \in [1..Len(lens) -> 0..Len(lens)]
  BY <1>1, <1>4
<1>14. (\E a \in 0..Len(urbs) : \E e : Ahead(a) /\ Cut(e) /\ Copied(a, e))'
  <2>1. 0 \in 0..Len(urbs')
    BY <1>2, <1>8
  <2> QED BY <1>10, <1>11, <1>12, <2>1
<1> QED BY <1>1, <1>2, <1>4, <1>8, <1>13, <1>14 DEF PacketsInv

\* Steps that retire no URB.
LEMMA KeptPackets ==
    ASSUME PacketsInv, Len(urbs') = Len(urbs),
           \A i \in 1..Len(urbs) :
             /\ urbs'[i].packets = urbs[i].packets
             /\ urbs'[i].st = "reaped" <=> urbs[i].st = "reaped"
             /\ urbs[i].st = "reaped" => urbs'[i].status = urbs[i].status,
           UNCHANGED <<length, desc, iso_packet_offset>>,
           result' = result \/ result' # "COMPLETED"
    PROVE  PacketsInv'
<1>0. PICK a \in 0..Len(urbs) : \E e : Ahead(a) /\ Cut(e) /\ Copied(a, e)
  BY DEF PacketsInv
<1>1. PICK e : Ahead(a) /\ Cut(e) /\ Copied(a, e)
  BY <1>0
<1>2. Len(urbs) \in Nat
  BY DEF PacketsInv
<1>3. Ahead(a)'
  BY <1>1 DEF Ahead
<1>4. Cut(e)'
  BY <1>1 DEF Cut
<1>5. \A i \in 1..a : urbs'[i].status = urbs[i].status
  <2> SUFFICES ASSUME NEW i \in 1..a PROVE urbs'[i].status = urbs[i].status
    OBVIOUS
  <2>1. i \in 1..Len(urbs) /\ i <= a
    BY <1>2
  <2> QED BY <1>1, <2>1 DEF Ahead
<1>6. Copied(a, e)'
  BY <1>1, <1>5 DEF Copied
<1>7. (\E x \in 0..Len(urbs) : \E y : Ahead(x) /\ Cut(y) /\ Copied(x, y))'
  BY <1>1, <1>3, <1>4, <1>6
<1> QED BY <1>2, <1>7 DEF PacketsInv

\* Steps of the submitting thread and of the kernel.
LEMMA KernelPackets ==
    ASSUME IsoInv, PacketsInv,
           \/ Iso!SubmitUrb \/ Iso!DiscardUrb \/ Iso!Unplug \/ \E s : Iso!UrbEnds(s)
    PROVE  PacketsInv'
<1>1. PICK a, b, c \in 0..Len(urbs) : Progress(a, b, c)
  BY DEF IsoInv
<1>2. /\ Len(urbs) \in Nat /\ a \in Nat /\ b \in Nat /\ c \in Nat /\ Phases(a, b, c)
      /\ a <= b /\ b <= c /\ c <= Len(urbs) /\ urbs = [i \in 1..Len(urbs) |-> urbs[i]]
      /\ \A i \in 1..Len(urbs) : urbs[i].st = Phase(i, a, b, c)
  BY <1>1 DEF Progress, Phases
<1>3. Iso!Queued = (b + 1)..c
  BY <1>2, QueuedIs
<1>4. \A i \in 1..Len(urbs) : IsoUrb(urbs[i])
  BY DEF IsoInv
<1>5. \A i \in 1..Len(urbs) : i > b => urbs[i].st # "reaped"
  BY <1>2 DEF Phase
<1> DEFINE Keeps == /\ Len(urbs') = Len(urbs)
                    /\ \A i \in 1..Len(urbs) :
                         /\ urbs'[i].packets = urbs[i].packets
                         /\ urbs'[i].st = "reaped" <=> urbs[i].st = "reaped"
                         /\ urbs[i].st = "reaped" => urbs'[i].status = urbs[i].status
<1>6. ASSUME NEW d \in (b + 1)..c, NEW s, Iso!Ends(d, s) PROVE Keeps
  <2>1. /\ Len(urbs') = Len(urbs) /\ \A i \in 1..Len(urbs) : i # d => urbs'[i] = urbs[i]
        /\ urbs'[d].st = "done" /\ urbs'[d].packets = urbs[d].packets
    BY <1>2, <1>4, <1>6, IsoEnds
  <2>2. urbs[d].st # "reaped"
    BY <1>2, <1>5
  <2> QED BY <2>1, <2>2
<1>7. ASSUME Keeps, UNCHANGED <<length, desc, iso_packet_offset, result>> PROVE PacketsInv'
  BY <1>7, KeptPackets
<1>8. CASE Iso!SubmitUrb
  <2>1. /\ lock = "submit" /\ UNCHANGED <<length, desc, iso_packet_offset, result>>
    BY <1>8 DEF Iso!SubmitUrb, Iso!tpriv, Iso!user
  <2>2. c < Len(urbs) /\ todo = Interval(c + 1, Len(urbs))
    BY <1>1, <2>1 DEF Progress, Looping
  <2>3. PICK j \in 1..Len(urbs) : j = Head(todo) /\ j > b
    <3>1. c + 1 \in Nat /\ c + 1 <= Len(urbs)
      BY <1>2, <2>2
    <3>2. Head(Interval(c + 1, Len(urbs))) = c + 1
      BY <1>2, <3>1, IntervalSplits
    <3> QED BY <1>2, <2>2, <3>1, <3>2
  <2>4. /\ Len(urbs') = Len(urbs) /\ \A i \in 1..Len(urbs) : i # j => urbs'[i] = urbs[i]
        /\ urbs'[j].st = "queued" /\ urbs'[j].packets = urbs[j].packets
    <3>1. urbs' = WithState(urbs, j, "queued")
      BY <1>8, <2>3 DEF Iso!SubmitUrb, WithState
    <3>2. /\ Len(WithState(urbs, j, "queued")) = Len(urbs)
          /\ \A i \in 1..Len(urbs) : i # j => WithState(urbs, j, "queued")[i] = urbs[i]
          /\ WithState(urbs, j, "queued")[j].st = "queued"
          /\ WithState(urbs, j, "queued")[j].packets = urbs[j].packets
      BY <1>2, <1>4, IsoStateChanges
    <3> QED BY <3>1, <3>2, Zenon
  <2>5. Keeps
    <3>1. urbs[j].st # "reaped"
      BY <1>5, <2>3
    <3> QED BY <2>4, <3>1
  <2> QED BY <1>7, <2>1, <2>5
<1>9. CASE Iso!DiscardUrb
  <2>1. UNCHANGED <<length, desc, iso_packet_offset, result>>
    BY <1>9 DEF Iso!DiscardUrb, Iso!tpriv, Iso!user
  <2>2. CASE Head(todo) \in (b + 1)..c
    <3>1. PICK d \in (b + 1)..c : d = Head(todo)
      BY <2>2
    <3>2. Iso!Ends(d, "ENOENT")
      BY <1>3, <1>9, <2>2, <3>1, Zenon DEF Iso!DiscardUrb
    <3>3. Keeps
      BY <1>6, <3>2
    <3> QED BY <1>7, <2>1, <3>3
  <2>3. CASE Head(todo) \notin (b + 1)..c
    <3>1. urbs' = urbs
      BY <1>3, <1>9, <2>3 DEF Iso!DiscardUrb
    <3> QED BY <1>7, <2>1, <3>1
  <2> QED BY <2>2, <2>3
<1>10. CASE Iso!Unplug
  <2>1. UNCHANGED <<length, desc, iso_packet_offset, result>>
    BY <1>10 DEF Iso!Unplug, Iso!tpriv, Iso!user
  <2> DEFINE u(i) == [st |-> "done", status |-> "EOTHER", packets |-> urbs[i].packets]
  <2>2. urbs' = [i \in 1..Len(urbs) |-> IF i \in (b + 1)..c THEN u(i) ELSE urbs[i]]
    BY <1>3, <1>10, Zenon DEF Iso!Unplug, Iso!N
  <2>3. \A i \in 1..Len(urbs) : u(i).st = "done" /\ u(i).packets = urbs[i].packets
    OBVIOUS
  <2> HIDE DEF u
  <2>4. urbs' = [i \in 1..Len(urbs) |-> urbs'[i]]
    BY <2>2, Zenon
  <2>5. Len(urbs') = Len(urbs)
    BY <1>2, <2>4, LenIs
  <2>6. \A i \in 1..Len(urbs) : IF i \in (b + 1)..c
                                THEN urbs'[i] = u(i) /\ urbs[i].st # "reaped"
                                ELSE urbs'[i] = urbs[i]
    <3>1. \A i \in (b + 1)..c : i > b
      BY <1>2
    <3> QED BY <1>5, <2>2, <3>1, Zenon
  <2>7. Keeps
    <3> SUFFICES ASSUME NEW i \in 1..Len(urbs)
                 PROVE  /\ urbs'[i].packets = urbs[i].packets
                        /\ urbs'[i].st = "reaped" <=> urbs[i].st = "reaped"
                        /\ urbs[i].st = "reaped" => urbs'[i].status = urbs[i].status
      BY <2>5
    <3>1. CASE i \in (b + 1)..c
      BY <2>3, <2>6, <3>1
    <3>2. CASE i \notin (b + 1)..c
      BY <2>6, <3>2
    <3> QED BY <3>1, <3>2
  <2> QED BY <1>7, <2>1, <2>7
<1>11. CASE \E s : Iso!UrbEnds(s)
  <2>1. PICK s : Iso!UrbEnds(s)
    BY <1>11
  <2>2. UNCHANGED <<length, desc, iso_packet_offset, result>>
    BY <2>1 DEF Iso!UrbEnds, Iso!tpriv, Iso!user
  <2>3. b # c /\ (CHOOSE i \in Iso!Queued : \A j \in Iso!Queued : i <= j) = b + 1
    <3>1. (b + 1)..c # {}
      BY <1>3, <2>1 DEF Iso!UrbEnds
    <3>2. b # c
      BY <1>2, <3>1
    <3> QED BY <1>2, <3>2, QueuedIs
  <2>4. PICK d \in (b + 1)..c : d = b + 1
    BY <1>2, <2>3
  <2>5. Iso!Ends(d, s)
    BY <2>1, <2>3, <2>4, Zenon DEF Iso!UrbEnds
  <2>6. Keeps
    BY <1>6, <2>5
  <2> QED BY <1>7, <2>2, <2>6
<1> QED BY <1>8, <1>9, <1>10, <1>11

LEMMA QuietPackets ==
    ASSUME PacketsInv,
           \/ Iso!UrbRefused \/ Iso!Cancel \/ Iso!Reap \/ Iso!HandleDisconnect \/ UNCHANGED vars
    PROVE  PacketsInv'
<1>1. /\ UNCHANGED <<urbs, length, desc, iso_packet_offset>>
      /\ result' = result \/ result' # "COMPLETED"
  <2>1. CASE Iso!UrbRefused
    BY <2>1 DEF Iso!UrbRefused, Iso!submitted
  <2>2. CASE Iso!Cancel
    BY <2>2 DEF Iso!Cancel, Iso!submitted
  <2>3. CASE Iso!Reap
    BY <2>3 DEF Iso!Reap, Iso!submitted, Iso!tpriv, Iso!user
  <2>4. CASE Iso!HandleDisconnect
    BY <2>4 DEF Iso!HandleDisconnect, Iso!submitted
  <2>5. CASE UNCHANGED vars
    BY <2>5 DEF vars, isoOnly, arrays
  <2> QED BY <2>1, <2>2, <2>3, <2>4, <2>5
<1> QED BY <1>1, KeptPackets

\* The URB retired is the next: its packets are those whose descriptors follow.
LEMMA HandledPackets ==
    ASSUME IsoInv, PacketsInv, Iso!HandleReap PROVE PacketsInv'
<1>0. PICK x \in 0..Len(urbs) : \E e : Ahead(x) /\ Cut(e) /\ Copied(x, e)
  BY DEF PacketsInv
<1>1. PICK e : Ahead(x) /\ Cut(e) /\ Copied(x, e)
  BY <1>0
<1>2. PICK a, b, c \in 0..Len(urbs) : Progress(a, b, c)
  BY DEF IsoInv
<1>3. /\ reaped # 0 /\ lock = "free" /\ UNCHANGED <<length>>
  BY DEF Iso!HandleReap
<1>4. /\ Len(urbs) \in Nat /\ a \in Nat /\ b \in Nat /\ c \in Nat
      /\ b <= c /\ c <= Len(urbs) /\ urbs = [i \in 1..Len(urbs) |-> urbs[i]]
      /\ reaped = a + 1 /\ a < b /\ allocated
      /\ \A i \in 1..Len(urbs) : urbs[i].st = Phase(i, a, b, c)
  BY <1>2, <1>3 DEF Progress, Phases, Reaping, Counted
<1>5. a = x
  <2>1. \A i \in 1..Len(urbs) : i <= a <=> i <= x
    BY <1>1, <1>4 DEF Ahead, Phase
  <2>2. a # 0 => a \in 1..Len(urbs)
    BY <1>4
  <2>3. x # 0 => x \in 1..Len(urbs)
    BY <1>4
  <2> QED BY <1>4, <2>1, <2>2, <2>3
<1>6. PICK j \in 1..Len(urbs) : j = reaped /\ j = a + 1 /\ j - 1 = a
  BY <1>4
<1>7. /\ Len(urbs') = Len(urbs) /\ \A i \in 1..Len(urbs) : i # j => urbs'[i] = urbs[i]
      /\ urbs'[j].st = "reaped" /\ urbs'[j].packets = urbs[j].packets
      /\ urbs'[j].status = urbs[j].status
  <2>1. urbs' = WithState(urbs, j, "reaped")
    BY <1>6 DEF Iso!HandleReap, WithState
  <2>2. /\ Len(WithState(urbs, j, "reaped")) = Len(urbs)
        /\ \A i \in 1..Len(urbs) : i # j => WithState(urbs, j, "reaped")[i] = urbs[i]
        /\ WithState(urbs, j, "reaped")[j].st = "reaped"
        /\ WithState(urbs, j, "reaped")[j].packets = urbs[j].packets
        /\ WithState(urbs, j, "reaped")[j].status = urbs[j].status
    <3>1. IsoUrb(urbs[j])
      BY DEF IsoInv
    <3> QED BY <1>4, <3>1, IsoStateChanges
  <2> QED BY <2>1, <2>2, Zenon
<1>8. \A i \in 1..Len(urbs) : /\ urbs'[i].packets = urbs[i].packets
                              /\ urbs'[i].status = urbs[i].status
  BY <1>7
<1>10. length \in Seq(Nat) /\ Len(length) \in Nat /\ desc \in [1..Len(length) -> 0..Len(length)]
  BY DEF PacketsInv
<1>9. PICK m \in Nat, n \in Nat : m = e[a] /\ n = e[j] /\ m <= n /\ n <= Len(length)
  <2>1. a \in 0..Len(urbs) /\ j \in 0..Len(urbs)
    BY <1>4
  <2>2. e[a] \in 0..Len(length) /\ e[j] \in 0..Len(length) /\ e[a] <= e[j]
    BY <1>1, <1>6, <2>1 DEF Cut
  <2>3. e[a] \in Nat /\ e[j] \in Nat /\ e[j] <= Len(length)
    BY <1>10, <2>2
  <2> QED BY <2>2, <2>3
<1>23. m <= n /\ n <= Len(length)
  BY <1>9
<1>24. urbs[j].packets = Interval(m + 1, n)
  BY <1>1, <1>6, <1>9 DEF Cut
<1>11. /\ Len(urbs[j].packets) = n - m
       /\ \A k \in 1..(n - m) : urbs[j].packets[k] = m + k
  <2>1. m + 1 \in Nat /\ m + 1 <= n + 1 /\ n - (m + 1) + 1 = n - m
    BY <1>23
  <2>2. /\ Len(Interval(m + 1, n)) = n - (m + 1) + 1
        /\ \A k \in 1..(n - (m + 1) + 1) : Interval(m + 1, n)[k] = (m + 1) + k - 1
    BY <2>1, IntervalIs
  <2>3. \A k \in 1..(n - m) : (m + 1) + k - 1 = m + k
    BY <2>1
  <2> QED BY <1>24, <2>1, <2>2, <2>3
<1>12. PICK f \in Nat : f = iso_packet_offset /\ f <= m
  BY <1>1, <1>5, <1>9 DEF Copied
<1> DEFINE t == IF urbs[j].status = "OK" THEN n - m ELSE 0
<1>13. /\ desc' = [k \in DOMAIN desc |-> IF k - f \in 1..t THEN urbs[j].packets[k - f] ELSE desc[k]]
       /\ iso_packet_offset' = f + t
  BY <1>6, <1>11, <1>12 DEF Iso!HandleReap, Iso!CopyResults
<1>14. t \in Nat /\ f + t <= n
  BY <1>10, <1>12, <1>23
<1>15. DOMAIN desc = 1..Len(length)
  BY <1>10
<1>16. desc' \in [1..Len(length) -> 0..Len(length)]
  <2>1. ASSUME NEW k \in 1..Len(length), k - f \in 1..t PROVE urbs[j].packets[k - f] \in 0..Len(length)
    <3>1. k - f \in 1..(n - m)
      BY <2>1, <1>23
    <3>2. urbs[j].packets[k - f] = m + (k - f)
      BY <1>11, <3>1
    <3>3. m + (k - f) \in 0..Len(length)
      <4>1. PICK y \in 1..(n - m) : y = k - f
        BY <3>1
      <4>2. m + y \in 0..Len(length)
        BY <1>10, <1>23
      <4> QED BY <4>1, <4>2
    <3> QED BY <3>2, <3>3
  <2> HIDE DEF t
  <2> QED BY <1>10, <1>13, <1>15, <2>1
<1>17. Ahead(j)'
  <2>1. \A i \in 1..Len(urbs) : urbs'[i].st = "reaped" <=> i <= j
    <3> SUFFICES ASSUME NEW i \in 1..Len(urbs) PROVE urbs'[i].st = "reaped" <=> i <= j
      OBVIOUS
    <3>1. CASE i = j
      BY <1>7, <3>1
    <3>2. CASE i # j
      <4>1. urbs'[i] = urbs[i] /\ (i <= a <=> i <= j)
        BY <1>4, <1>6, <1>7, <3>2
      <4> QED BY <1>1, <1>5, <4>1 DEF Ahead
    <3> QED BY <3>1, <3>2
  <2> QED BY <1>7, <2>1 DEF Ahead
<1>18. Cut(e)'
  BY <1>1, <1>3, <1>7, <1>8 DEF Cut
<1>19. ASSUME \A i \in 1..j : urbs'[i].status = "OK"
       PROVE  f + t = n /\ \A k \in 1..n : desc'[k] = k
  <2>1. urbs[j].status = "OK" /\ \A i \in 1..a : urbs[i].status = "OK"
    <3>1. j \in 1..j /\ \A i \in 1..a : i \in 1..j /\ i \in 1..Len(urbs)
      BY <1>4, <1>6
    <3> QED BY <1>8, <1>19, <3>1
  <2>2. f = m /\ \A k \in 1..m : desc[k] = k
    BY <1>1, <1>5, <1>9, <1>12, <2>1 DEF Copied
  <2>3. t = n - m
    BY <2>1
  <2>4. ASSUME NEW k \in 1..n PROVE desc'[k] = k
    <3>1. k \in 1..Len(length)
      BY <1>10, <1>23
    <3>2. desc'[k] = IF k - f \in 1..t THEN urbs[j].packets[k - f] ELSE desc[k]
      BY <1>13, <1>15, <3>1, Zenon
    <3>3. CASE k <= m
      <4>1. k \in 1..m /\ k - f \notin 1..t
        BY <1>23, <2>2, <3>3
      <4> QED BY <2>2, <3>2, <4>1
    <3>4. CASE ~(k <= m)
      <4>1. k - m \in 1..(n - m) /\ m + (k - m) = k
        BY <1>23, <3>4
      <4>3. k - f \in 1..t
        BY <2>2, <2>3, <4>1
      <4>2. urbs[j].packets[k - m] = m + (k - m)
        BY <1>11, <4>1
      <4> QED BY <2>2, <3>2, <4>1, <4>2, <4>3
    <3> QED BY <3>3, <3>4
  <2> QED BY <1>23, <2>2, <2>3, <2>4
<1>20. result' = "COMPLETED" => j = Len(urbs)
  <2>1. CASE Iso!Final(reaped)
    <3>1. result' = Iso!Outcome
      BY <2>1 DEF Iso!HandleReap
    <3>2. reap_action # "NORMAL" => result' # "COMPLETED"
      BY <3>1 DEF Iso!Outcome
    <3> QED BY <1>6, <2>1, <3>2 DEF Iso!Final, Iso!N
  <2>2. CASE ~Iso!Final(reaped)
    <3>1. result' = result
      BY <2>2 DEF Iso!HandleReap
    <3> QED BY <1>1, <1>4, <1>5, <3>1 DEF Copied
  <2> QED BY <2>1, <2>2
<1>21. Copied(j, e)'
  <2> HIDE DEF t
  <2>1. iso_packet_offset' \in Nat /\ iso_packet_offset' <= e[j]
    BY <1>9, <1>12, <1>13, <1>14
  <2> QED BY <1>7, <1>9, <1>13, <1>19, <1>20, <2>1 DEF Copied
<1>22. (\E y \in 0..Len(urbs) : \E g : Ahead(y) /\ Cut(g) /\ Copied(y, g))'
  <2>1. j \in 0..Len(urbs')
    BY <1>4, <1>7
  <2> QED BY <1>17, <1>18, <1>21, <2>1
<1> QED BY <1>3, <1>4, <1>7, <1>10, <1>16, <1>22 DEF PacketsInv

LEMMA PacketsInduction ==
    ASSUME TransfersAssumption, IsoInv, PacketsInv, Iso!Next PROVE PacketsInv'
<1>1. CASE \E lens \in PacketLists : Iso!Submit(lens)
  BY <1>1, SubmittedPackets
<1>2. CASE Iso!InCall
  BY <1>2, KernelPackets, QuietPackets DEF Iso!InCall
<1>3. CASE Iso!Cancel
  BY <1>3, QuietPackets
<1>4. CASE Iso!EventThread
  BY <1>4, QuietPackets, HandledPackets DEF Iso!EventThread
<1>5. CASE \E s \in {"OK"} \cup (IF UrbsFail THEN {"EPROTO"} ELSE {}) : Iso!UrbEnds(s)
  <2>1. PICK s : Iso!UrbEnds(s)
    BY <1>5
  <2> QED BY <2>1, KernelPackets
<1>6. CASE Iso!Unplug
  BY <1>6, KernelPackets
<1> QED BY <1>1, <1>2, <1>3, <1>4, <1>5, <1>6 DEF Iso!Next

LEMMA CutGrows ==
    ASSUME NEW e, Cut(e), Len(urbs) \in Nat, Len(length) \in Nat, NEW i \in 1..Len(urbs)
    PROVE  e[i] <= e[Len(urbs)] /\ e[Len(urbs)] \in Nat
<1> DEFINE z == Len(urbs)
           T == {x \in 0..z : e[z - x] <= e[z]}
<1>1. ASSUME NEW x \in 0..z PROVE e[x] \in Nat
  <2>1. e[x] \in 0..Len(length)
    BY DEF Cut
  <2> QED BY <2>1
<1>2. ASSUME NEW x \in 1..z PROVE e[x - 1] <= e[x]
  BY DEF Cut
<1> HIDE DEF z
<1>3. z \in Nat /\ i \in 1..z
  BY DEF z
<1>4. 0 \in T
  <2>1. z - 0 = z /\ 0 \in 0..z /\ z \in 0..z
    BY <1>3
  <2>2. e[z] <= e[z]
    BY <1>1, <2>1
  <2> QED BY <2>1, <2>2
<1>5. ASSUME NEW x \in 1..z, x - 1 \in T PROVE x \in T
  <2>1. PICK y \in 1..z : y = z - (x - 1) /\ y - 1 = z - x
    BY <1>3
  <2>2. y \in 0..z /\ y - 1 \in 0..z /\ z \in 0..z /\ x \in 0..z
    BY <1>3
  <2>3. e[y] <= e[z]
    BY <1>5, <2>1
  <2>4. e[y - 1] <= e[y]
    BY <1>2
  <2>5. e[y] \in Nat /\ e[z] \in Nat /\ e[y - 1] \in Nat
    BY <1>1, <2>2
  <2>6. e[y - 1] <= e[z]
    BY <2>3, <2>4, <2>5
  <2> QED BY <2>1, <2>2, <2>6
<1>6. \A x \in 0..z : x \in T
  <2> HIDE DEF T
  <2> QED BY <1>3, <1>4, <1>5, Climb
<1>7. z - i \in 0..z /\ z - (z - i) = i /\ z \in 0..z
  BY <1>3
<1>8. e[i] <= e[z]
  BY <1>6, <1>7
<1> QED BY <1>1, <1>7, <1>8 DEF z

\* What the invariant says of the lists of packets and of the descriptors.
LEMMA PacketsFill ==
    ASSUME IsoInv, PacketsInv PROVE Iso!PacketsArePacked /\ Iso!CompletedFillsDescriptors
<1>0. PICK a \in 0..Len(urbs) : \E e : Ahead(a) /\ Cut(e) /\ Copied(a, e)
  BY DEF PacketsInv
<1>1. PICK e : Ahead(a) /\ Cut(e) /\ Copied(a, e)
  BY <1>0
<1>2. length \in Seq(Nat) /\ Len(length) \in Nat /\ Len(urbs) \in Nat /\ DOMAIN length = 1..Len(length)
  BY DEF PacketsInv
<1>3. ASSUME \A k \in DOMAIN length : length[k] <= MAX_ISO_BUFFER_LENGTH
      PROVE  Iso!FlattenSeq([i \in 1..Len(urbs) |-> urbs[i].packets]) = [k \in DOMAIN length |-> k]
  <2>1. e[Len(urbs)] = Len(length)
    BY <1>1, <1>2, <1>3 DEF Cut
  <2>2. e \in [0..Len(urbs) -> Nat] /\ e[0] = 0 /\ \A i \in 1..Len(urbs) : e[i - 1] <= e[i]
    BY <1>1, <1>2 DEF Cut
  <2>3. [i \in 1..Len(urbs) |-> urbs[i].packets] = [i \in 1..Len(urbs) |-> Interval(e[i - 1] + 1, e[i])]
    BY <1>1, Zenon DEF Cut
  <2>4. Iso!FlattenSeq([i \in 1..Len(urbs) |-> urbs[i].packets]) = Interval(1, e[Len(urbs)])
    BY <1>2, <2>2, <2>3, Flattened
  <2>5. Interval(1, Len(length)) = [k \in 1..Len(length) |-> k]
    <3>1. Len(length) - 1 + 1 = Len(length) /\ \A k \in 1..Len(length) : 1 + k - 1 = k
      BY <1>2
    <3> QED BY <3>1 DEF Interval
  <2> QED BY <1>2, <2>1, <2>4, <2>5
<1>4. ASSUME result = "COMPLETED", \A i \in 1..Len(urbs) : urbs[i].status = "OK",
             NEW i \in 1..Len(urbs), NEW k \in Iso!ToSet(urbs[i].packets)
      PROVE  desc[k] = k
  <2>1. a = Len(urbs)
    BY <1>1, <1>4 DEF Copied
  <2>2. \A x \in 1..e[a] : desc[x] = x
    BY <1>1, <1>4, <2>1 DEF Copied
  <2>3. PICK m \in Nat, n \in Nat : m = e[i - 1] /\ n = e[i] /\ m <= n
    <3>1. i - 1 \in 0..Len(urbs) /\ i \in 0..Len(urbs)
      BY <1>2
    <3>2. e[i - 1] \in 0..Len(length) /\ e[i] \in 0..Len(length) /\ e[i - 1] <= e[i]
      BY <1>1, <3>1 DEF Cut
    <3>3. e[i - 1] \in Nat /\ e[i] \in Nat
      BY <1>2, <3>2
    <3> QED BY <3>2, <3>3
  <2>6. m <= n
    BY <2>3
  <2>7. urbs[i].packets = Interval(m + 1, n)
    BY <1>1, <2>3 DEF Cut
  <2>4. k \in (m + 1)..n
    <3>1. m + 1 \in Nat /\ m + 1 <= n + 1 /\ n - (m + 1) + 1 = n - m
      BY <2>6
    <3>2. /\ Len(Interval(m + 1, n)) = n - (m + 1) + 1
          /\ \A y \in 1..(n - (m + 1) + 1) : Interval(m + 1, n)[y] = (m + 1) + y - 1
      BY <3>1, IntervalIs
    <3>3. DOMAIN Interval(m + 1, n) = 1..(n - m)
      BY <3>1 DEF Interval
    <3>4. PICK y \in 1..(n - m) : k = Interval(m + 1, n)[y]
      BY <1>4, <2>7, <3>3 DEF Iso!ToSet
    <3>5. k = (m + 1) + y - 1
      BY <3>1, <3>2, <3>4
    <3>6. (m + 1) + y - 1 \in (m + 1)..n
      BY <2>6
    <3> QED BY <3>5, <3>6
  <2>5. n <= e[a] /\ e[a] \in Nat
    BY <1>1, <2>1, <2>3, CutGrows
  <2> QED BY <2>2, <2>3, <2>4, <2>5
<1> QED BY <1>3, <1>4 DEF Iso!PacketsArePacked, Iso!CompletedFillsDescriptors, Iso!N

LEMMA PacketsStart == ASSUME Iso!Init PROVE PacketsInv
<1>1. length = <<>> /\ desc = <<>> /\ urbs = <<>> /\ iso_packet_offset = 0 /\ result = "none"
  BY DEF Iso!Init
<1>2. /\ Len(urbs) = 0 /\ Len(length) = 0 /\ length \in Seq(Nat) /\ desc \in [1..0 -> 0..0]
  BY <1>1, EmptySeq
<1>3. PICK e : e = [i \in 0..0 |-> 0]
  OBVIOUS
<1>4. e \in [0..0 -> 0..0] /\ e[0] = 0
  BY <1>3
<1>5. Cut(e)
  BY <1>2, <1>4 DEF Cut
<1>6. Copied(0, e) /\ Ahead(0)
  BY <1>1, <1>2, <1>4 DEF Copied, Ahead
<1>7. 0 \in 0..Len(urbs)
  BY <1>2
<1> QED BY <1>2, <1>5, <1>6, <1>7 DEF PacketsInv

\* The packets of an isochronous transfer are cut into as many URBs as were
\* counted, in order and with none left out, and if all URBs succeed each
\* descriptor has the result of its packet: for any list of packets
\* (submit_iso_transfer, handle_iso_completion).
THEOREM PacketsArePlaced == Spec => []PacketsInPlace
<1> DEFINE J == type = "iso" => IsoInv /\ PacketsInv
<1>1. Init => J
  <2> SUFFICES ASSUME Init, type = "iso" PROVE IsoInv /\ PacketsInv
    OBVIOUS
  <2>1. Iso!Init
    BY DEF Init
  <2> QED BY <2>1, InitTransfers, PacketsStart, TransfersAssumption DEF TransfersInv
<1>2. J /\ [Next]_vars => J'
  <2> SUFFICES ASSUME J, [Next]_vars, type' = "iso" PROVE (IsoInv /\ PacketsInv)'
    OBVIOUS
  <2>1. type = "iso" /\ (Iso!Next \/ UNCHANGED vars)
    BY DEF Next, OfBulk, OfIso, OfControl, vars
  <2>2. IsoInv /\ PacketsInv
    BY <2>1
  <2>3. CASE Iso!Next
    BY <2>2, <2>3, IsoInduction, PacketsInduction, TransfersAssumption
  <2>4. CASE UNCHANGED vars
    <3>1. (\E a, b, c \in 0..Len(urbs) : Progress(a, b, c))'
            <=> \E a, b, c \in 0..Len(urbs) : Progress(a, b, c)
      BY <2>4 DEF vars, bulkOnly, isoOnly, arrays, Progress, Phases, Reaping, Looping, Counted, Gone
    <3>2. IsoInv'
      BY <2>2, <2>4, <3>1 DEF IsoInv, Flags, vars, arrays
    <3> QED BY <2>2, <2>4, <3>2, QuietPackets
  <2> QED BY <2>1, <2>3, <2>4
<1>3. J => PacketsInPlace
  BY PacketsFill DEF PacketsInPlace
<1> QED BY <1>1, <1>2, <1>3, PTL DEF Spec

-----------------------------------------------------------------------------
(* Types                                                                   *)

LEMMA IntervalIn ==
    ASSUME NEW m \in Nat \ {0}, NEW n \in Nat, NEW z \in Nat, m <= n + 1, n <= z
    PROVE  Interval(m, n) \in Seq(1..z)
<1>1. n - m + 1 \in Nat /\ \A k \in 1..(n - m + 1) : m + k - 1 \in 1..z
  OBVIOUS
<1>2. Interval(m, n) \in [1..(n - m + 1) -> 1..z]
  BY <1>1 DEF Interval
<1> QED BY <1>1, <1>2, SeqDef

\* What the invariant of the array says of its loops and queues.
LEMMA QueueTypes ==
    ASSUME NEW a \in 0..Len(urbs), NEW b \in 0..Len(urbs), NEW c \in 0..Len(urbs), Progress(a, b, c)
    PROVE  /\ lock \in {"free", "submit", "discard"} /\ (lock = "free" <=> todo = <<>>)
           /\ todo \in Seq(1..Len(urbs)) /\ doneq \in Seq(1..Len(urbs)) /\ reaped \in 0..Len(urbs)
<1>1. Len(urbs) \in Nat /\ a <= b /\ b <= c /\ c <= Len(urbs)
  BY DEF Progress, Phases
<1>2. doneq \in Seq(1..Len(urbs)) /\ reaped \in 0..Len(urbs)
  <2> DEFINE f == IF reaped = 0 THEN a + 1 ELSE a + 2
  <2>1. doneq = Interval(f, b) /\ (reaped = 0 \/ (reaped = a + 1 /\ a < b))
    BY DEF Progress, Reaping
  <2>2. f \in Nat \ {0} /\ f <= b + 1 /\ reaped \in 0..Len(urbs)
    BY <1>1, <2>1
  <2> HIDE DEF f
  <2>3. Interval(f, b) \in Seq(1..Len(urbs))
    BY <1>1, <2>2, IntervalIn
  <2> QED BY <2>1, <2>2, <2>3
<1>3. ASSUME NEW m \in 1..Len(urbs), NEW n \in 1..Len(urbs), m <= n, todo = Interval(m, n)
      PROVE  todo # <<>> /\ todo \in Seq(1..Len(urbs))
  <2>1. m \in Nat \ {0} /\ n \in Nat /\ m <= n + 1 /\ n <= Len(urbs)
    BY <1>1, <1>3
  <2>2. Interval(m, n) \in Seq(1..Len(urbs))
    BY <1>1, <2>1, IntervalIn
  <2>3. Interval(m, n) # <<>>
    BY <1>3, <2>1, IntervalSplits
  <2> QED BY <1>3, <2>2, <2>3
<1>4. CASE lock = "free"
  <2>1. todo = <<>>
    BY <1>4 DEF Progress, Looping
  <2> QED BY <1>2, <1>4, <2>1
<1>5. CASE lock = "submit"
  <2>1. c < Len(urbs) /\ todo = Interval(c + 1, Len(urbs))
    BY <1>5 DEF Progress, Looping
  <2>2. c + 1 \in 1..Len(urbs) /\ Len(urbs) \in 1..Len(urbs) /\ c + 1 <= Len(urbs)
    BY <1>1, <2>1
  <2>3. todo # <<>> /\ todo \in Seq(1..Len(urbs))
    BY <1>3, <2>1, <2>2
  <2> QED BY <1>2, <1>5, <2>3
<1>6. CASE lock = "discard"
  <2>1. PICK m, n \in 1..Len(urbs) : m <= n /\ todo = Interval(m, n)
    BY <1>6 DEF Progress, Looping
  <2>2. todo # <<>> /\ todo \in Seq(1..Len(urbs))
    BY <1>3, <2>1
  <2> QED BY <1>2, <1>6, <2>2
<1>7. lock \in {"free", "submit", "discard"}
  BY DEF Progress, Looping
<1> QED BY <1>4, <1>5, <1>6, <1>7

\* The next retired is counted, and the first refused has none before it.
LEMMA RetiredIsCounted ==
    ASSUME NEW a \in 0..Len(urbs), NEW b \in 0..Len(urbs), NEW c \in 0..Len(urbs), Progress(a, b, c)
    PROVE  /\ Len(urbs) \in Nat /\ urbs = [i \in 1..Len(urbs) |-> urbs[i]]
           /\ reaped # 0 /\ lock = "free" => num_retired + 1 \in 0..Len(urbs)
           /\ lock = "submit" => num_retired = 0 /\ Head(todo) \in Nat /\ Len(urbs) - Head(todo) + 1 \in 0..Len(urbs)
<1>1. /\ Len(urbs) \in Nat /\ a <= b /\ b <= c /\ c <= Len(urbs)
      /\ urbs = [i \in 1..Len(urbs) |-> urbs[i]]
  BY DEF Progress, Phases
<1>2. ASSUME reaped # 0, lock = "free" PROVE num_retired + 1 \in 0..Len(urbs)
  <2>1. a < b /\ num_retired = a + (Len(urbs) - c)
    BY <1>2 DEF Progress, Reaping, Counted
  <2> QED BY <1>1, <2>1
<1>3. ASSUME lock = "submit" PROVE num_retired = 0 /\ Head(todo) \in Nat /\ Len(urbs) - Head(todo) + 1 \in 0..Len(urbs)
  <2>1. num_retired = 0 /\ c < Len(urbs) /\ todo = Interval(c + 1, Len(urbs))
    BY <1>3 DEF Progress, Looping
  <2>2. c + 1 \in Nat /\ c + 1 <= Len(urbs)
    BY <1>1, <2>1
  <2>3. Head(todo) = c + 1
    BY <1>1, <2>1, <2>2, IntervalSplits
  <2> QED BY <1>1, <2>1, <2>3
<1> QED BY <1>1, <1>2, <1>3

Retiring == num_retired \in 0..Len(urbs)

LEMMA SameLength ==
    ASSUME Len(urbs) \in Nat, urbs = [i \in 1..Len(urbs) |-> urbs[i]],
           \/ urbs' = urbs
           \/ urbs' = [i \in 1..Len(urbs) |-> urbs'[i]]
           \/ \E j, v : urbs' = [urbs EXCEPT ![j] = v]
    PROVE  Len(urbs') = Len(urbs)
<1>1. ASSUME NEW j, NEW v, urbs' = [urbs EXCEPT ![j] = v]
      PROVE  urbs' = [i \in 1..Len(urbs) |-> urbs'[i]]
  <2>1. DOMAIN urbs = 1..Len(urbs)
    BY Zenon
  <2>2. urbs' = [i \in 1..Len(urbs) |-> IF i = j THEN v ELSE urbs[i]]
    BY <1>1, <2>1, Zenon
  <2> QED BY <2>2, Zenon
<1>2. CASE urbs' = [i \in 1..Len(urbs) |-> urbs'[i]]
  BY <1>2, LenIs
<1> QED BY <1>1, <1>2

LEMMA BulkRetiring ==
    ASSUME TransfersAssumption, BulkInv, Retiring, Bulk!Next \/ UNCHANGED vars PROVE Retiring'
<1>1. PICK a, b, c \in 0..Len(urbs) : Progress(a, b, c)
  BY DEF BulkInv
<1>2. /\ Len(urbs) \in Nat /\ urbs = [i \in 1..Len(urbs) |-> urbs[i]]
      /\ reaped # 0 /\ lock = "free" => num_retired + 1 \in 0..Len(urbs)
      /\ lock = "submit" => num_retired = 0 /\ Head(todo) \in Nat /\ Len(urbs) - Head(todo) + 1 \in 0..Len(urbs)
  BY <1>1, RetiredIsCounted
<1>3. CASE \E n \in BulkLengths, out \in BOOLEAN : Bulk!Submit(n, out)
  <2>1. PICK n \in BulkLengths, out \in BOOLEAN : Bulk!Submit(n, out)
    BY <1>3
  <2>2. PICK z \in Nat \ {0} : z = Bulk!NumUrbs(n)
    BY NumUrbsPositive
  <2>3. urbs' = [i \in 1..z |-> Bulk!URB("new", "OK", 0)] /\ num_retired' = 0
    BY <2>1, <2>2, Zenon DEF Bulk!Submit
  <2>4. urbs' = [i \in 1..z |-> urbs'[i]]
    BY <2>3, Zenon
  <2>5. Len(urbs') = z
    BY <2>4, LenIs
  <2> QED BY <2>3, <2>5 DEF Retiring
<1>4. ASSUME Len(urbs') = Len(urbs), num_retired' = num_retired PROVE Retiring'
  BY <1>4 DEF Retiring
<1>5. CASE Bulk!SubmitUrb
  <2>1. \E j, v : urbs' = [urbs EXCEPT ![j] = v]
    BY <1>5 DEF Bulk!SubmitUrb
  <2>2. num_retired' = num_retired
    BY <1>5 DEF Bulk!SubmitUrb, Bulk!tpriv
  <2> QED BY <1>2, <1>4, <2>1, <2>2, SameLength
<1>6. CASE \E errno \in {"EREMOTEIO", "EIO"} : Bulk!LaterUrbRefused(errno)
  <2>1. urbs' = urbs /\ lock = "submit" /\ num_retired' = num_retired + Len(urbs) - Head(todo) + 1
    BY <1>6 DEF Bulk!LaterUrbRefused, Bulk!num_urbs
  <2>2. num_retired = 0 /\ Head(todo) \in Nat /\ Len(urbs) - Head(todo) + 1 \in 0..Len(urbs)
    BY <1>2, <2>1
  <2>3. PICK h \in Nat, z \in Nat : h = Head(todo) /\ z = Len(urbs)
    BY <1>2, <2>2
  <2>4. num_retired' = 0 + z - h + 1 /\ Len(urbs') = z /\ z - h + 1 \in 0..z
    BY <2>1, <2>2, <2>3, Zenon
  <2> QED BY <2>4 DEF Retiring
<1>7. CASE \E s \in Bulk!KernelStatuses, n \in 0..MAX_BULK_BUFFER_LENGTH : Bulk!DeviceAnswers(s, n)
  <2>1. urbs' = [i \in 1..Len(urbs) |-> urbs'[i]]
    BY <1>7, Zenon DEF Bulk!DeviceAnswers, Bulk!num_urbs
  <2>2. num_retired' = num_retired
    BY <1>7 DEF Bulk!DeviceAnswers, Bulk!tpriv
  <2> QED BY <1>2, <1>4, <2>1, <2>2, SameLength
<1>8. CASE \E n \in 0..MAX_BULK_BUFFER_LENGTH : Bulk!DiscardUrb(n)
  <2>1. urbs' = urbs \/ \E j, v : urbs' = [urbs EXCEPT ![j] = v]
    BY <1>8, Zenon DEF Bulk!DiscardUrb
  <2>2. num_retired' = num_retired
    BY <1>8 DEF Bulk!DiscardUrb, Bulk!tpriv
  <2> QED BY <1>2, <1>4, <2>1, <2>2, SameLength
<1>9. CASE Bulk!Unplug
  <2>1. urbs' = [i \in 1..Len(urbs) |-> urbs'[i]]
    BY <1>9, Zenon DEF Bulk!Unplug, Bulk!num_urbs
  <2>2. num_retired' = num_retired
    BY <1>9 DEF Bulk!Unplug, Bulk!tpriv
  <2> QED BY <1>2, <1>4, <2>1, <2>2, SameLength
<1>10. CASE Bulk!HandleAbnormalReap \/ Bulk!HandleGoodReap \/ Bulk!HandleOverflow \/ Bulk!HandleFailedReap
  <2>1. /\ reaped # 0 /\ lock = "free" /\ num_retired' = num_retired + 1
        /\ \E j, v : urbs' = [urbs EXCEPT ![j] = v]
    BY <1>10 DEF Bulk!HandleAbnormalReap, Bulk!HandleGoodReap, Bulk!HandleOverflow,
                 Bulk!HandleFailedReap, Bulk!retired
  <2>2. Len(urbs') = Len(urbs)
    BY <1>2, <2>1, SameLength
  <2> QED BY <1>2, <2>1, <2>2 DEF Retiring
<1>11. CASE \/ Bulk!FirstUrbRefused \/ Bulk!Cancel \/ Bulk!Reap \/ Bulk!Report
            \/ Bulk!HandleDisconnect \/ UNCHANGED vars
  <2>1. urbs' = urbs /\ num_retired' = num_retired
    BY <1>11 DEF Bulk!FirstUrbRefused, Bulk!Cancel, Bulk!Reap, Bulk!Report, Bulk!HandleDisconnect,
                 Bulk!tpriv, vars, arrays
  <2> QED BY <1>4, <2>1
<1> QED BY <1>3, <1>5, <1>6, <1>7, <1>8, <1>9, <1>10, <1>11 DEF Bulk!Next, Bulk!InCall, Bulk!EventThread

\* What a submission fixes, and what the steps choose among.
BulkStatic ==
    /\ supports_flag_bulk_continuation \in BOOLEAN /\ is_out \in BOOLEAN
    /\ length \in BulkLengths \cup {0}
    /\ reap_action \in {"NORMAL", "SUBMIT_FAILED", "CANCELLED", "COMPLETED_EARLY", "ERROR"}
    /\ endpoint \in {"ok", "halted", "disabled"} /\ submits \in 0..MaxSubmits

LEMMA BulkStaticKept ==
    ASSUME TransfersAssumption, BulkStatic, Bulk!Next \/ UNCHANGED vars PROVE BulkStatic'
<1>1. CASE \E n \in BulkLengths, out \in BOOLEAN : Bulk!Submit(n, out)
  <2>1. PICK n \in BulkLengths, out \in BOOLEAN : Bulk!Submit(n, out)
    BY <1>1
  <2>2. /\ length' = n /\ is_out' = out /\ reap_action' = "NORMAL" /\ endpoint' = "ok"
        /\ submits < MaxSubmits /\ submits' = submits + 1
        /\ UNCHANGED supports_flag_bulk_continuation
    BY <2>1 DEF Bulk!Submit
  <2>3. submits + 1 \in 0..MaxSubmits
    BY <2>2 DEF TransfersAssumption, BulkStatic
  <2> QED BY <2>2, <2>3 DEF BulkStatic
<1>2. ASSUME UNCHANGED <<supports_flag_bulk_continuation, is_out, length, submits>>,
             endpoint' \in {"ok", "halted", "disabled"},
             reap_action' \in {"NORMAL", "SUBMIT_FAILED", "CANCELLED", "COMPLETED_EARLY", "ERROR"}
      PROVE  BulkStatic'
  BY <1>2 DEF BulkStatic
<1>3. /\ endpoint \in {"ok", "halted", "disabled"}
      /\ reap_action \in {"NORMAL", "SUBMIT_FAILED", "CANCELLED", "COMPLETED_EARLY", "ERROR"}
  BY DEF BulkStatic
<1>4. CASE Bulk!InCall
  BY <1>2, <1>3, <1>4 DEF Bulk!InCall, Bulk!SubmitUrb, Bulk!FirstUrbRefused, Bulk!LaterUrbRefused,
     Bulk!DiscardUrb, Bulk!static, Bulk!user, Bulk!tpriv, Bulk!kernel
<1>5. CASE Bulk!Cancel \/ Bulk!Unplug
  BY <1>2, <1>3, <1>5 DEF Bulk!Cancel, Bulk!Unplug, Bulk!static, Bulk!user, Bulk!tpriv, Bulk!kernel
<1>6. CASE Bulk!EventThread
  <2>1. UNCHANGED <<supports_flag_bulk_continuation, is_out, length, submits, endpoint>>
    BY <1>6 DEF Bulk!EventThread, Bulk!Reap, Bulk!HandleAbnormalReap, Bulk!HandleGoodReap,
       Bulk!HandleOverflow, Bulk!HandleFailedReap, Bulk!Report, Bulk!HandleDisconnect,
       Bulk!static, Bulk!user, Bulk!tpriv, Bulk!kernel
  <2>2. reap_action' = reap_action \/ reap_action' \in {"NORMAL", "COMPLETED_EARLY", "ERROR"}
    <3>1. CASE Bulk!HandleGoodReap \/ Bulk!HandleFailedReap
      BY <3>1 DEF Bulk!HandleGoodReap, Bulk!HandleFailedReap
    <3>2. CASE ~(Bulk!HandleGoodReap \/ Bulk!HandleFailedReap)
      BY <1>6, <3>2 DEF Bulk!EventThread, Bulk!Reap, Bulk!HandleAbnormalReap,
         Bulk!HandleOverflow, Bulk!Report, Bulk!HandleDisconnect, Bulk!tpriv
    <3> QED BY <3>1, <3>2
  <2> QED BY <1>2, <1>3, <2>1, <2>2
<1>7. CASE \E s \in Bulk!KernelStatuses, n \in 0..MAX_BULK_BUFFER_LENGTH : Bulk!DeviceAnswers(s, n)
  <2>1. /\ UNCHANGED <<supports_flag_bulk_continuation, is_out, length, submits, reap_action>>
        /\ endpoint' \in {"ok", "halted", "disabled"}
    BY <1>7 DEF Bulk!DeviceAnswers, Bulk!static, Bulk!user, Bulk!tpriv
  <2> QED BY <1>2, <1>3, <2>1
<1>8. CASE UNCHANGED vars
  BY <1>2, <1>3, <1>8 DEF vars, bulkOnly
<1> QED BY <1>1, <1>4, <1>5, <1>6, <1>7, <1>8 DEF Bulk!Next

\* The bytes in the buffer are bytes that were sent.
Received == \A k \in 1..length : buffer[k] <= sent

LEMMA BytesArrive ==
    ASSUME Sized, Received, NEW i, NEW n \in Nat, Bulk!Completes(i, n), length' = length,
           Bulk!Offset(i) \in Nat
    PROVE  Received'
<1>1. PICK o \in Nat : o = Bulk!Offset(i)
  OBVIOUS
<1>2. /\ sent' = sent + n /\ DOMAIN buffer = 1..length /\ sent \in Nat /\ length \in Nat
      /\ \A k \in 1..length : buffer[k] \in Nat /\ buffer[k] <= sent
  BY DEF Sized, Received, Bulk!Completes
<1>3. buffer' = [k \in 1..length |-> IF k - o \in 1..n THEN sent + k - o ELSE buffer[k]]
  BY <1>1, <1>2 DEF Bulk!Completes
<1>4. ASSUME NEW k \in 1..length PROVE buffer'[k] <= sent + n
  <2>1. buffer'[k] = IF k - o \in 1..n THEN sent + k - o ELSE buffer[k]
    BY <1>3
  <2>2. CASE k - o \in 1..n
    BY <1>2, <2>1, <2>2
  <2>3. CASE ~(k - o \in 1..n)
    BY <1>2, <2>1, <2>3
  <2> QED BY <2>2, <2>3
<1> QED BY <1>2, <1>4 DEF Received

LEMMA BytesMoved ==
    ASSUME TransfersAssumption, BulkInv, SurplusInv, Received, Bulk!HandleAbnormalReap PROVE Received'
<1>1. PICK a, b, c \in 0..Len(urbs) : Progress(a, b, c)
  BY DEF BulkInv
<1>2. Len(urbs) \in Nat /\ reaped \in 1..Len(urbs)
  <2>1. Len(urbs) \in Nat /\ reaped = a + 1 /\ a < b /\ b <= Len(urbs)
    BY <1>1 DEF Progress, Phases, Reaping, Bulk!HandleAbnormalReap
  <2> QED BY <2>1
<1>3. Sized
  BY DEF SurplusInv
<1>4. PICK o \in Nat, n \in Nat : o = Bulk!Offset(reaped) /\ n = Bytes(reaped) /\ o + n <= length
  <2>1. /\ Bulk!buffer_length(reaped) \in 0..MAX_BULK_BUFFER_LENGTH
        /\ Bulk!Offset(reaped) + Bulk!buffer_length(reaped) <= length
        /\ Bytes(reaped) \in Nat /\ Bytes(reaped) <= Bulk!buffer_length(reaped)
        /\ Bulk!Offset(reaped) \in Nat
    BY <1>2, <1>3, Parts
  <2>2. PICK l \in Nat : l = Bulk!buffer_length(reaped)
    BY <2>1 DEF TransfersAssumption
  <2>3. length \in Nat
    BY <1>3 DEF Sized
  <2>4. Bulk!Offset(reaped) + Bytes(reaped) <= length
    BY <2>1, <2>2, <2>3
  <2> QED BY <2>1, <2>4
<1>5. /\ sent' = sent /\ length' = length /\ DOMAIN buffer = 1..length /\ length \in Nat
      /\ transferred \in Nat /\ \A k \in 1..length : buffer[k] <= sent
  BY <1>3 DEF Sized, Received, Bulk!HandleAbnormalReap, Bulk!kernel, Bulk!static
<1>6. buffer' = [k \in 1..length |-> IF k - transferred \in 1..n THEN buffer[o + k - transferred]
                                                                ELSE buffer[k]]
  BY <1>4, <1>5 DEF Bulk!HandleAbnormalReap, Bytes
<1>7. ASSUME NEW k \in 1..length PROVE buffer'[k] <= sent
  <2>1. CASE k - transferred \in 1..n
    <3>1. o + k - transferred \in 1..length
      BY <1>4, <1>5, <2>1
    <3>2. buffer'[k] = buffer[o + k - transferred]
      BY <1>6, <2>1
    <3> QED BY <1>5, <3>1, <3>2
  <2>2. CASE ~(k - transferred \in 1..n)
    BY <1>5, <1>6, <2>2
  <2> QED BY <2>1, <2>2
<1> QED BY <1>5, <1>7 DEF Received

LEMMA ReceivedKept ==
    ASSUME TransfersAssumption, BulkInv, SurplusInv, Received, Bulk!Next \/ UNCHANGED vars
    PROVE  Received'
<1>1. PICK a, b, c \in 0..Len(urbs) : Progress(a, b, c)
  BY DEF BulkInv
<1>2. /\ Len(urbs) \in Nat /\ a \in Nat /\ b \in Nat /\ c \in Nat /\ Phases(a, b, c)
      /\ a <= b /\ b <= c /\ c <= Len(urbs)
  BY <1>1 DEF Progress, Phases
<1>3. Sized /\ Bulk!Queued = (b + 1)..c
  BY <1>2, QueuedIs DEF SurplusInv
<1>4. \A i \in Nat \ {0} : Bulk!Offset(i) \in Nat
  BY Offsets
<1>5. MAX_BULK_BUFFER_LENGTH \in Nat
  BY DEF TransfersAssumption
<1>6. ASSUME UNCHANGED <<buffer, length, sent>> PROVE Received'
  BY <1>6 DEF Received
<1>7. CASE \E n \in BulkLengths, out \in BOOLEAN : Bulk!Submit(n, out)
  <2>1. PICK n \in BulkLengths, out \in BOOLEAN : Bulk!Submit(n, out)
    BY <1>7
  <2>2. length' = n /\ buffer' = [k \in 1..n |-> 0] /\ sent' = 0
    BY <2>1 DEF Bulk!Submit
  <2> QED BY <2>2 DEF Received
<1>8. CASE \E s \in Bulk!KernelStatuses, n \in 0..MAX_BULK_BUFFER_LENGTH : Bulk!DeviceAnswers(s, n)
  <2>1. PICK s \in Bulk!KernelStatuses, n \in 0..MAX_BULK_BUFFER_LENGTH : Bulk!DeviceAnswers(s, n)
    BY <1>8
  <2>2. b # c /\ (CHOOSE j \in Bulk!Queued : Bulk!Oldest(j)) = b + 1
    <3>1. (b + 1)..c # {}
      BY <1>3, <2>1 DEF Bulk!DeviceAnswers
    <3>2. b # c
      BY <1>2, <3>1
    <3> QED BY <1>2, <3>2, QueuedIs
  <2>3. Bulk!Completes(b + 1, n) /\ length' = length
    BY <2>1, <2>2, Zenon DEF Bulk!DeviceAnswers, Bulk!static
  <2>4. n \in Nat /\ b + 1 \in Nat \ {0}
    BY <1>2, <1>5
  <2> QED BY <1>3, <1>4, <2>3, <2>4, BytesArrive
<1>9. CASE \E n \in 0..MAX_BULK_BUFFER_LENGTH : Bulk!DiscardUrb(n)
  <2>1. PICK n \in 0..MAX_BULK_BUFFER_LENGTH : Bulk!DiscardUrb(n)
    BY <1>9
  <2>2. n \in Nat /\ length' = length
    BY <1>5, <2>1 DEF Bulk!DiscardUrb, Bulk!static
  <2>3. CASE Head(todo) \in Bulk!Queued
    <3>1. Bulk!Completes(Head(todo), n)
      BY <2>1, <2>3 DEF Bulk!DiscardUrb
    <3>2. Head(todo) \in Nat \ {0}
      BY <1>2, <1>3, <2>3
    <3> QED BY <1>3, <1>4, <2>2, <3>1, <3>2, BytesArrive
  <2>4. CASE Head(todo) \notin Bulk!Queued
    BY <1>6, <2>1, <2>2, <2>4 DEF Bulk!DiscardUrb
  <2> QED BY <2>3, <2>4
<1>10. CASE Bulk!HandleAbnormalReap
  BY <1>10, BytesMoved
<1>11. CASE \/ Bulk!SubmitUrb \/ Bulk!FirstUrbRefused \/ Bulk!Cancel \/ Bulk!Unplug \/ UNCHANGED vars
            \/ \E errno \in {"EREMOTEIO", "EIO"} : Bulk!LaterUrbRefused(errno)
  <2>1. UNCHANGED <<buffer, length, sent>>
    BY <1>11 DEF Bulk!SubmitUrb, Bulk!FirstUrbRefused, Bulk!LaterUrbRefused, Bulk!Cancel, Bulk!Unplug,
       Bulk!static, Bulk!kernel, vars, bulkOnly
  <2> QED BY <1>6, <2>1
<1>12. CASE \/ Bulk!Reap \/ Bulk!HandleGoodReap \/ Bulk!HandleOverflow \/ Bulk!HandleFailedReap
            \/ Bulk!Report \/ Bulk!HandleDisconnect
  <2>1. UNCHANGED <<buffer, length, sent>>
    BY <1>12 DEF Bulk!Reap, Bulk!HandleGoodReap, Bulk!HandleOverflow, Bulk!HandleFailedReap,
       Bulk!Report, Bulk!HandleDisconnect, Bulk!static, Bulk!kernel
  <2> QED BY <1>6, <2>1
<1> QED BY <1>7, <1>8, <1>9, <1>10, <1>11, <1>12 DEF Bulk!Next, Bulk!InCall, Bulk!EventThread

LEMMA BulkTypes ==
    ASSUME TransfersAssumption, BulkInv, SurplusInv, BulkStatic, Received, Retiring PROVE Bulk!TypeOK
<1>1. PICK a, b, c \in 0..Len(urbs) : \E g \in Places : Here(a, b, c, g)
  BY SurplusIs
<1>2. PICK g \in Places : Here(a, b, c, g)
  BY <1>1
<1>3. Progress(a, b, c) /\ transferred <= length /\ Sized /\ Len(urbs) \in Nat
  BY <1>2 DEF Here, Gathered, SurplusInv, Progress, Phases
<1>4. /\ lock \in {"free", "submit", "discard"} /\ (lock = "free" <=> todo = <<>>)
      /\ todo \in Seq(1..Len(urbs)) /\ doneq \in Seq(1..Len(urbs)) /\ reaped \in 0..Len(urbs)
  BY <1>3, QueueTypes
<1>5. transferred \in 0..length /\ buffer \in [1..length -> 0..sent] /\ sent \in Nat
  <2>1. /\ length \in Nat /\ sent \in Nat /\ transferred \in Nat
        /\ buffer \in [1..length -> Nat] /\ \A k \in 1..length : buffer[k] <= sent
    BY <1>3 DEF Sized, Received
  <2>2. \A k \in 1..length : buffer[k] \in 0..sent
    BY <2>1
  <2> QED BY <1>3, <2>1, <2>2
<1>6. ASSUME NEW i \in 1..Len(urbs)
      PROVE  urbs[i] \in [st : {"new", "queued", "done", "reaped"},
                          status : Bulk!KernelStatuses \cup {"ENOENT"},
                          actual_length : 0..MAX_BULK_BUFFER_LENGTH]
  <2>1. urbs[i] \in [st : {"new", "queued", "done", "reaped"},
                     status : Bulk!KernelStatuses \cup {"ENOENT"}, actual_length : Nat]
    BY DEF BulkInv, BulkUrb, BulkRecords, States
  <2>2. Bytes(i) \in 0..MAX_BULK_BUFFER_LENGTH
    <3>1. /\ Bulk!buffer_length(i) \in 0..MAX_BULK_BUFFER_LENGTH
          /\ Bytes(i) \in Nat /\ Bytes(i) <= Bulk!buffer_length(i)
      BY <1>3, Parts
    <3>2. PICK l \in 0..MAX_BULK_BUFFER_LENGTH : l = Bulk!buffer_length(i)
      BY <3>1
    <3> QED BY <3>1, <3>2 DEF TransfersAssumption
  <2> QED BY <2>1, <2>2 DEF Bytes
<1>7. /\ allocated \in BOOLEAN /\ attached \in BOOLEAN /\ polled \in BOOLEAN
      /\ pending \in BOOLEAN /\ cancelled \in BOOLEAN /\ reporting \in BOOLEAN
      /\ reap_status \in {"COMPLETED", "ERROR", "STALL", "OVERFLOW"}
  BY DEF BulkInv, Flags
<1> QED BY <1>4, <1>5, <1>6, <1>7 DEF Bulk!TypeOK, BulkStatic, Retiring, Bulk!num_urbs

LEMMA IsoRetiring ==
    ASSUME TransfersAssumption, IsoInv, Retiring, Iso!Next \/ UNCHANGED vars PROVE Retiring'
<1>1. PICK a, b, c \in 0..Len(urbs) : Progress(a, b, c)
  BY DEF IsoInv
<1>2. /\ Len(urbs) \in Nat /\ urbs = [i \in 1..Len(urbs) |-> urbs[i]]
      /\ reaped # 0 /\ lock = "free" => num_retired + 1 \in 0..Len(urbs)
      /\ lock = "submit" => Len(urbs) - Head(todo) + 1 \in 0..Len(urbs)
  BY <1>1, RetiredIsCounted
<1>3. CASE \E lens \in PacketLists : Iso!Submit(lens)
  <2>1. PICK lens \in PacketLists : Iso!Submit(lens)
    BY <1>3
  <2>2. PICK z \in Nat \ {0} : z = Iso!num_urbs(lens)
    BY IsoHasUrbs DEF TransfersAssumption
  <2>3. /\ urbs' = [i \in 1..z |-> [st |-> "new", status |-> "OK", packets |-> Iso!Fill(lens)[i]]]
        /\ num_retired' = 0
    BY <2>1, <2>2, Zenon DEF Iso!Submit
  <2>4. urbs' = [i \in 1..z |-> urbs'[i]]
    BY <2>3, Zenon
  <2>5. Len(urbs') = z
    BY <2>4, LenIs
  <2> QED BY <2>3, <2>5 DEF Retiring
<1>4. ASSUME Len(urbs') = Len(urbs), num_retired' = num_retired PROVE Retiring'
  BY <1>4 DEF Retiring
<1>5. CASE Iso!SubmitUrb
  <2>1. \E j, v : urbs' = [urbs EXCEPT ![j] = v]
    BY <1>5 DEF Iso!SubmitUrb
  <2>2. num_retired' = num_retired
    BY <1>5 DEF Iso!SubmitUrb, Iso!tpriv
  <2> QED BY <1>2, <1>4, <2>1, <2>2, SameLength
<1>6. CASE Iso!UrbRefused
  <2>1. urbs' = urbs /\ lock = "submit"
        /\ (num_retired' = num_retired \/ num_retired' = Len(urbs) - Head(todo) + 1)
    BY <1>6 DEF Iso!UrbRefused, Iso!N, Iso!submitted
  <2> QED BY <1>2, <2>1 DEF Retiring
<1>7. CASE \/ \E s \in {"OK"} \cup (IF UrbsFail THEN {"EPROTO"} ELSE {}) : Iso!UrbEnds(s)
           \/ Iso!DiscardUrb
  <2>1. urbs' = urbs \/ \E j, v : urbs' = [urbs EXCEPT ![j] = v]
    BY <1>7, Zenon DEF Iso!UrbEnds, Iso!DiscardUrb, Iso!Ends
  <2>2. num_retired' = num_retired
    BY <1>7 DEF Iso!UrbEnds, Iso!DiscardUrb, Iso!tpriv
  <2> QED BY <1>2, <1>4, <2>1, <2>2, SameLength
<1>8. CASE Iso!Unplug
  <2>1. urbs' = [i \in 1..Len(urbs) |-> urbs'[i]]
    BY <1>8, Zenon DEF Iso!Unplug, Iso!N
  <2>2. num_retired' = num_retired
    BY <1>8 DEF Iso!Unplug, Iso!tpriv
  <2> QED BY <1>2, <1>4, <2>1, <2>2, SameLength
<1>9. CASE Iso!HandleReap
  <2>1. /\ reaped # 0 /\ lock = "free" /\ num_retired' = num_retired + 1
        /\ \E j, v : urbs' = [urbs EXCEPT ![j] = v]
    BY <1>9 DEF Iso!HandleReap
  <2>2. Len(urbs') = Len(urbs)
    BY <1>2, <2>1, SameLength
  <2> QED BY <1>2, <2>1, <2>2 DEF Retiring
<1>10. CASE Iso!Cancel \/ Iso!Reap \/ Iso!HandleDisconnect \/ UNCHANGED vars
  <2>1. urbs' = urbs /\ num_retired' = num_retired
    BY <1>10 DEF Iso!Cancel, Iso!Reap, Iso!HandleDisconnect, Iso!tpriv, Iso!submitted, vars, arrays
  <2> QED BY <1>4, <2>1
<1> QED BY <1>3, <1>5, <1>6, <1>7, <1>8, <1>9, <1>10 DEF Iso!Next, Iso!InCall, Iso!EventThread

IsoGivesUp == reap_action \in {"NORMAL", "SUBMIT_FAILED", "CANCELLED"}

LEMMA IsoGivesUpKept ==
    ASSUME IsoGivesUp, Iso!Next \/ UNCHANGED vars PROVE IsoGivesUp'
<1>1. reap_action' = reap_action \/ reap_action' \in {"NORMAL", "SUBMIT_FAILED", "CANCELLED"}
  BY DEF Iso!Next, Iso!InCall, Iso!EventThread, Iso!Submit, Iso!SubmitUrb, Iso!UrbRefused, Iso!UrbEnds,
     Iso!DiscardUrb, Iso!Unplug, Iso!Cancel, Iso!Reap, Iso!HandleReap, Iso!HandleDisconnect,
     Iso!tpriv, vars
<1> QED BY <1>1 DEF IsoGivesUp

LEMMA IsoTypes ==
    ASSUME IsoInv, PacketsInv, Retiring, IsoGivesUp PROVE Iso!TypeOK
<1>1. PICK a, b, c \in 0..Len(urbs) : Progress(a, b, c)
  BY DEF IsoInv
<1>2. /\ lock \in {"free", "submit", "discard"} /\ reaped \in 0..Len(urbs)
      /\ todo \in Seq(1..Len(urbs)) /\ doneq \in Seq(1..Len(urbs))
  BY <1>1, QueueTypes
<1>0. PICK x \in 0..Len(urbs) : \E e : Ahead(x) /\ Cut(e) /\ Copied(x, e)
  BY DEF PacketsInv
<1>3. PICK e : Ahead(x) /\ Cut(e) /\ Copied(x, e)
  BY <1>0
<1>4. iso_packet_offset \in 0..Len(length)
  <2>1. e[x] \in 0..Len(length) /\ iso_packet_offset \in Nat /\ iso_packet_offset <= e[x]
    BY <1>3 DEF Cut, Copied
  <2>2. Len(length) \in Nat
    BY DEF PacketsInv
  <2>3. PICK l \in 0..Len(length) : l = e[x]
    BY <2>1
  <2> QED BY <2>1, <2>2, <2>3
<1>5. allocated \in BOOLEAN /\ desc \in [1..Len(length) -> 0..Len(length)]
  BY DEF IsoInv, Flags, PacketsInv
<1> QED BY <1>2, <1>4, <1>5 DEF Iso!TypeOK, Iso!N, Retiring, IsoGivesUp

\* What a control transfer may be sent fits the buffer it was accepted with.
ControlStatic ==
    /\ length \in ControlLengths \cup {SETUP} /\ length - SETUP <= MAX_CTRL_BUFFER_LENGTH
    /\ reap_action \in {"NORMAL", "CANCELLED"}
    /\ transferred \in 0..MAX_CTRL_BUFFER_LENGTH /\ actual_length \in 0..MAX_CTRL_BUFFER_LENGTH
    /\ status \in {"OK", "EPIPE", "EPROTO", "EOTHER", "ENOENT"} /\ submits \in 0..MaxSubmits
    /\ result \in {"none", "COMPLETED", "CANCELLED", "STALL", "ERROR", "NO_DEVICE"}

LEMMA ControlStaticKept ==
    ASSUME TransfersAssumption, ControlStatic, Control!Next \/ UNCHANGED vars PROVE ControlStatic'
<1>0. /\ MAX_CTRL_BUFFER_LENGTH \in Nat /\ SETUP \in Nat /\ MaxSubmits \in Nat
      /\ \A n \in ControlLengths \cup {SETUP} : n \in Nat /\ n >= SETUP
  BY DEF TransfersAssumption
<1>1. CASE \E n \in ControlLengths : Control!Submit(n)
  <2>1. PICK n \in ControlLengths : Control!Submit(n)
    BY <1>1
  <2>2. submits' \in 0..MaxSubmits /\ UNCHANGED <<status, actual_length>>
    BY <1>0, <2>1 DEF Control!Submit, ControlStatic
  <2>3. /\ length' = n /\ n - SETUP <= MAX_CTRL_BUFFER_LENGTH /\ transferred' = 0
        /\ reap_action' = "NORMAL" /\ result' = "none"
    BY <2>1 DEF Control!Submit
  <2> QED BY <1>0, <2>2, <2>3 DEF ControlStatic
<1>2. CASE \E s \in {"OK", "EPIPE", "EPROTO", "EOTHER"}, n \in 0..(length - SETUP) :
             Control!DeviceAnswers(s, n)
  <2>1. PICK s \in {"OK", "EPIPE", "EPROTO", "EOTHER"}, n \in 0..(length - SETUP) :
               Control!DeviceAnswers(s, n)
    BY <1>2
  <2>2. PICK l \in Nat : l = length /\ l >= SETUP
    BY <1>0 DEF ControlStatic
  <2>3. n \in 0..MAX_CTRL_BUFFER_LENGTH
    BY <1>0, <2>2 DEF ControlStatic
  <2>4. /\ status' = s /\ actual_length' = n
        /\ UNCHANGED <<length, transferred, reap_action, result, submits>>
    BY <2>1 DEF Control!DeviceAnswers, Control!UrbEnds, Control!user
  <2> QED BY <2>3, <2>4 DEF ControlStatic
<1>3. CASE Control!Unplug
  <2>1. /\ \/ status' = "EOTHER" /\ actual_length' = 0
           \/ UNCHANGED <<status, actual_length>>
        /\ UNCHANGED <<length, transferred, reap_action, result, submits>>
    BY <1>3 DEF Control!Unplug, Control!UrbEnds, Control!user
  <2> QED BY <1>0, <2>1 DEF ControlStatic
<1>4. CASE Control!Cancel
  <2>1. /\ reap_action' = "CANCELLED"
        /\ UNCHANGED <<length, transferred, status, actual_length, result, submits>>
    BY <1>4 DEF Control!Cancel
  <2> QED BY <2>1 DEF ControlStatic
<1>5. CASE Control!HandleControlCompletion
  <2>1. /\ transferred' = IF status = "OK" THEN actual_length ELSE transferred
        /\ result' \in {"COMPLETED", "CANCELLED", "STALL", "ERROR"}
        /\ UNCHANGED <<length, reap_action, status, actual_length, submits>>
    BY <1>5 DEF Control!HandleControlCompletion, Control!Verdict
  <2> QED BY <2>1 DEF ControlStatic
<1>6. CASE Control!HandleDisconnect
  <2>1. /\ result' = IF pending THEN "NO_DEVICE" ELSE result
        /\ UNCHANGED <<length, reap_action, transferred, status, actual_length, submits>>
    BY <1>6 DEF Control!HandleDisconnect
  <2> QED BY <2>1 DEF ControlStatic
<1>7. CASE UNCHANGED vars
  BY <1>7 DEF ControlStatic, vars, controlOnly
<1>8. CASE Control!InCall
  <2>1. /\ \/ status' = "ENOENT" /\ actual_length' = 0
           \/ UNCHANGED <<status, actual_length>>
        /\ UNCHANGED <<length, transferred, reap_action, result, submits>>
    BY <1>8 DEF Control!InCall, Control!SubmitUrb, Control!UrbRefused, Control!DiscardUrb,
       Control!UrbEnds, Control!user
  <2> QED BY <1>0, <2>1 DEF ControlStatic
<1> QED BY <1>1, <1>2, <1>3, <1>4, <1>5, <1>6, <1>7, <1>8 DEF Control!Next, Control!EventThread

\* What a transfer of each kind adds to TransfersInv so that its types follow.
BulkTyping == SurplusInv /\ BulkStatic /\ Received /\ Retiring
IsoTyping == PacketsInv /\ IsoGivesUp /\ Retiring
Typing ==
    /\ type = "bulk" => BulkTyping
    /\ type = "iso" => IsoTyping
    /\ type = "control" => ControlStatic

LEMMA StartTyping == TransfersAssumption /\ Init => Typing
<1> SUFFICES ASSUME Init, TransfersAssumption PROVE Typing
  OBVIOUS
<1>1. ASSUME urbs = <<>>, num_retired = 0 PROVE Retiring
  <2>1. Len(urbs) = 0
    BY <1>1
  <2> QED BY <1>1, <2>1 DEF Retiring
<1>2. ASSUME type = "bulk", Bulk!Init PROVE BulkTyping
  <2>1. SurplusInv /\ Retiring
    BY <1>1, <1>2, StartSurplus DEF Bulk!Init
  <2>2. BulkStatic
    <3>1. supports_flag_bulk_continuation \in BOOLEAN /\ is_out \in BOOLEAN
      BY <1>2, Zenon DEF Bulk!Init
    <3>2. length = 0 /\ reap_action = "NORMAL" /\ endpoint = "ok" /\ submits = 0
      BY <1>2, Zenon DEF Bulk!Init
    <3>3. submits \in 0..MaxSubmits
      BY <3>2 DEF TransfersAssumption
    <3> QED BY <3>1, <3>2, <3>3 DEF BulkStatic
  <2>3. Received
    BY <1>2 DEF Bulk!Init, Received
  <2> QED BY <2>1, <2>2, <2>3 DEF BulkTyping
<1>3. ASSUME type = "iso", Iso!Init PROVE IsoTyping
  <2>1. Retiring /\ IsoGivesUp
    BY <1>1, <1>3 DEF Iso!Init, IsoGivesUp
  <2> QED BY <1>3, <2>1, PacketsStart DEF IsoTyping
<1>4. ASSUME type = "control", Control!Init PROVE ControlStatic
  BY <1>4 DEF Control!Init, ControlStatic, TransfersAssumption
<1> QED BY <1>2, <1>3, <1>4 DEF Init, Typing

LEMMA StepTyping ==
    ASSUME TransfersAssumption, TransfersInv, Typing, [Next]_vars PROVE Typing'
<1>1. type' = type
  BY DEF Next, OfBulk, OfIso, OfControl, vars
<1>2. CASE type = "bulk"
  <2>1. BulkInv /\ BulkTyping /\ (Bulk!Next \/ UNCHANGED vars)
    BY <1>2 DEF TransfersInv, Typing, Next, OfBulk, OfIso, OfControl
  <2>2. SurplusInv' /\ BulkStatic' /\ Received' /\ Retiring'
    BY <2>1, SurplusInduction, QuietSurplus, BulkStaticKept, ReceivedKept, BulkRetiring DEF BulkTyping
  <2> QED BY <1>1, <1>2, <2>2 DEF Typing, BulkTyping
<1>3. CASE type = "iso"
  <2>1. IsoInv /\ IsoTyping /\ (Iso!Next \/ UNCHANGED vars)
    BY <1>3 DEF TransfersInv, Typing, Next, OfBulk, OfIso, OfControl
  <2>2. PacketsInv' /\ IsoGivesUp' /\ Retiring'
    BY <2>1, PacketsInduction, QuietPackets, IsoGivesUpKept, IsoRetiring DEF IsoTyping
  <2> QED BY <1>1, <1>3, <2>2 DEF Typing, IsoTyping
<1>4. CASE type = "control"
  <2>1. ControlStatic /\ (Control!Next \/ UNCHANGED vars)
    BY <1>4 DEF Typing, Next, OfBulk, OfIso, OfControl
  <2> QED BY <1>1, <1>4, <2>1, ControlStaticKept DEF Typing
<1> QED BY <1>1, <1>2, <1>3, <1>4 DEF TransfersInv

\* Of a bulk, an isochronous or a control transfer of any length: every loop
\* and queue holds URBs of the array, no more of them are counted as retired
\* than there are, and no byte counted or stored is outside the user's buffer
\* or was not sent.
THEOREM TransfersTypes == Spec => []TypeOK
<1>1. Init => Typing
  BY StartTyping, TransfersAssumption
<1>2. TransfersInv /\ Typing /\ [Next]_vars => Typing'
  BY StepTyping, TransfersAssumption
<1>3. TransfersInv /\ Typing => TypeOK
  <2> SUFFICES ASSUME TransfersInv, Typing PROVE TypeOK
    OBVIOUS
  <2>1. ASSUME type = "bulk" PROVE Bulk!TypeOK
    BY <2>1, BulkTypes, TransfersAssumption DEF TransfersInv, Typing, BulkTyping
  <2>2. ASSUME type = "iso" PROVE Iso!TypeOK
    BY <2>2, IsoTypes DEF TransfersInv, Typing, IsoTyping
  <2>3. ASSUME type = "control" PROVE Control!TypeOK
    BY <2>3 DEF TransfersInv, ControlInv, Flags, Typing, ControlStatic, Control!TypeOK
  <2> QED BY <2>1, <2>2, <2>3 DEF TypeOK, TransfersInv
<1> QED BY <1>1, <1>2, <1>3, TransfersInvariant, PTL DEF Spec
=============================================================================
