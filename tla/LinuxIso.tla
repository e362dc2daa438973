------------------------------- MODULE LinuxIso -------------------------------
(***************************************************************************)
(* An isochronous transfer of the Linux backend (linux_usbfs.c): packets   *)
(* are packed into URBs of at most MAX_ISO_BUFFER_LENGTH bytes, counted by *)
(* one loop and filled by another, and each URB's packet results are       *)
(* copied to the user's descriptors from a running offset as it is reaped. *)
(* Locks, reaping and discarding are those of LinuxBulk.                   *)
(***************************************************************************)
EXTENDS Integers, Sequences, FiniteSets, SequencesExt

CONSTANTS
    MAX_ISO_BUFFER_LENGTH,
    PacketLists,    \* lengths of the packets of a transfer, as sequences
    UrbsFail        \* an URB may complete with an error of its own

VARIABLES
    length,         \* iso_packet_desc[].length
    desc,           \* the packet whose result each descriptor holds, or 0
    allocated,      \* tpriv->iso_urbs is not NULL
    urbs,           \* packets and fate of each URB
    num_retired, reap_action, iso_packet_offset,
    lock, todo, reaped, doneq, attached, polled,
    pending, cancelled, result

submitted == <<length, urbs>>
tpriv == <<allocated, num_retired, reap_action, iso_packet_offset>>
user  == <<pending, cancelled, result>>
vars  == <<length, desc, tpriv, urbs, lock, todo, reaped, doneq, attached,
           polled, user>>

-----------------------------------------------------------------------------
(* The two loops of submit_iso_transfer *)

Fits(packet, used) == packet <= MAX_ISO_BUFFER_LENGTH - used

\* The first loop: URBs needed and bytes in the last of them, after one more
\* packet.  A negative space_remaining is converted to unsigned, so that
\* anything fits.
CountPacket(acc, packet) ==
    IF acc.used <= MAX_ISO_BUFFER_LENGTH /\ ~Fits(packet, acc.used)
    THEN [n |-> acc.n + 1, used |-> packet]
    ELSE [n |-> acc.n, used |-> acc.used + packet]

Counts(lens) ==
    LET c[k \in 0..Len(lens)] == IF k = 0 THEN [n |-> 1, used |-> 0]
                                  ELSE CountPacket(c[k - 1], lens[k])
    IN c

num_urbs(lens) == Counts(lens)[Len(lens)].n

\* Bytes of the first k packets.
Before(lens) ==
    LET b[k \in 0..Len(lens)] == IF k = 0 THEN 0 ELSE b[k - 1] + lens[k]
    IN b

\* Where an URB that begins after packet "from" can end.
Ending(lens, from) ==
    {k \in from..Len(lens) :
       Before(lens)[k] - Before(lens)[from] <= MAX_ISO_BUFFER_LENGTH}

\* The second loop: each URB swallows the packets that fit, so the first i
\* URBs have so many.
Swallowed(lens) ==
    LET s[i \in 0..num_urbs(lens)] ==
            IF i = 0 THEN 0
            ELSE CHOOSE k \in Ending(lens, s[i - 1]) :
                   \A j \in Ending(lens, s[i - 1]) : j <= k
    IN s

Fill(lens) ==
    LET s == Swallowed(lens)
    IN [i \in 1..num_urbs(lens) |->
          [k \in 1..(s[i] - s[i - 1]) |-> s[i - 1] + k]]

N == Len(urbs)
Queued == {i \in 1..N : urbs[i].st = "queued"}
InOrder(S) == [k \in 1..Cardinality(S) |->
                 CHOOSE i \in S : Cardinality({j \in S : j < i}) = k - 1]
held == Queued # {} \/ (polled /\ doneq # <<>>)

Init ==
    /\ length = <<>> /\ desc = <<>> /\ urbs = <<>>
    /\ allocated = FALSE /\ num_retired = 0
    /\ reap_action = "NORMAL" /\ iso_packet_offset = 0
    /\ lock = "free" /\ todo = <<>> /\ reaped = 0 /\ doneq = <<>>
    /\ attached = TRUE /\ polled = TRUE
    /\ pending = FALSE /\ cancelled = FALSE /\ result = "none"

Submit(lens) ==
    /\ ~pending /\ ~allocated /\ lock = "free" /\ result = "none"
    /\ length' = lens /\ desc' = [k \in 1..Len(lens) |-> 0]
    /\ urbs' = [i \in 1..num_urbs(lens) |->
                  [st |-> "new", status |-> "OK", packets |-> Fill(lens)[i]]]
    /\ allocated' = TRUE /\ num_retired' = 0
    /\ reap_action' = "NORMAL" /\ iso_packet_offset' = 0
    /\ lock' = "submit" /\ todo' = [i \in 1..num_urbs(lens) |-> i]
    /\ pending' = TRUE
    /\ UNCHANGED <<reaped, doneq, attached, polled, cancelled, result>>

SubmitUrb ==
    /\ lock = "submit" /\ attached
    /\ urbs' = [urbs EXCEPT ![Head(todo)].st = "queued"]
    /\ lock' = IF Head(todo) = N THEN "free" ELSE "submit"
    /\ todo' = Tail(todo)
    /\ UNCHANGED <<length, desc, tpriv, reaped, doneq, attached, polled, user>>

UrbRefused ==
    /\ lock = "submit"
    /\ LET i == Head(todo)
       IN IF i = 1
          THEN /\ allocated' = FALSE /\ pending' = FALSE
               /\ lock' = "free" /\ todo' = <<>>
               /\ UNCHANGED <<num_retired, reap_action>>
          ELSE /\ reap_action' = "SUBMIT_FAILED"
               /\ num_retired' = N - i + 1
               /\ lock' = "discard" /\ todo' = [j \in 1..(i - 1) |-> j]
               /\ UNCHANGED <<allocated, pending>>
    /\ UNCHANGED <<submitted, desc, iso_packet_offset, reaped, doneq, attached,
                   polled, cancelled, result>>

-----------------------------------------------------------------------------
(* The kernel *)

Ends(i, status) ==
    /\ urbs' = [urbs EXCEPT ![i] = [st |-> "done", status |-> status, packets |-> @.packets]]
    /\ doneq' = Append(doneq, i)

UrbEnds(status) ==
    /\ attached /\ Queued # {}
    /\ Ends(CHOOSE i \in Queued : \A j \in Queued : i <= j, status)
    /\ UNCHANGED <<length, desc, tpriv, lock, todo, reaped, attached, polled, user>>

DiscardUrb ==
    /\ lock = "discard"
    /\ IF Head(todo) \in Queued THEN Ends(Head(todo), "ENOENT")
                                ELSE UNCHANGED <<urbs, doneq>>
    /\ todo' = Tail(todo)
    /\ lock' = IF Len(todo) = 1 THEN "free" ELSE "discard"
    /\ UNCHANGED <<length, desc, tpriv, reaped, attached, polled, user>>

Unplug ==
    /\ attached /\ attached' = FALSE
    /\ urbs' = [i \in 1..N |-> IF i \in Queued
                               THEN [st |-> "done", status |-> "EOTHER",
                                     packets |-> urbs[i].packets]
                               ELSE urbs[i]]
    /\ doneq' = doneq \o InOrder(Queued)
    /\ UNCHANGED <<length, desc, tpriv, lock, todo, reaped, polled, user>>

-----------------------------------------------------------------------------
(* cancel_iso_transfer and handle_iso_completion *)

Cancel ==
    /\ lock = "free" /\ allocated /\ pending /\ ~cancelled
    /\ reap_action' = "CANCELLED" /\ cancelled' = TRUE
    /\ lock' = "discard" /\ todo' = [i \in 1..N |-> i]
    /\ UNCHANGED <<submitted, desc, allocated, num_retired, iso_packet_offset,
                   reaped, doneq, attached, polled, pending, result>>

Reap ==
    /\ reaped = 0 /\ polled /\ doneq # <<>>
    /\ reaped' = Head(doneq) /\ doneq' = Tail(doneq)
    /\ UNCHANGED <<submitted, desc, tpriv, lock, todo, attached, polled, user>>

Final(i) == IF reap_action = "NORMAL" THEN i = N ELSE num_retired + 1 = N

Outcome == CASE reap_action = "NORMAL"    -> "COMPLETED"
             [] reap_action = "CANCELLED" -> "CANCELLED"
             [] OTHER                     -> "ERROR"

\* Mutant: the offset of the next descriptor is not moved on.
CopyResultsStuck(i) ==
    LET n == IF urbs[i].status = "OK" THEN Len(urbs[i].packets) ELSE 0
    IN /\ desc' = [k \in DOMAIN desc |->
                     IF k - iso_packet_offset \in 1..n
                     THEN urbs[i].packets[k - iso_packet_offset] ELSE desc[k]]
       /\ UNCHANGED iso_packet_offset

\* The results of a successful URB go to the next descriptors.
CopyResults(i) ==
    LET n == IF urbs[i].status = "OK" THEN Len(urbs[i].packets) ELSE 0
    IN /\ desc' = [k \in DOMAIN desc |->
                     IF k - iso_packet_offset \in 1..n
                     THEN urbs[i].packets[k - iso_packet_offset] ELSE desc[k]]
       /\ iso_packet_offset' = iso_packet_offset + n

HandleReap ==
    /\ reaped # 0 /\ lock = "free"
    /\ CopyResults(reaped)
    /\ num_retired' = num_retired + 1
    /\ urbs' = [urbs EXCEPT ![reaped].st = "reaped"]
    /\ reaped' = 0
    /\ IF Final(reaped)
       THEN allocated' = FALSE /\ pending' = FALSE /\ result' = Outcome
       ELSE UNCHANGED <<allocated, pending, result>>
    /\ UNCHANGED <<length, reap_action, lock, todo, doneq, attached, polled, cancelled>>

\* Without the lock, as for a bulk transfer.
HandleDisconnect ==
    /\ ~attached /\ polled /\ reaped = 0
    /\ polled' = FALSE /\ allocated' = FALSE /\ pending' = FALSE
    /\ result' = IF pending THEN "NO_DEVICE" ELSE result
    /\ UNCHANGED <<submitted, desc, num_retired, reap_action, iso_packet_offset,
                   lock, todo, reaped, doneq, attached, cancelled>>

EventThread == Reap \/ HandleReap \/ HandleDisconnect
InCall == SubmitUrb \/ UrbRefused \/ DiscardUrb

Next ==
    \/ \E lens \in PacketLists : Submit(lens)
    \/ InCall \/ Cancel \/ EventThread
    \/ \E status \in {"OK"} \cup (IF UrbsFail THEN {"EPROTO"} ELSE {}) : UrbEnds(status)
    \/ Unplug

Spec == Init /\ [][Next]_vars
FairSpec == Spec /\ WF_vars(EventThread) /\ WF_vars(InCall)

-----------------------------------------------------------------------------
(* Properties *)

TypeOK ==
    /\ allocated \in BOOLEAN /\ num_retired \in 0..N
    /\ reap_action \in {"NORMAL", "SUBMIT_FAILED", "CANCELLED"}
    /\ desc \in [1..Len(length) -> 0..Len(length)]
    /\ iso_packet_offset \in 0..Len(length)
    /\ lock \in {"free", "submit", "discard"} /\ reaped \in 0..N
    /\ todo \in Seq(1..N) /\ doneq \in Seq(1..N)

\* If no packet is larger than an URB, the loop that fills the URBs places
\* every packet in as many URBs as the loop that counts them announced, in
\* order (submit_iso_transfer).
PacketsArePacked ==
    (\A k \in DOMAIN length : length[k] <= MAX_ISO_BUFFER_LENGTH) =>
        FlattenSeq([i \in 1..N |-> urbs[i].packets]) = [k \in DOMAIN length |-> k]

\* iso_urbs is freed only when no URB and, but for a disconnection, no thread
\* uses it any more.
FreedWhenUnused == ~allocated => reaped = 0 /\ ~held /\ (lock = "free" \/ ~polled)

\* A transfer that completes without any URB failing has filled every
\* descriptor with the result of its own packet.
CompletedFillsDescriptors ==
    result = "COMPLETED" /\ (\A i \in 1..N : urbs[i].status = "OK") =>
        \A i \in 1..N : \A k \in ToSet(urbs[i].packets) : desc[k] = k

\* A cancelled or half submitted transfer is reported even if nothing is
\* ever transferred again.
GivenUpIsReported == pending /\ reap_action # "NORMAL" ~> ~pending

\* One report per submission, when the kernel holds nothing of it any more.
Transfer == INSTANCE UsbTransfer
ImplementsUsbTransfer == Transfer!Spec
=============================================================================
