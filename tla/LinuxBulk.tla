------------------------------ MODULE LinuxBulk ------------------------------
(***************************************************************************)
(* A bulk or interrupt transfer of the Linux backend (linux_usbfs.c).  The *)
(* transfer is cut into URBs which are all handed to the kernel; they are  *)
(* reaped one by one, some after the transfer was given up.  Three parties *)
(* interleave: the user's thread (submit, cancel), the thread that handles *)
(* events (reap, timeout, disconnect) and the kernel with the device.      *)
(* Submission and the loops of DISCARDURB hold the transfer's lock, one    *)
(* ioctl per step; the kernel moves between any two of them, and so does a *)
(* disconnection, which does not take the lock.  A loop then goes on over  *)
(* freed memory, which here holds what it held.                            *)
(*                                                                         *)
(* The URBs of an endpoint complete in the order of their submission.  The *)
(* bytes the device sends are numbered 1, 2, ... so that the user's buffer *)
(* shows where each of them ended up.                                      *)
(***************************************************************************)
EXTENDS Integers, Sequences, FiniteSets

CONSTANTS
    MAX_BULK_BUFFER_LENGTH,
    Lengths,            \* lengths of transfers
    MaxSubmits          \* bound: submissions in one behaviour

VARIABLES
    supports_flag_bulk_continuation, is_out, length,
    allocated,      \* tpriv->urbs is not NULL
    urbs,           \* what became of each URB, known to the kernel too
    num_retired, reap_action, reap_status,
    transferred, buffer,
    lock,           \* holder of itransfer->lock across steps, "free" if none
    todo,           \* URBs the holder still has to submit or to discard
    reaped,         \* URB reaped and waiting for the lock, 0 for none
    reporting,      \* completed and unlocked, the callback is to be called
    doneq,          \* URBs the kernel completed, to be reaped in this order
    endpoint,       \* "ok", "halted" or "disabled" by the continuation flag
    sent,           \* bytes the device delivered
    attached, polled,   \* the device; its file descriptor in the poll set
    pending, cancelled, result, submits

tpriv  == <<allocated, num_retired, reap_action, reap_status, transferred>>
kernel == <<doneq, endpoint, sent, attached>>
static == <<supports_flag_bulk_continuation, is_out, length>>
user   == <<pending, cancelled, result, submits>>
vars == <<static, tpriv, urbs, buffer, lock, todo, reaped, reporting, kernel,
          polled, user>>

-----------------------------------------------------------------------------
Max(a, b) == IF a > b THEN a ELSE b

NumUrbs(n) ==
    Max(1, (n + MAX_BULK_BUFFER_LENGTH - 1) \div MAX_BULK_BUFFER_LENGTH)

num_urbs == Len(urbs)
Offset(i) == (i - 1) * MAX_BULK_BUFFER_LENGTH

\* Mutant: the last URB is as long as the others.
buffer_lengthFull(i) == MAX_BULK_BUFFER_LENGTH

\* MAX_BULK_BUFFER_LENGTH, or what remains for the last URB.
buffer_length(i) == IF i < num_urbs THEN MAX_BULK_BUFFER_LENGTH
                                    ELSE length - Offset(i)

\* USBFS_URB_BULK_CONTINUATION is set on every URB but the first.
Continues(i) == supports_flag_bulk_continuation /\ i > 1

URB(st, status, n) == [st |-> st, status |-> status, actual_length |-> n]

Queued == {i \in 1..num_urbs : urbs[i].st = "queued"}
InOrder(S) == [k \in 1..Cardinality(S) |->
                 CHOOSE i \in S : Cardinality({j \in S : j < i}) = k - 1]

\* The kernel holds the memory of URBs it has not handed back.
held == Queued # {} \/ (polled /\ doneq # <<>>)

Init ==
    /\ supports_flag_bulk_continuation \in BOOLEAN
    /\ is_out = FALSE /\ length = 0
    /\ allocated = FALSE /\ urbs = <<>> /\ num_retired = 0
    /\ reap_action = "NORMAL" /\ reap_status = "COMPLETED"
    /\ transferred = 0 /\ buffer = <<>>
    /\ lock = "free" /\ todo = <<>> /\ reaped = 0 /\ reporting = FALSE
    /\ doneq = <<>> /\ endpoint = "ok" /\ sent = 0
    /\ attached = TRUE /\ polled = TRUE
    /\ pending = FALSE /\ cancelled = FALSE /\ result = "none" /\ submits = 0

-----------------------------------------------------------------------------
(* submit_bulk_transfer *)

Submit(n, out) ==
    /\ ~pending /\ lock = "free" /\ submits < MaxSubmits
    /\ ~allocated                           \* else LIBUSB_ERROR_BUSY
    /\ length' = n /\ is_out' = out
    /\ urbs' = [i \in 1..NumUrbs(n) |-> URB("new", "OK", 0)]
    /\ buffer' = [k \in 1..n |-> 0]
    /\ allocated' = TRUE /\ num_retired' = 0
    /\ reap_action' = "NORMAL" /\ reap_status' = "COMPLETED"
    /\ transferred' = 0
    /\ lock' = "submit" /\ todo' = [i \in 1..NumUrbs(n) |-> i]
    /\ doneq' = <<>> /\ endpoint' = "ok" /\ sent' = 0
    /\ pending' = TRUE /\ cancelled' = FALSE /\ result' = "none"
    /\ submits' = submits + 1
    /\ UNCHANGED <<supports_flag_bulk_continuation, reaped, reporting,
                   attached, polled>>

SubmitUrb ==
    /\ lock = "submit"
    /\ LET i == Head(todo)
       IN /\ attached /\ ~(endpoint = "disabled" /\ Continues(i))
          /\ urbs' = [urbs EXCEPT ![i].st = "queued"]
          /\ lock' = IF i = num_urbs THEN "free" ELSE "submit"
    /\ todo' = Tail(todo)
    /\ UNCHANGED <<static, tpriv, buffer, reaped, reporting, kernel, polled, user>>

\* Nothing is in flight: free and fail.
FirstUrbRefused ==
    /\ lock = "submit" /\ Head(todo) = 1
    /\ allocated' = FALSE /\ pending' = FALSE
    /\ lock' = "free" /\ todo' = <<>>
    /\ UNCHANGED <<static, num_retired, reap_action, reap_status, transferred,
                   urbs, buffer, reaped, reporting, kernel, polled,
                   cancelled, result, submits>>

\* Some are in flight: count the others as retired and discard these, unless
\* the kernel refused because the transfer is already over (EREMOTEIO).
LaterUrbRefused(errno) ==
    /\ lock = "submit" /\ Head(todo) > 1
    /\ errno = "EREMOTEIO" <=> endpoint = "disabled" /\ Continues(Head(todo))
    /\ num_retired' = num_retired + num_urbs - Head(todo) + 1
    /\ IF errno = "EREMOTEIO"
       THEN /\ reap_action' = "COMPLETED_EARLY"
            /\ lock' = "free" /\ todo' = <<>>
       ELSE /\ reap_action' = "SUBMIT_FAILED"
            /\ lock' = "discard" /\ todo' = [j \in 1..(Head(todo) - 1) |-> j]
    /\ UNCHANGED <<static, allocated, reap_status, transferred, urbs, buffer,
                   reaped, reporting, kernel, polled, user>>

-----------------------------------------------------------------------------
(* The kernel and the device *)

\* URB i ends with n more bytes from the device.
Completes(i, n) ==
    /\ sent' = sent + n
    /\ buffer' = [k \in DOMAIN buffer |->
                    IF k - Offset(i) \in 1..n THEN sent + k - Offset(i)
                                              ELSE buffer[k]]

Oldest(i) == \A j \in Queued : i <= j

\* How URB i can end: in full, short, or with an error and what had arrived;
\* "overflow can only ever occur in the last urb".
Possible(i, status, n) ==
    LET full  == n = buffer_length(i)
        short == ~is_out /\ ~full
    IN /\ status = "OK" => full \/ (short /\ ~supports_flag_bulk_continuation)
       /\ status = "EREMOTEIO" => short /\ supports_flag_bulk_continuation
       /\ status = "EOVERFLOW" => ~is_out /\ i = num_urbs
       /\ status \in {"EPIPE", "EPROTO", "EOTHER"} => ~full \/ n = 0

\* Errors other than a cancellation disable the endpoint for URBs that
\* continue the transfer, and cancel those already queued.
DeviceAnswers(status, n) ==
    /\ attached /\ endpoint = "ok" /\ Queued # {}
    /\ LET i == CHOOSE j \in Queued : Oldest(j)
           rest == IF supports_flag_bulk_continuation /\ status # "OK"
                   THEN Queued \ {i} ELSE {}
       IN /\ n \in 0..buffer_length(i)
          /\ Possible(i, status, n)
          /\ Completes(i, n)
          /\ urbs' = [j \in 1..num_urbs |->
                        IF j = i THEN URB("done", status, n)
                        ELSE IF j \in rest THEN URB("done", "ENOENT", 0)
                        ELSE urbs[j]]
          /\ doneq' = doneq \o <<i>> \o InOrder(rest)
    /\ endpoint' = IF status = "OK" THEN "ok"
                   ELSE IF supports_flag_bulk_continuation THEN "disabled"
                   ELSE IF status \in {"EPIPE", "EOTHER"} THEN "halted" ELSE "ok"
    /\ UNCHANGED <<static, tpriv, lock, todo, reaped, reporting, attached,
                   polled, user>>

\* IOCTL_USBFS_DISCARDURB: EINVAL for an URB that is not in flight.  The URB
\* at the head of the queue may keep bytes that had already arrived.
DiscardUrb(n) ==
    /\ lock = "discard"
    /\ LET j == Head(todo)
           head == Oldest(j) /\ endpoint = "ok" /\ attached
       IN IF j \in Queued
          THEN /\ n = 0 \/ (head /\ n \in 0..buffer_length(j))
               /\ Completes(j, n)
               /\ urbs' = [urbs EXCEPT ![j] = URB("done", "ENOENT", n)]
               /\ doneq' = Append(doneq, j)
          ELSE n = 0 /\ UNCHANGED <<sent, buffer, urbs, doneq>>
    /\ todo' = Tail(todo)
    /\ lock' = IF Len(todo) = 1 THEN "free" ELSE "discard"
    /\ UNCHANGED <<static, tpriv, reaped, reporting, endpoint, attached,
                   polled, user>>

Unplug ==
    /\ attached
    /\ attached' = FALSE
    /\ urbs' = [i \in 1..num_urbs |-> IF i \in Queued THEN URB("done", "EOTHER", 0)
                                                      ELSE urbs[i]]
    /\ doneq' = doneq \o InOrder(Queued)
    /\ UNCHANGED <<static, tpriv, buffer, lock, todo, reaped, reporting,
                   endpoint, sent, polled, user>>

-----------------------------------------------------------------------------
(* cancel_bulk_transfer, by the user or by the event thread's timeout *)

Discarding(S) ==
    /\ todo' = InOrder(S)
    /\ lock' = IF S = {} THEN "free" ELSE "discard"

Cancel ==
    /\ lock = "free" /\ allocated           \* else LIBUSB_ERROR_NOT_FOUND
    /\ pending
    /\ ~cancelled       \* every URB a second call would discard is discarded
    /\ reap_action' = IF reap_action = "ERROR" THEN "ERROR" ELSE "CANCELLED"
    /\ Discarding(1..num_urbs)
    /\ cancelled' = TRUE
    /\ UNCHANGED <<static, allocated, num_retired, reap_status, transferred,
                   urbs, buffer, reaped, reporting, kernel, polled,
                   pending, result, submits>>

-----------------------------------------------------------------------------
(* reap_for_handle and handle_bulk_completion *)

\* The loop in progress is the event thread's own, of cancel_remaining.
CancelsRemaining == lock = "discard" /\ ~cancelled /\ reap_action # "SUBMIT_FAILED"

Reap ==
    /\ reaped = 0 /\ ~reporting /\ ~CancelsRemaining /\ polled /\ doneq # <<>>
    /\ reaped' = Head(doneq) /\ doneq' = Tail(doneq)
    /\ UNCHANGED <<static, tpriv, urbs, buffer, lock, todo, reporting, endpoint,
                   sent, attached, polled, user>>

retired == num_retired + 1
LastRetired == retired = num_urbs

\* The label completed: free the URBs and unlock.
Completed(really) ==
    /\ allocated' = (allocated /\ ~really)
    /\ reporting' = really

\* Mutant: the first error is not remembered.
UnwantedForgotten(status) == reap_status

Unwanted(status) == IF reap_status = "COMPLETED" THEN status ELSE reap_status

\* Mutant: surplus data stays where it arrived.
HandleAbnormalReapInPlace ==
    /\ reaped # 0 /\ lock = "free" /\ reap_action # "NORMAL"
    /\ num_retired' = retired
    /\ LET n == urbs[reaped].actual_length
       IN /\ buffer' = buffer
          /\ transferred' = transferred + n
    /\ reap_status' = IF LastRetired /\ reap_action # "COMPLETED_EARLY"
                      THEN Unwanted("ERROR") ELSE reap_status
    /\ urbs' = [urbs EXCEPT ![reaped].st = "reaped"]
    /\ Completed(LastRetired)
    /\ reaped' = 0
    /\ UNCHANGED <<static, reap_action, lock, todo, kernel, polled, user>>

\* The transfer was cancelled, failed or completed early: bytes that come all
\* the same are moved behind those that came before.
HandleAbnormalReap ==
    /\ reaped # 0 /\ lock = "free" /\ reap_action # "NORMAL"
    /\ num_retired' = retired
    /\ LET n == urbs[reaped].actual_length
       IN /\ buffer' = [k \in DOMAIN buffer |->
                          IF k - transferred \in 1..n
                          THEN buffer[Offset(reaped) + k - transferred]
                          ELSE buffer[k]]
          /\ transferred' = transferred + n
    /\ reap_status' = IF LastRetired /\ reap_action # "COMPLETED_EARLY"
                      THEN Unwanted("ERROR") ELSE reap_status
    /\ urbs' = [urbs EXCEPT ![reaped].st = "reaped"]
    /\ Completed(LastRetired)
    /\ reaped' = 0
    /\ UNCHANGED <<static, reap_action, lock, todo, kernel, polled, user>>

\* Mutant: there is always something left to cancel.
CancelRemainingAlways ==
    /\ Completed(FALSE)
    /\ Discarding(IF LastRetired THEN {}
                  ELSE {j \in (reaped + 1)..num_urbs : ~Continues(j)})

\* The label cancel_remaining, with the URBs the kernel will not cancel itself.
CancelRemaining ==
    /\ Completed(LastRetired)
    /\ Discarding(IF LastRetired THEN {}
                  ELSE {j \in (reaped + 1)..num_urbs : ~Continues(j)})

\* Mutant: a short URB completes the transfer at once.
HandleGoodReapEarly ==
    /\ reaped # 0 /\ lock = "free" /\ reap_action = "NORMAL"
    /\ LET u == urbs[reaped]
           early == reaped < num_urbs /\ u.actual_length < buffer_length(reaped)
       IN /\ u.status \in {"OK", "EREMOTEIO"}
          /\ transferred' = transferred + u.actual_length
          /\ reap_action' = IF early THEN "COMPLETED_EARLY" ELSE "NORMAL"
          /\ Completed(early \/ reaped = num_urbs) /\ UNCHANGED <<lock, todo>>
    /\ num_retired' = retired
    /\ urbs' = [urbs EXCEPT ![reaped].st = "reaped"]
    /\ reaped' = 0
    /\ UNCHANGED <<static, reap_status, buffer, kernel, polled, user>>

HandleGoodReap ==
    /\ reaped # 0 /\ lock = "free" /\ reap_action = "NORMAL"
    /\ LET u == urbs[reaped]
           early == reaped < num_urbs /\ u.actual_length < buffer_length(reaped)
       IN /\ u.status \in {"OK", "EREMOTEIO"}
          /\ transferred' = transferred + u.actual_length
          /\ reap_action' = IF early THEN "COMPLETED_EARLY" ELSE "NORMAL"
          /\ IF early THEN CancelRemaining
                      ELSE Completed(reaped = num_urbs) /\ UNCHANGED <<lock, todo>>
    /\ num_retired' = retired
    /\ urbs' = [urbs EXCEPT ![reaped].st = "reaped"]
    /\ reaped' = 0
    /\ UNCHANGED <<static, reap_status, buffer, kernel, polled, user>>

HandleOverflow ==
    /\ reaped # 0 /\ lock = "free" /\ reap_action = "NORMAL"
    /\ urbs[reaped].status = "EOVERFLOW"
    /\ transferred' = transferred + urbs[reaped].actual_length
    /\ reap_status' = Unwanted("OVERFLOW")
    /\ Completed(TRUE)
    /\ num_retired' = retired
    /\ urbs' = [urbs EXCEPT ![reaped].st = "reaped"]
    /\ reaped' = 0
    /\ UNCHANGED <<static, reap_action, buffer, lock, todo, kernel, polled, user>>

\* A stall, a low level error (EPROTO stands for ETIME and EILSEQ too), or a
\* status the switch does not know.
HandleFailedReap ==
    /\ reaped # 0 /\ lock = "free" /\ reap_action = "NORMAL"
    /\ LET status == urbs[reaped].status
       IN /\ status \notin {"OK", "EREMOTEIO", "EOVERFLOW"}
          /\ reap_status' = Unwanted(IF status = "EPIPE" THEN "STALL" ELSE "ERROR")
          /\ reap_action' = IF status = "EPROTO" THEN "ERROR" ELSE "NORMAL"
    /\ CancelRemaining
    /\ num_retired' = retired
    /\ urbs' = [urbs EXCEPT ![reaped].st = "reaped"]
    /\ reaped' = 0
    /\ UNCHANGED <<static, transferred, buffer, kernel, polled, user>>

\* Mutant: a submission that failed half way counts as cancelled.
ReportCancelled ==
    /\ reporting /\ reporting' = FALSE
    /\ pending' = FALSE
    /\ result' = IF reap_action \in {"CANCELLED", "SUBMIT_FAILED"} THEN "CANCELLED" ELSE reap_status
    /\ UNCHANGED <<static, tpriv, urbs, buffer, lock, todo, reaped, kernel,
                   polled, cancelled, submits>>

\* usbi_handle_transfer_cancellation or usbi_handle_transfer_completion.
\* reap_action is read after the lock was released.
Report ==
    /\ reporting /\ reporting' = FALSE
    /\ pending' = FALSE
    /\ result' = IF reap_action = "CANCELLED" THEN "CANCELLED" ELSE reap_status
    /\ UNCHANGED <<static, tpriv, urbs, buffer, lock, todo, reaped, kernel,
                   polled, cancelled, submits>>

\* op_handle_events sees POLLERR: usbi_handle_disconnect calls
\* op_clear_transfer_priv and reports every transfer of the handle, whatever
\* another thread is doing with the lock.
HandleDisconnect ==
    /\ ~attached /\ polled /\ reaped = 0 /\ ~reporting /\ ~CancelsRemaining
    /\ polled' = FALSE
    /\ allocated' = FALSE
    /\ pending' = FALSE
    /\ result' = IF pending THEN "NO_DEVICE" ELSE result
    /\ UNCHANGED <<static, num_retired, reap_action, reap_status, transferred,
                   urbs, buffer, lock, todo, reaped, reporting, kernel,
                   cancelled, submits>>

-----------------------------------------------------------------------------
KernelStatuses == {"OK", "EREMOTEIO", "EPIPE", "EOVERFLOW", "EPROTO", "EOTHER"}

EventThread ==
    \/ Reap \/ HandleAbnormalReap \/ HandleGoodReap \/ HandleOverflow
    \/ HandleFailedReap \/ Report \/ HandleDisconnect

\* The user's thread, and whoever is in a loop of ioctls.
InCall ==
    \/ SubmitUrb \/ FirstUrbRefused
    \/ \E errno \in {"EREMOTEIO", "EIO"} : LaterUrbRefused(errno)
    \/ \E n \in 0..MAX_BULK_BUFFER_LENGTH : DiscardUrb(n)

Next ==
    \/ \E n \in Lengths, out \in BOOLEAN : Submit(n, out)
    \/ InCall \/ Cancel \/ EventThread
    \/ \E status \in KernelStatuses, n \in 0..MAX_BULK_BUFFER_LENGTH :
         DeviceAnswers(status, n)
    \/ Unplug

\* Neither thread stops between two of its steps; the device may never answer.
Fairness == WF_vars(EventThread) /\ WF_vars(InCall)

Spec == Init /\ [][Next]_vars
FairSpec == Spec /\ Fairness

-----------------------------------------------------------------------------
(* Properties *)

TypeOK ==
    /\ supports_flag_bulk_continuation \in BOOLEAN /\ is_out \in BOOLEAN
    /\ length \in Lengths \cup {0}
    /\ allocated \in BOOLEAN
    /\ \A i \in 1..num_urbs :
         urbs[i] \in [st : {"new", "queued", "done", "reaped"},
                      status : KernelStatuses \cup {"ENOENT"},
                      actual_length : 0..MAX_BULK_BUFFER_LENGTH]
    /\ num_retired \in 0..num_urbs
    /\ reap_action \in {"NORMAL", "SUBMIT_FAILED", "CANCELLED",
                        "COMPLETED_EARLY", "ERROR"}
    /\ reap_status \in {"COMPLETED", "ERROR", "STALL", "OVERFLOW"}
    /\ transferred \in 0..length
    /\ buffer \in [1..length -> 0..sent]
    /\ lock \in {"free", "submit", "discard"}
    /\ lock = "free" <=> todo = <<>>
    /\ todo \in Seq(1..num_urbs) /\ doneq \in Seq(1..num_urbs)
    /\ reaped \in 0..num_urbs /\ reporting \in BOOLEAN
    /\ endpoint \in {"ok", "halted", "disabled"} /\ sent \in Nat
    /\ attached \in BOOLEAN /\ polled \in BOOLEAN
    /\ pending \in BOOLEAN /\ cancelled \in BOOLEAN
    /\ submits \in 0..MaxSubmits

\* tpriv->urbs is freed only when the kernel holds none of the URBs, none was
\* reaped without being handled and, but for a disconnection, no thread is in
\* a loop over the array ("otherwise libusb will be using freed memory").
FreedWhenUnused ==
    ~allocated => reaped = 0 /\ ~held /\ (lock = "free" \/ ~polled)

\* "The OS backend should also take this lock in the handle_events path": the
\* array is not freed while another thread holds the lock.
FreedUnderLock == ~allocated => lock = "free"

Failed(i) == urbs[i].status \in {"EPIPE", "EPROTO", "EOTHER", "EOVERFLOW"}

\* "Our objectives are not to lose any surplus data, and also to stick it at
\* the end of the previously-received data (closing any holes)": the bytes
\* reported are those of the device, in its order; without an error, all.
SurplusDataKept ==
    ~is_out =>
      /\ \A k \in 1..transferred :
           /\ buffer[k] # 0
           /\ k > 1 => buffer[k - 1] < buffer[k]
      /\ result \in {"COMPLETED", "CANCELLED"} =>
           (\E i \in 1..num_urbs : Failed(i)) \/ transferred = sent

Short(i) ==
    /\ urbs[i].status \in {"OK", "EREMOTEIO"}
    /\ urbs[i].actual_length < buffer_length(i)

\* A transfer is reported as completed only if no URB failed before the
\* device ended it with a short one, or the kernel refused a later URB.
CompletedMeansDone ==
    result = "COMPLETED" =>
      \A i \in 1..num_urbs : Failed(i) =>
        \/ \E j \in 1..(i - 1) : Short(j)
        \/ \E j \in 1..num_urbs : urbs[j].st = "new"

\* Once a transfer was given up (cancelled, timed out, submitted only in part,
\* failed or completed early) it is reported even if the device never answers.
GivenUpIsReported ==
    pending /\ (reap_action # "NORMAL" \/ reap_status # "COMPLETED") ~> ~pending

\* Every accepted submission is reported once, by then the kernel holds
\* nothing of it, and CANCELLED is only reported if it was cancelled.
Transfer == INSTANCE UsbTransfer
ImplementsUsbTransfer == Transfer!Spec
=============================================================================
