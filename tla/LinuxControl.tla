----------------------------- MODULE LinuxControl -----------------------------
(***************************************************************************)
(* A control transfer of the Linux backend (linux_usbfs.c): one URB, which *)
(* a cancellation discards while the device may be answering it.  Each     *)
(* libusb call of libirpc but the bulk transfer rests on such transfers.   *)
(* The lock is held from the allocation of the URB to the kernel's answer  *)
(* and over DISCARDURB, but not by a disconnection, as in LinuxBulk.       *)
(***************************************************************************)
EXTENDS Integers

CONSTANTS
    MAX_CTRL_BUFFER_LENGTH,
    SETUP,          \* LIBUSB_CONTROL_SETUP_SIZE
    Lengths,        \* transfer->length, setup packet and data
    MaxSubmits      \* bound: submissions in one behaviour

VARIABLES
    length, allocated, reap_action, transferred,
    urb,            \* in the kernel, ended there, or gone
    status, actual_length,      \* how the URB ended
    lock,           \* holder of itransfer->lock across steps, "free" if none
    attached, polled, pending, cancelled, result, submits

user == <<pending, cancelled, result, submits>>
vars == <<length, allocated, reap_action, transferred, urb, status,
          actual_length, lock, attached, polled, user>>

held == urb = "queued" \/ (polled /\ urb = "done")

Init ==
    /\ length = SETUP /\ allocated = FALSE /\ reap_action = "NORMAL"
    /\ transferred = 0 /\ urb = "none" /\ status = "OK" /\ actual_length = 0
    /\ lock = "free" /\ attached = TRUE /\ polled = TRUE
    /\ pending = FALSE /\ cancelled = FALSE /\ result = "none" /\ submits = 0

\* submit_control_transfer, which refuses a transfer that is too long.
Submit(n) ==
    /\ ~pending /\ lock = "free" /\ submits < MaxSubmits
    /\ ~allocated                           \* else LIBUSB_ERROR_BUSY
    /\ n - SETUP <= MAX_CTRL_BUFFER_LENGTH
    /\ length' = n /\ transferred' = 0 /\ allocated' = TRUE /\ reap_action' = "NORMAL"
    /\ lock' = "submit"
    /\ pending' = TRUE /\ cancelled' = FALSE /\ result' = "none" /\ submits' = submits + 1
    /\ UNCHANGED <<urb, status, actual_length, attached, polled>>

SubmitUrb ==
    /\ lock = "submit" /\ lock' = "free" /\ attached /\ urb' = "queued"
    /\ UNCHANGED <<length, allocated, reap_action, transferred, status, actual_length,
                   attached, polled, user>>

\* The kernel does not take the URB, which is freed.
UrbRefused ==
    /\ lock = "submit" /\ lock' = "free" /\ allocated' = FALSE /\ pending' = FALSE
    /\ UNCHANGED <<length, reap_action, transferred, urb, status, actual_length,
                   attached, polled, cancelled, result, submits>>

UrbEnds(s, n) ==
    /\ urb = "queued" /\ urb' = "done"
    /\ status' = s /\ actual_length' = n

DeviceAnswers(s, n) ==
    /\ attached
    /\ UrbEnds(s, n)
    /\ UNCHANGED <<length, allocated, reap_action, transferred, lock, attached, polled, user>>

Unplug ==
    /\ attached /\ attached' = FALSE
    /\ urb = "queued" => UrbEnds("EOTHER", 0)
    /\ urb # "queued" => UNCHANGED <<urb, status, actual_length>>
    /\ UNCHANGED <<length, allocated, reap_action, transferred, lock, polled, user>>

\* cancel_control_transfer; a second call would change nothing.
Cancel ==
    /\ lock = "free" /\ allocated           \* else LIBUSB_ERROR_NOT_FOUND
    /\ pending /\ ~cancelled
    /\ lock' = "discard" /\ reap_action' = "CANCELLED" /\ cancelled' = TRUE
    /\ UNCHANGED <<length, allocated, transferred, urb, status, actual_length,
                   attached, polled, pending, result, submits>>

\* EINVAL means that the URB is ready to be reaped.
DiscardUrb ==
    /\ lock = "discard" /\ lock' = "free"
    /\ IF urb = "queued" THEN UrbEnds("ENOENT", 0)
                         ELSE UNCHANGED <<urb, status, actual_length>>
    /\ UNCHANGED <<length, allocated, reap_action, transferred, attached, polled, user>>

Verdict == CASE reap_action = "CANCELLED" -> "CANCELLED"
             [] status = "OK"             -> "COMPLETED"
             [] status = "EPIPE"          -> "STALL"
             [] OTHER                     -> "ERROR"

\* reap_for_handle and handle_control_completion.
HandleControlCompletion ==
    /\ urb = "done" /\ polled /\ lock = "free" /\ urb' = "none"
    /\ transferred' = IF status = "OK" THEN actual_length ELSE transferred
    /\ allocated' = FALSE /\ pending' = FALSE /\ result' = Verdict
    /\ UNCHANGED <<length, reap_action, status, actual_length, lock, attached, polled,
                   cancelled, submits>>

\* Without the lock, as for a bulk transfer.
HandleDisconnect ==
    /\ ~attached /\ polled /\ polled' = FALSE
    /\ allocated' = FALSE /\ pending' = FALSE
    /\ result' = IF pending THEN "NO_DEVICE" ELSE result
    /\ UNCHANGED <<length, reap_action, transferred, urb, status, actual_length,
                   lock, attached, cancelled, submits>>

EventThread == HandleControlCompletion \/ HandleDisconnect
InCall == SubmitUrb \/ UrbRefused \/ DiscardUrb

Next ==
    \/ \E n \in Lengths : Submit(n)
    \/ \E s \in {"OK", "EPIPE", "EPROTO", "EOTHER"}, n \in 0..(length - SETUP) :
         DeviceAnswers(s, n)
    \/ Unplug \/ Cancel \/ InCall \/ EventThread

Spec == Init /\ [][Next]_vars
FairSpec == Spec /\ WF_vars(EventThread) /\ WF_vars(InCall)

-----------------------------------------------------------------------------
TypeOK ==
    /\ length \in Lengths \cup {SETUP} /\ allocated \in BOOLEAN
    /\ reap_action \in {"NORMAL", "CANCELLED"}
    /\ transferred \in 0..MAX_CTRL_BUFFER_LENGTH
    /\ urb \in {"none", "queued", "done"}
    /\ status \in {"OK", "EPIPE", "EPROTO", "EOTHER", "ENOENT"}
    /\ actual_length \in 0..MAX_CTRL_BUFFER_LENGTH
    /\ lock \in {"free", "submit", "discard"}
    /\ attached \in BOOLEAN /\ polled \in BOOLEAN
    /\ pending \in BOOLEAN /\ cancelled \in BOOLEAN /\ submits \in 0..MaxSubmits
    /\ result \in {"none", "COMPLETED", "CANCELLED", "STALL", "ERROR", "NO_DEVICE"}

\* The device's answer is never lost by a cancellation that came too late:
\* what it sent is reported as transferred.
AnswerCounted ==
    result \in {"COMPLETED", "CANCELLED"} /\ status = "OK" => transferred = actual_length

\* The URB exists exactly while the transfer is pending: the kernel has it,
\* hands it back or is about to be given it.  It is freed when the kernel has
\* not got it and, but for a disconnection, no thread uses it.
FreedWhenUnused ==
    /\ (allocated <=> pending) /\ (pending => held \/ lock = "submit")
    /\ ~allocated => ~held /\ (lock = "free" \/ ~polled)

\* A cancelled transfer is reported even if the device never answers.
CancelIsReported == cancelled /\ pending ~> ~pending

\* One report per submission, when the kernel holds nothing of it any more.
Transfer == INSTANCE UsbTransfer
ImplementsUsbTransfer == Transfer!Spec
=============================================================================
