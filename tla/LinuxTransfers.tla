---------------------------- MODULE LinuxTransfers ----------------------------
(***************************************************************************)
(* Any transfer of the Linux backend (linux_usbfs.c): op_submit_transfer,  *)
(* op_cancel_transfer, op_clear_transfer_priv and reap_for_handle choose   *)
(* by transfer->type among the bulk, isochronous and control handlers,     *)
(* which share struct linux_transfer_priv.  The type is fixed, so only the *)
(* variables of one kind of transfer move in a behaviour.                  *)
(***************************************************************************)
EXTENDS Integers, Sequences

CONSTANTS
    MAX_BULK_BUFFER_LENGTH, BulkLengths,
    MAX_ISO_BUFFER_LENGTH, PacketLists, UrbsFail,
    MAX_CTRL_BUFFER_LENGTH, SETUP, ControlLengths,
    MaxSubmits

ASSUME TransfersAssumption ==
    /\ MAX_BULK_BUFFER_LENGTH \in Nat \ {0} /\ BulkLengths \subseteq Nat
    /\ MAX_ISO_BUFFER_LENGTH \in Nat \ {0} /\ PacketLists \subseteq Seq(Nat)
    /\ MAX_CTRL_BUFFER_LENGTH \in Nat /\ SETUP \in Nat
    /\ ControlLengths \subseteq {n \in Nat : n >= SETUP}
    /\ UrbsFail \in BOOLEAN /\ MaxSubmits \in Nat

VARIABLES
    type,
    \* struct linux_transfer_priv and struct libusb_transfer
    length, allocated, urbs, num_retired, reap_action, transferred,
    supports_flag_bulk_continuation, is_out, reap_status, buffer,   \* bulk
    desc, iso_packet_offset,                                        \* iso
    urb, status, actual_length,                                     \* control
    \* threads, kernel and user
    lock, todo, reaped, reporting, doneq, endpoint, sent,
    attached, polled, pending, cancelled, result, submits

Bulk == INSTANCE LinuxBulk WITH Lengths <- BulkLengths
Iso  == INSTANCE LinuxIso
Control == INSTANCE LinuxControl WITH Lengths <- ControlLengths

bulkOnly == <<supports_flag_bulk_continuation, is_out, reap_status, buffer,
              reporting, endpoint, sent>>
isoOnly == <<desc, iso_packet_offset>>
arrays == <<urbs, num_retired, todo, reaped, doneq>>
controlOnly == <<urb, status, actual_length>>
vars == <<type, length, allocated, reap_action, transferred, lock, attached, polled,
          pending, cancelled, result, submits, bulkOnly, isoOnly, arrays,
          controlOnly>>

NoBulk ==
    /\ supports_flag_bulk_continuation = FALSE /\ is_out = FALSE
    /\ reap_status = "COMPLETED" /\ buffer = <<>> /\ reporting = FALSE
    /\ endpoint = "ok" /\ sent = 0
NoIso == desc = <<>> /\ iso_packet_offset = 0
NoArrays == urbs = <<>> /\ num_retired = 0 /\ todo = <<>> /\ reaped = 0 /\ doneq = <<>>
NoControl == urb = "none" /\ status = "OK" /\ actual_length = 0

Init ==
    \/ type = "bulk" /\ Bulk!Init /\ NoIso /\ NoControl
    \/ type = "iso" /\ Iso!Init /\ NoBulk /\ NoControl
       /\ transferred = 0 /\ submits = 0
    \/ type = "control" /\ Control!Init /\ NoBulk /\ NoIso /\ NoArrays

OfBulk == type = "bulk" /\ UNCHANGED <<type, isoOnly, controlOnly>>
OfIso == type = "iso" /\ UNCHANGED <<type, transferred, submits, bulkOnly, controlOnly>>
OfControl == type = "control" /\ UNCHANGED <<type, bulkOnly, isoOnly, arrays>>

\* libusb_handle_events, up to the report of one completion.
EventThread ==
    \/ OfBulk /\ Bulk!EventThread
    \/ OfIso /\ Iso!EventThread
    \/ OfControl /\ Control!EventThread

InCall ==
    \/ OfBulk /\ Bulk!InCall
    \/ OfIso /\ Iso!InCall
    \/ OfControl /\ Control!InCall

Next ==
    \/ OfBulk /\ Bulk!Next
    \/ OfIso /\ Iso!Next
    \/ OfControl /\ Control!Next

Spec == Init /\ [][Next]_vars

\* Neither thread stops between two of its steps; the device may never answer.
FairSpec == Spec /\ WF_vars(EventThread) /\ WF_vars(InCall)

-----------------------------------------------------------------------------
TypeOK ==
    CASE type = "bulk" -> Bulk!TypeOK
      [] type = "iso" -> Iso!TypeOK
      [] type = "control" -> Control!TypeOK

\* The private data of a transfer is freed only when the kernel holds none of
\* its URBs, none was reaped without being handled and, but for a
\* disconnection, no thread is in a loop over them ("otherwise libusb will be
\* using freed memory").
FreedWhenUnused ==
    CASE type = "bulk" -> Bulk!FreedWhenUnused
      [] type = "iso" -> Iso!FreedWhenUnused
      [] type = "control" -> Control!FreedWhenUnused

\* What the device sent is not lost: not by the URBs given up after a short
\* one ("not to lose any surplus data, ... closing any holes"), and not by a
\* cancellation that came too late for a control transfer.
SurplusDataKept ==
    /\ type = "bulk" => Bulk!SurplusDataKept
    /\ type = "control" => Control!AnswerCounted

\* A bulk transfer is reported as completed only if no URB failed before the
\* device ended it with a short one, or the kernel refused a later URB.
CompletedMeansDone == type = "bulk" => Bulk!CompletedMeansDone

\* If no packet is larger than an URB, the loop of submit_iso_transfer that
\* fills the URBs places every packet, in order, in as many URBs as the loop
\* that counts them announced; and a transfer that completes without any URB
\* failing has filled every descriptor with the result of its own packet.
PacketsInPlace ==
    type = "iso" => Iso!PacketsArePacked /\ Iso!CompletedFillsDescriptors

\* Once a transfer was given up (cancelled, timed out, submitted only in part,
\* failed or completed early) it is reported even if the device never answers.
GivenUpIsReported ==
    pending /\ (reap_action # "NORMAL" \/ reap_status # "COMPLETED") ~> ~pending

\* Every accepted submission is reported once, by then the kernel holds
\* nothing of it, and CANCELLED is only reported if it was cancelled.
held == CASE type = "bulk" -> Bulk!held
          [] type = "iso" -> Iso!held
          [] type = "control" -> Control!held
Transfer == INSTANCE UsbTransfer
ImplementsUsbTransfer == Transfer!Spec
=============================================================================
