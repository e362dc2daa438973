----------------------------- MODULE UsbTransfer -----------------------------
(***************************************************************************)
(* What struct usbi_os_backend (libusbi.h) asks of a backend for one       *)
(* transfer, whatever the operating system: a submission that succeeds is  *)
(* answered by one call of usbi_handle_transfer_completion or              *)
(* usbi_handle_transfer_cancellation; by then the operating system owns    *)
(* neither the buffer nor the backend's private data; and a cancellation   *)
(* or a timeout is reported only for a transfer that was cancelled.        *)
(***************************************************************************)
VARIABLES
    pending,    \* submitted and not yet reported
    held,       \* the operating system may still write the transfer's memory
    cancelled,  \* cancel_transfer was accepted
    result      \* what the last report said

tvars == <<pending, held, cancelled, result>>

Statuses == {"COMPLETED", "ERROR", "CANCELLED", "STALL", "NO_DEVICE", "OVERFLOW"}

Init ==
    /\ pending = FALSE /\ held = FALSE
    /\ cancelled = FALSE /\ result = "none"

Submit ==
    /\ ~pending
    /\ pending' = TRUE /\ cancelled' = FALSE /\ result' = "none"
    /\ held' \in BOOLEAN

\* The first request could not be handed to the operating system.
Refuse ==
    /\ pending /\ ~held
    /\ pending' = FALSE
    /\ UNCHANGED <<held, cancelled, result>>

\* The operating system takes the memory and gives it back, only meanwhile.
Hold    == pending /\ held' = TRUE /\ UNCHANGED <<pending, cancelled, result>>
Release == held' = FALSE /\ UNCHANGED <<pending, cancelled, result>>

Cancel == pending /\ cancelled' = TRUE /\ UNCHANGED <<pending, held, result>>

Report(status) ==
    /\ pending
    /\ status = "CANCELLED" => cancelled
    /\ pending' = FALSE /\ held' = FALSE /\ result' = status
    /\ UNCHANGED cancelled

Next ==
    \/ Submit \/ Refuse \/ Hold \/ Release \/ Cancel
    \/ \E status \in Statuses : Report(status)

Spec == Init /\ [][Next]_tvars
=============================================================================
