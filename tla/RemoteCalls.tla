----------------------------- MODULE RemoteCalls -----------------------------
(***************************************************************************)
(* What libirpc promises a program that calls libusb through it: every     *)
(* call is carried out at most once, in the order the calls were made; a   *)
(* call that has a result returns only after it was carried out, with its  *)
(* own result; a call that has none returns at once.  The service holds    *)
(* one device, which changes only while a call that may change it is       *)
(* carried out.  The program or the service may stop at any time; of a     *)
(* program that stopped, the last calls may be lost and no call in the     *)
(* middle is.                                                              *)
(***************************************************************************)
EXTENDS Naturals, Sequences

CONSTANTS
    Functions,   \* what may be called
    Returning,   \* the functions that have a result
    Openers,     \* the functions that replace the held device
    Closer,      \* the function that drops it
    Stopper,     \* the function that stops the service
    Things,      \* the devices
    None

VARIABLES
    alive,       \* the program runs
    up,          \* the service runs
    pending,     \* calls made and not carried out, oldest first
    waiting,     \* the answered call the program is in, or None
    result,      \* the call whose result is on its way, or None
    held         \* the device the service holds, or None

vars == <<alive, up, pending, waiting, result, held>>

Init ==
    /\ alive = TRUE /\ up = TRUE /\ pending = <<>>
    /\ waiting = None /\ result = None /\ held = None

Issue(f) ==
    /\ alive /\ waiting = None
    /\ waiting' = IF f \in Returning THEN f ELSE None
    /\ pending' = IF up THEN Append(pending, f) ELSE pending
    /\ UNCHANGED <<alive, up, result, held>>

Execute ==
    /\ up /\ pending # <<>>
    /\ pending' = Tail(pending)
    /\ LET f == Head(pending) IN
       /\ result' = IF f \in Returning /\ alive THEN f ELSE result
       /\ held' \in CASE f \in Openers -> Things \cup {None, held}
                      [] f = Closer -> {None}
                      [] OTHER -> {held}
       /\ up' \in IF f = Stopper THEN {FALSE} ELSE IF alive THEN {TRUE} ELSE BOOLEAN
    /\ UNCHANGED <<alive, waiting>>

Return ==
    /\ alive /\ result # None /\ result = waiting
    /\ waiting' = None /\ result' = None
    /\ UNCHANGED <<alive, up, pending, held>>

\* The service stops: what is pending is lost, and perhaps the last result.
Fail ==
    /\ up
    /\ up' = FALSE /\ pending' = <<>>
    /\ result' \in {result, None}
    /\ UNCHANGED <<alive, waiting, held>>

Leave ==
    /\ alive
    /\ alive' = FALSE /\ waiting' = None
    /\ \E n \in 0..Len(pending) : pending' = SubSeq(pending, 1, n)
    /\ UNCHANGED <<up, result, held>>

Next == (\E f \in Functions : Issue(f)) \/ Execute \/ Return \/ Fail \/ Leave

Spec == Init /\ [][Next]_vars
=============================================================================
