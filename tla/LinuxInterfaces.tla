--------------------------- MODULE LinuxInterfaces ---------------------------
(***************************************************************************)
(* The synchronous operations of the Linux backend on an open handle       *)
(* (linux_usbfs.c, op_open to op_attach_kernel_driver): each is one ioctl  *)
(* whose errno becomes an error of libusb.  The kernel side says who holds *)
(* each interface: nobody, the driver the kernel found for it, or a file   *)
(* descriptor through usbfs.  libusb's core remembers the claims of a      *)
(* handle in claimed_interfaces.                                           *)
(***************************************************************************)
EXTENDS Integers, FiniteSets

CONSTANTS
    Handles,        \* handles of one or several programs
    Interfaces,     \* interfaces of the active configuration
    WithDriver,     \* those a kernel driver exists for
    NoInterface     \* an interface number the device does not have

InterfacesAssumption ==
    /\ WithDriver \subseteq Interfaces /\ NoInterface \notin Interfaces
    /\ Handles \cap {"none", "driver"} = {}

VARIABLES
    attached,
    owner,                  \* the kernel: who holds each interface
    open,                   \* handles with an open file descriptor
    claimed_interfaces,     \* the core: interfaces each handle claimed
    dropped,                \* claims of a handle that the kernel took away
    call                    \* the last call and its result

vars == <<attached, owner, open, claimed_interfaces, dropped, call>>

Did(op, h, i, r) == call' = [op |-> op, handle |-> h, iface |-> i, result |-> r]

Init ==
    /\ attached = TRUE
    /\ owner = [i \in Interfaces |-> IF i \in WithDriver THEN "driver" ELSE "none"]
    /\ open = {} /\ claimed_interfaces = [h \in Handles |-> {}]
    /\ dropped = [h \in Handles |-> {}]
    /\ call = [op |-> "none", handle |-> "none", iface |-> NoInterface, result |-> "0"]

\* A call that fails changes nothing.
Fails(op, h, i, r) ==
    /\ r # "0" /\ Did(op, h, i, r)
    /\ UNCHANGED <<attached, owner, open, claimed_interfaces, dropped>>

\* The kernel's own changes of who holds what: claims end behind the core's back.
Reassign(after) ==
    /\ owner' = after
    /\ dropped' = [h \in Handles |->
                    dropped[h] \cup {i \in Interfaces : owner[i] = h /\ after[i] # h}]

-----------------------------------------------------------------------------
OpOpen(h, errno) ==
    /\ h \notin open
    /\ errno = "ENOENT" <=> ~attached
    /\ LET r == CASE errno = "0"      -> "0"
                  [] errno = "EACCES" -> "ACCESS"
                  [] errno = "ENOENT" -> "NO_DEVICE"
       IN \/ /\ r = "0" /\ Did("open", h, NoInterface, r)
             /\ open' = open \cup {h}
             /\ UNCHANGED <<attached, owner, claimed_interfaces, dropped>>
          \/ Fails("open", h, NoInterface, r)

\* close: the kernel takes the claims of the file descriptor back.
OpClose(h) ==
    /\ h \in open
    /\ open' = open \ {h}
    /\ owner' = [i \in Interfaces |-> IF owner[i] = h THEN "none" ELSE owner[i]]
    /\ claimed_interfaces' = [claimed_interfaces EXCEPT ![h] = {}]
    /\ dropped' = [dropped EXCEPT ![h] = {}]
    /\ Did("close", h, NoInterface, "0") /\ UNCHANGED attached

ClaimErrno(h, i) ==
    CASE ~attached                      -> "ENODEV"
      [] attached /\ i \notin Interfaces -> "ENOENT"
      [] attached /\ i \in Interfaces    ->
           IF owner[i] \in {"none", h} THEN "0" ELSE "EBUSY"

ClaimResult(errno) ==
    CASE errno = "0"      -> "0"
      [] errno = "ENOENT" -> "NOT_FOUND"
      [] errno = "EBUSY"  -> "BUSY"
      [] errno = "ENODEV" -> "NO_DEVICE"

OpClaimInterface(h, i) ==
    /\ h \in open
    /\ i \notin claimed_interfaces[h]       \* the core answers these itself
    /\ LET r == ClaimResult(ClaimErrno(h, i))
       IN \/ /\ r = "0" /\ Did("claim", h, i, r)
             /\ owner' = [owner EXCEPT ![i] = h]
             /\ claimed_interfaces' = [claimed_interfaces EXCEPT ![h] = @ \cup {i}]
             /\ UNCHANGED <<attached, open, dropped>>
          \/ Fails("claim", h, i, r)

\* Mutant: the claim stays in the kernel.
OpReleaseInterfaceForgets(h, i) ==
    /\ h \in open /\ i \in claimed_interfaces[h] /\ attached
    /\ Did("release", h, i, "0")
    /\ claimed_interfaces' = [claimed_interfaces EXCEPT ![h] = @ \ {i}]
    /\ UNCHANGED <<attached, owner, open, dropped>>

OpReleaseInterface(h, i) ==
    /\ h \in open /\ i \in claimed_interfaces[h]
    /\ LET r == IF ~attached THEN "NO_DEVICE"
                ELSE IF owner[i] # h THEN "OTHER" ELSE "0"
       IN \/ /\ r = "0" /\ Did("release", h, i, r)
             /\ owner' = [owner EXCEPT ![i] = "none"]
             /\ claimed_interfaces' = [claimed_interfaces EXCEPT ![h] = @ \ {i}]
             /\ UNCHANGED <<attached, open, dropped>>
          \/ Fails("release", h, i, r)

\* op_set_interface and op_clear_halt: the device answers, or is gone.  On an
\* interface whose claim was taken away the kernel refuses, or claims it anew
\* for the caller if it is free.
OpOnClaimed(h, i, op, exists) ==
    /\ h \in open /\ i \in claimed_interfaces[h]
    /\ \/ /\ ~attached \/ owner[i] = h
          /\ Did(op, h, i, IF ~attached THEN "NO_DEVICE" ELSE IF exists THEN "0" ELSE "NOT_FOUND")
          /\ UNCHANGED <<owner, dropped>>
       \/ attached /\ owner[i] # h /\ Did(op, h, i, "OTHER") /\ UNCHANGED <<owner, dropped>>
       \/ /\ attached /\ owner[i] = "none" /\ owner' = [owner EXCEPT ![i] = h]
          /\ dropped' = [dropped EXCEPT ![h] = @ \ {i}]
          /\ Did(op, h, i, IF exists THEN "0" ELSE "NOT_FOUND")
    /\ UNCHANGED <<attached, open, claimed_interfaces>>

\* Whatever was bound stays bound, or is unbound by the reset, after which the
\* kernel may find its own driver for it.
AfterReset(i) ==
    IF owner[i] = "none" THEN {"none"}
    ELSE {owner[i], "none"} \cup (IF i \in WithDriver THEN {"driver"} ELSE {})

OpResetDevice(h) ==
    /\ h \in open
    /\ \/ /\ attached /\ Did("reset", h, NoInterface, "0")
          /\ \E after \in [Interfaces -> Handles \cup {"none", "driver"}] :
               (\A i \in Interfaces : after[i] \in AfterReset(i)) /\ Reassign(after)
          /\ UNCHANGED <<attached, open, claimed_interfaces>>
       \/ Fails("reset", h, NoInterface, IF attached THEN "OTHER" ELSE "NOT_FOUND")

\* The ioctl of op_set_configuration: the kernel refuses it while an interface
\* is held, and then looks for drivers for the new ones.
OpSetConfiguration(h) ==
    /\ h \in open
    /\ \/ /\ attached /\ \A i \in Interfaces : owner[i] = "none"
          /\ \E bound \in SUBSET WithDriver :
               Reassign([i \in Interfaces |-> IF i \in bound THEN "driver" ELSE "none"])
          /\ Did("set_configuration", h, NoInterface, "0")
          /\ UNCHANGED <<attached, open, claimed_interfaces>>
       \/ /\ ~attached \/ \E i \in Interfaces : owner[i] # "none"
          /\ Fails("set_configuration", h, NoInterface, IF attached THEN "BUSY" ELSE "NO_DEVICE")

-----------------------------------------------------------------------------
(* Kernel drivers *)

\* IOCTL_USBFS_GETDRIVER names the driver bound to the interface, which is
\* usbfs itself for an interface claimed through it.
DriverActive(i) ==
    IF ~attached THEN "NO_DEVICE"
    ELSE IF i \notin Interfaces THEN "OTHER"
    ELSE IF owner[i] = "none" THEN "0" ELSE "1"

OpKernelDriverActive(h, i) ==
    /\ h \in open
    /\ Did("driver_active", h, i, DriverActive(i))
    /\ UNCHANGED <<attached, owner, open, claimed_interfaces, dropped>>

Detached(i) ==
    IF ~attached THEN "NO_DEVICE"
    ELSE IF i \notin Interfaces THEN "INVALID_PARAM"
    ELSE IF owner[i] = "none" THEN "NOT_FOUND" ELSE "0"

\* IOCTL_USBFS_DISCONNECT unbinds whatever driver there is, which is usbfs
\* itself for a claimed interface.
OpDetachKernelDriver(h, i) ==
    /\ h \in open
    /\ \/ /\ Detached(i) = "0" /\ Did("detach", h, i, "0")
          /\ Reassign([owner EXCEPT ![i] = "none"])
          /\ UNCHANGED <<attached, open, claimed_interfaces>>
       \/ Fails("detach", h, i, Detached(i))

Attached(i) ==
    IF ~attached THEN "NO_DEVICE"
    ELSE IF i \notin Interfaces THEN "INVALID_PARAM"
    ELSE IF owner[i] # "none" THEN "BUSY"
    ELSE IF i \in WithDriver THEN "0" ELSE "NOT_FOUND"

OpAttachKernelDriver(h, i) ==
    /\ h \in open
    /\ \/ /\ Attached(i) = "0" /\ Did("attach", h, i, "0")
          /\ owner' = [owner EXCEPT ![i] = "driver"]
          /\ UNCHANGED <<attached, open, claimed_interfaces, dropped>>
       \/ Fails("attach", h, i, Attached(i))

Unplug ==
    /\ attached /\ attached' = FALSE
    /\ Reassign([i \in Interfaces |-> "none"])
    /\ UNCHANGED <<open, claimed_interfaces, call>>

Next ==
    \/ \E h \in Handles :
         \/ \E errno \in {"0", "EACCES", "ENOENT"} : OpOpen(h, errno)
         \/ OpClose(h) \/ OpResetDevice(h) \/ OpSetConfiguration(h)
         \/ \E i \in Interfaces \cup {NoInterface} :
              \/ OpClaimInterface(h, i) \/ OpReleaseInterface(h, i)
              \/ \E op \in {"set_interface", "clear_halt"}, exists \in BOOLEAN :
                   OpOnClaimed(h, i, op, exists)
              \/ OpKernelDriverActive(h, i)
              \/ OpDetachKernelDriver(h, i) \/ OpAttachKernelDriver(h, i)
    \/ Unplug

Spec == Init /\ [][Next]_vars

-----------------------------------------------------------------------------
TypeOK ==
    /\ attached \in BOOLEAN /\ open \subseteq Handles
    /\ owner \in [Interfaces -> Handles \cup {"none", "driver"}]
    /\ claimed_interfaces \in [Handles -> SUBSET Interfaces]
    /\ dropped \in [Handles -> SUBSET Interfaces]

\* What the core remembers as claimed by a handle is what the kernel holds for
\* it and what the kernel took away behind its back (a reset, a detached driver
\* that was usbfs itself, an unplugged device), and nothing else: so no claim is
\* left in the kernel that no handle can release, and as long as none was taken
\* away no interface is claimed through two handles.
ClaimsAgree ==
    \A h \in Handles :
        /\ claimed_interfaces[h] = dropped[h] \cup {i \in Interfaces : owner[i] = h}
        /\ \A i \in dropped[h] : owner[i] # h
=============================================================================
