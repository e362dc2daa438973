-------------------------------- MODULE Irpc --------------------------------
(***************************************************************************)
(* libirpc: libusb calls made by a client process and executed by a        *)
(* server process at the other end of a TCP connection.                    *)
(*                                                                         *)
(* A call is one or two tpl images from client to server (the function     *)
(* identifier, then its arguments if it has any) and at most one image     *)
(* back.  An image is a record here; its "fmt" is the tpl format string    *)
(* it was packed with, which tpl_load compares with the format the reader  *)
(* has mapped.  The server keeps two statics, irpc_ctx and irpc_handle,    *)
(* and libusb keeps the open handles, the claimed interfaces, the live     *)
(* contexts and the references on devices.                                 *)
(***************************************************************************)
EXTENDS Integers, Sequences, FiniteSets

CONSTANTS
    Devices,     \* the USB devices that may be plugged in at the server
    Session,     \* libusb_device.session_data of each device, an unsigned long
    VidPid,      \* vendor and product id of each device, one value for the pair
    Interfaces,  \* interface numbers a client may claim
    MaxDevs,     \* IRPC_MAX_DEVS
    IntMod,      \* 2^w for the w bits of an int
    LongMod,     \* 2^w for the w bits of an unsigned long
    SockBuf,     \* images a socket buffer holds before a writer blocks
    MaxCtxs,     \* bound: calls of libusb_init in one behaviour
    None         \* no device, no function, no value

ASSUME ConstantsAssumption ==
    /\ Session \in [Devices -> Nat]
    /\ IsFiniteSet(Devices)
    /\ None \notin Devices \cup Interfaces \cup {VidPid[d] : d \in Devices}
    /\ MaxDevs \in Nat
    /\ IntMod \in Nat \ {0}
    /\ LongMod \in Nat \ {0} /\ LongMod % IntMod = 0
    /\ SockBuf \in Nat \ {0}
    /\ MaxCtxs \in Nat \ {0}

-----------------------------------------------------------------------------
(* tpl formats.  Two names of one string are one format.                   *)

IRPC_INT_FMT                == "i"
IRPC_STR_INT_FMT            == "ic#"
IRPC_STR_INT_INT_FMT        == "iii#"
IRPC_DEV_FMT                == "S(iiii)"
IRPC_DEVLIST_FMT            == "iS(iiii)#"
IRPC_DESC_FMT               == "S(iiiiiiiiiiiiii)i"
IRPC_PRID_VEID_FMT          == "ii"
IRPC_DEV_HANDLE_FMT         == "S($(iiii))"
IRPC_DEV_HANDLE_RET_FMT     == "S($(iiii))i"
IRPC_DEV_HANDLE_INT_FMT     == IRPC_DEV_HANDLE_RET_FMT
IRPC_DEV_HANDLE_INT_INT_FMT == "S($(iiii))ii"
IRPC_CTRL_TRANSFER_FMT      == "S($(iiii))iiiiii"
IRPC_CTRL_STR_INT_INT_FMT   == "iic#"
IRPC_BULK_TRANSFER_FMT      == "S($(iiii))ciii"
IRPC_CLEAR_HALT_FMT         == "S($(iiii))c"
IRPC_STRING_DESC_FMT        == "S($(iiii))ii"
NoImage                     == "none"      \* nothing is sent or read

Formats == {IRPC_INT_FMT, IRPC_STR_INT_FMT, IRPC_STR_INT_INT_FMT, IRPC_DEV_FMT,
            IRPC_DEVLIST_FMT, IRPC_DESC_FMT, IRPC_PRID_VEID_FMT, IRPC_DEV_HANDLE_FMT,
            IRPC_DEV_HANDLE_RET_FMT, IRPC_DEV_HANDLE_INT_INT_FMT,
            IRPC_CTRL_TRANSFER_FMT, IRPC_CTRL_STR_INT_INT_FMT,
            IRPC_BULK_TRANSFER_FMT, IRPC_CLEAR_HALT_FMT}

(***************************************************************************)
(* What each irpc_recv_usb_* stub of the client maps for the arguments it  *)
(* sends and for the reply it reads, and what each irpc_send_usb_* handler *)
(* of the server maps for the arguments it reads and the reply it sends.   *)
(* The two sides are written separately in the code, and here.             *)
(***************************************************************************)
Maps(args, reply) == [args |-> args, reply |-> reply]

recv_usb_init          == Maps(NoImage, IRPC_INT_FMT)
client_usb_exit        == Maps(NoImage, NoImage)
recv_usb_get_device_list       == Maps(NoImage, IRPC_DEVLIST_FMT)
recv_usb_get_device_descriptor == Maps(IRPC_DEV_FMT, IRPC_DESC_FMT)
recv_usb_open_device_with_vid_pid == Maps(IRPC_PRID_VEID_FMT, IRPC_DEV_HANDLE_FMT)
recv_usb_close         == Maps(NoImage, NoImage)
recv_usb_open          == Maps(IRPC_DEV_FMT, IRPC_DEV_HANDLE_RET_FMT)
recv_usb_claim_interface       == Maps(IRPC_DEV_HANDLE_INT_FMT, IRPC_INT_FMT)
recv_usb_release_interface     == Maps(IRPC_DEV_HANDLE_INT_FMT, IRPC_INT_FMT)
recv_usb_get_configuration     == Maps(IRPC_DEV_HANDLE_INT_FMT, IRPC_INT_FMT)
recv_usb_set_configuration     == Maps(IRPC_DEV_HANDLE_INT_FMT, IRPC_INT_FMT)
recv_usb_set_interface_alt_setting == Maps(IRPC_DEV_HANDLE_INT_INT_FMT, IRPC_INT_FMT)
recv_usb_reset_device  == Maps(IRPC_DEV_HANDLE_FMT, IRPC_INT_FMT)
recv_usb_control_transfer      == Maps(IRPC_CTRL_TRANSFER_FMT, IRPC_CTRL_STR_INT_INT_FMT)
recv_usb_bulk_transfer == Maps(IRPC_BULK_TRANSFER_FMT, IRPC_STR_INT_INT_FMT)
recv_usb_clear_halt    == Maps(IRPC_CLEAR_HALT_FMT, IRPC_INT_FMT)
recv_usb_get_string_descriptor_ascii == Maps(IRPC_STRING_DESC_FMT, IRPC_STR_INT_FMT)

send_usb_init          == Maps(NoImage, IRPC_INT_FMT)
server_usb_exit        == Maps(NoImage, NoImage)
send_usb_get_device_list       == Maps(NoImage, IRPC_DEVLIST_FMT)
send_usb_get_device_descriptor == Maps(IRPC_DEV_FMT, IRPC_DESC_FMT)
send_usb_open_device_with_vid_pid == Maps(IRPC_PRID_VEID_FMT, IRPC_DEV_HANDLE_FMT)
send_usb_close         == Maps(NoImage, NoImage)
send_usb_open          == Maps(IRPC_DEV_FMT, IRPC_DEV_HANDLE_RET_FMT)
send_usb_claim_interface       == Maps(IRPC_DEV_HANDLE_INT_FMT, IRPC_INT_FMT)
send_usb_release_interface     == Maps(IRPC_DEV_HANDLE_INT_FMT, IRPC_INT_FMT)
send_usb_get_configuration     == Maps(IRPC_DEV_HANDLE_INT_FMT, IRPC_INT_FMT)
send_usb_set_configuration     == Maps(IRPC_DEV_HANDLE_INT_FMT, IRPC_INT_FMT)
send_usb_set_interface_alt_setting == Maps(IRPC_DEV_HANDLE_INT_INT_FMT, IRPC_INT_FMT)
send_usb_reset_device  == Maps(IRPC_DEV_HANDLE_FMT, IRPC_INT_FMT)
send_usb_control_transfer      == Maps(IRPC_CTRL_TRANSFER_FMT, IRPC_CTRL_STR_INT_INT_FMT)
send_usb_bulk_transfer == Maps(IRPC_BULK_TRANSFER_FMT, IRPC_STR_INT_INT_FMT)
\* Mutant: the endpoint read as an int, as the interface functions do.
send_usb_clear_halt_int == Maps(IRPC_DEV_HANDLE_INT_FMT, IRPC_INT_FMT)

send_usb_clear_halt    == Maps(IRPC_CLEAR_HALT_FMT, IRPC_INT_FMT)
send_usb_get_string_descriptor_ascii == Maps(IRPC_STRING_DESC_FMT, IRPC_STR_INT_FMT)

\* The switch of irpc_call in the two contexts.
Stub ==
    [USB_INIT            |-> recv_usb_init,
     USB_EXIT            |-> client_usb_exit,
     USB_GET_DEVICE_LIST |-> recv_usb_get_device_list,
     USB_GET_DEVICE_DESCRIPTOR |-> recv_usb_get_device_descriptor,
     USB_OPEN_DEVICE_WITH_VID_PID |-> recv_usb_open_device_with_vid_pid,
     USB_CLOSE           |-> recv_usb_close,
     USB_OPEN            |-> recv_usb_open,
     USB_CLAIM_INTERFACE |-> recv_usb_claim_interface,
     USB_RELEASE_INTERFACE |-> recv_usb_release_interface,
     USB_GET_CONFIGURATION |-> recv_usb_get_configuration,
     USB_SET_CONFIGURATION |-> recv_usb_set_configuration,
     USB_SET_INTERFACE_ALT_SETTING |-> recv_usb_set_interface_alt_setting,
     USB_RESET_DEVICE    |-> recv_usb_reset_device,
     USB_CONTROL_TRANSFER |-> recv_usb_control_transfer,
     USB_BULK_TRANSFER   |-> recv_usb_bulk_transfer,
     USB_CLEAR_HALT      |-> recv_usb_clear_halt,
     USB_GET_STRING_DESCRIPTOR_ASCII |-> recv_usb_get_string_descriptor_ascii]

Handler ==
    [USB_INIT            |-> send_usb_init,
     USB_EXIT            |-> server_usb_exit,
     USB_GET_DEVICE_LIST |-> send_usb_get_device_list,
     USB_GET_DEVICE_DESCRIPTOR |-> send_usb_get_device_descriptor,
     USB_OPEN_DEVICE_WITH_VID_PID |-> send_usb_open_device_with_vid_pid,
     USB_CLOSE           |-> send_usb_close,
     USB_OPEN            |-> send_usb_open,
     USB_CLAIM_INTERFACE |-> send_usb_claim_interface,
     USB_RELEASE_INTERFACE |-> send_usb_release_interface,
     USB_GET_CONFIGURATION |-> send_usb_get_configuration,
     USB_SET_CONFIGURATION |-> send_usb_set_configuration,
     USB_SET_INTERFACE_ALT_SETTING |-> send_usb_set_interface_alt_setting,
     USB_RESET_DEVICE    |-> send_usb_reset_device,
     USB_CONTROL_TRANSFER |-> send_usb_control_transfer,
     USB_BULK_TRANSFER   |-> send_usb_bulk_transfer,
     USB_CLEAR_HALT      |-> send_usb_clear_halt,
     USB_GET_STRING_DESCRIPTOR_ASCII |-> send_usb_get_string_descriptor_ascii]

irpc_func ==
    {"USB_INIT", "USB_EXIT", "USB_GET_DEVICE_LIST", "USB_GET_DEVICE_DESCRIPTOR",
     "USB_OPEN_DEVICE_WITH_VID_PID", "USB_CLOSE", "USB_OPEN", "USB_CLAIM_INTERFACE",
     "USB_RELEASE_INTERFACE", "USB_GET_CONFIGURATION", "USB_SET_CONFIGURATION",
     "USB_SET_INTERFACE_ALT_SETTING", "USB_RESET_DEVICE", "USB_CONTROL_TRANSFER",
     "USB_BULK_TRANSFER", "USB_CLEAR_HALT", "USB_GET_STRING_DESCRIPTOR_ASCII"}

\* Functions whose handler passes irpc_ctx to libusb, and those whose handler
\* passes irpc_handle without looking whether it is NULL.
ContextFuncs == {"USB_EXIT", "USB_GET_DEVICE_LIST", "USB_GET_DEVICE_DESCRIPTOR",
                 "USB_OPEN_DEVICE_WITH_VID_PID", "USB_OPEN"}
HandleFuncs  == irpc_func \ (ContextFuncs \cup {"USB_INIT", "USB_CLOSE"})

-----------------------------------------------------------------------------
(* irpc_device                                                             *)

AsInt(n)  == ((n + IntMod \div 2) % IntMod) - (IntMod \div 2)  \* unsigned long to int
AsLong(i) == i % LongMod                                       \* int to unsigned long

(***************************************************************************)
(* irpc_device carries session_data narrowed to an int.  "of" is the       *)
(* device the entry was filled from: it stands for the bus number and the  *)
(* address, which tell a filled entry from a zeroed one and which no code  *)
(* uses to find a device.                                                  *)
(***************************************************************************)
IrpcDevice(d) == [session_data |-> AsInt(Session[d]), of |-> d]
Zeroed        == [session_data |-> 0, of |-> None]
Entries       == {IrpcDevice(d) : d \in Devices} \cup {Zeroed}

ASSUME NoneAssumption == None \notin irpc_func /\ None \notin Entries

\* Mutant: the first device of the list is taken.
MatchingAny(list, idev) == list

\* The devices libusb lists whose session_data equals, as the C comparison
\* converts its operands, the one the client sent.
Matching(list, idev) == {d \in list : Session[d] = AsLong(idev.session_data)}

Orders(S) == {s \in [1..Cardinality(S) -> S] :
                 \A i, j \in DOMAIN s : s[i] = s[j] => i = j}

\* Mutant: the bus number and the address of an entry are not filled in.
DevListBare(list) ==
    [i \in 1..(IF Len(list) < MaxDevs THEN Len(list) ELSE MaxDevs) |->
        [IrpcDevice(list[i]) EXCEPT !.of = None]]

\* devlist as the server fills it from what libusb lists.
DevList(list) ==
    [i \in 1..(IF Len(list) < MaxDevs THEN Len(list) ELSE MaxDevs) |-> IrpcDevice(list[i])]

Values == Interfaces \cup {VidPid[d] : d \in Devices} \cup {None}

FuncImage(f)      == [fmt |-> IRPC_INT_FMT, func |-> f, dev |-> Zeroed, val |-> None]
ArgsImage(f, d, v) == [fmt |-> Stub[f].args, func |-> None, dev |-> d, val |-> v]

\* "call" is the function the reply answers: it is not on the wire.
ReplyImage(f, ret, d, list) ==
    [fmt |-> Handler[f].reply, call |-> f, ret |-> ret, dev |-> d, devlist |-> list]

\* The arguments a caller may put in irpc_info for function f: a slot of
\* the last list it received, which is zeroed past n_devs, or the device it
\* used last, and a number.
DeviceArgs(f, list, last) ==
    IF Stub[f].args = IRPC_DEV_FMT THEN {list[i] : i \in DOMAIN list} \cup {last, Zeroed}
                                   ELSE {Zeroed}
NumberArgs(f) ==
    IF Stub[f].args = IRPC_PRID_VEID_FMT THEN {VidPid[d] : d \in Devices}
    ELSE IF f \in {"USB_CLAIM_INTERFACE", "USB_RELEASE_INTERFACE"} THEN Interfaces
    ELSE {None}

-----------------------------------------------------------------------------
VARIABLES
    cpc,         \* client: "idle", "args" (func sent), "reply" (waiting),
                 \*         "gone", "crashed" or "desync"
    call,        \* function of the call in progress, None if it waits for nothing
    cdev,        \* irpc_info.dev
    handle,      \* irpc_info.handle
    devlist,     \* irpc_info.devlist
    csock,       \* client's end of the connection: "open", "closed" or "reset"
    spc,         \* server: "func", "args" (reading them), "exec", "done", or how
                 \*         it died: "eof", "null", "sigpipe", "killed", "desync"
    sfunc,       \* function the server read
    sargs,       \* arguments the server read
    irpc_ctx,    \* TRUE iff the static is not NULL
    irpc_handle, \* device of the static handle, None iff it is NULL
    c2s, s2c,    \* the two directions of the connection
    attached,    \* libusb: devices plugged in
    open,        \* libusb: devices some handle is open on
    claimed,     \* libusb: <<device, interface>> claimed through a handle
    leaked,      \* libusb: a list with devices in it was never freed
    ctxs         \* libusb: contexts created and not destroyed

VARIABLES        \* history: what the calling program knows or has done
    wanted,      \* device it believes open, None if it believes none is
    inited,      \* libusb_init returned success and libusb_exit was not called
    inits,       \* calls of libusb_init
    exited,      \* libusb_exit was called
    failed,      \* a descriptor or open call returned IRPC_FAILURE
    misuse       \* it made a call libusb forbids in that situation

client  == <<cpc, call, cdev, handle, devlist, csock>>
server  == <<spc, sfunc, sargs, irpc_ctx, irpc_handle>>
libusb  == <<attached, open, claimed, leaked, ctxs>>
history == <<wanted, inited, inits, exited, failed, misuse>>
vars    == <<client, server, c2s, s2c, libusb, history>>

ServerUp == spc \in {"func", "args", "exec"}
ClientUp == cpc \in {"idle", "args", "reply"}

Init ==
    /\ cpc = "idle" /\ call = None /\ cdev = Zeroed /\ handle = Zeroed
    /\ devlist = <<>> /\ csock = "open"
    /\ spc = "func" /\ sfunc = None /\ sargs = None
    /\ irpc_ctx = FALSE /\ irpc_handle = None
    /\ c2s = <<>> /\ s2c = <<>>
    /\ attached = {} /\ open = {} /\ claimed = {} /\ leaked = FALSE /\ ctxs = 0
    /\ wanted = None /\ inited = FALSE /\ inits = 0
    /\ exited = FALSE /\ failed = FALSE /\ misuse = FALSE

-----------------------------------------------------------------------------
(* Client                                                                  *)

\* Calls that libusb gives no meaning to in the caller's situation.
Misuses(f) ==
    \/ exited
    \/ f = "USB_INIT" /\ inited
    \/ f \in ContextFuncs /\ ~inited
    \/ f \in HandleFuncs /\ wanted = None
    \/ f = "USB_EXIT" /\ wanted # None

\* tpl_dump on the client's socket, then the client is at pc.  A full buffer
\* blocks; a dead peer loses the image or kills the writer with SIGPIPE.
ClientWrite(image, pc) ==
    \/ /\ ServerUp
       /\ Len(c2s) < SockBuf
       /\ c2s' = Append(c2s, image)
       /\ cpc' = pc /\ csock' = csock
    \/ /\ ~ServerUp
       /\ c2s' = c2s
       /\ \/ cpc' = pc /\ csock' = csock
          \/ cpc' = "crashed" /\ csock' = "reset"

AwaitReply(f) == IF Stub[f].reply = NoImage THEN "idle" ELSE "reply"

\* irpc_call in the client context, as far as irpc_send_func.
ClientCall(f) ==
    /\ cpc = "idle"
    /\ f = "USB_INIT" => inits < MaxCtxs
    /\ ClientWrite(FuncImage(f), IF Stub[f].args = NoImage THEN AwaitReply(f) ELSE "args")
    /\ call' = IF cpc' = "idle" THEN None ELSE f
    /\ wanted' = IF f \in {"USB_CLOSE", "USB_OPEN", "USB_OPEN_DEVICE_WITH_VID_PID", "USB_EXIT"}
                 THEN None ELSE wanted
    /\ inited' = (inited /\ f # "USB_EXIT")
    /\ inits' = IF f = "USB_INIT" THEN inits + 1 ELSE inits
    /\ exited' = (exited \/ f = "USB_EXIT")
    /\ misuse' = (misuse \/ Misuses(f))
    /\ UNCHANGED <<cdev, handle, devlist, server, s2c, libusb, failed>>

\* The stub sends its arguments.
ClientArgs ==
    /\ cpc = "args"
    /\ \E d \in DeviceArgs(call, devlist, cdev), v \in NumberArgs(call) :
          /\ ClientWrite(ArgsImage(call, d, v), AwaitReply(call))
          /\ cdev' = IF Stub[call].args = IRPC_DEV_FMT THEN d ELSE cdev
    /\ UNCHANGED <<call, handle, devlist, server, s2c, libusb, history>>

\* The stub reads its reply into irpc_info; a format it does not map is read
\* as garbage, since the stub does not look at what tpl_load returns.
ClientReply ==
    /\ cpc = "reply" /\ s2c # <<>>
    /\ s2c' = Tail(s2c)
    /\ call' = None
    /\ LET r == Head(s2c) IN
       IF r.fmt = Stub[call].reply
       THEN /\ cpc' = "idle"
            /\ devlist' = IF call = "USB_GET_DEVICE_LIST" THEN r.devlist ELSE devlist
            /\ handle' = IF call \in {"USB_OPEN", "USB_OPEN_DEVICE_WITH_VID_PID"}
                         THEN r.dev ELSE handle
            /\ inited' = (inited \/ (call = "USB_INIT" /\ r.ret = "SUCCESS"))
            /\ wanted' = CASE call = "USB_OPEN" /\ r.ret = "SUCCESS" -> cdev
                           [] call = "USB_OPEN_DEVICE_WITH_VID_PID" /\ r.dev # Zeroed -> r.dev
                           [] OTHER -> wanted
            /\ failed' = (failed \/ (r.ret = "FAILURE" /\
                             call \in {"USB_GET_DEVICE_DESCRIPTOR", "USB_OPEN"}))
       ELSE cpc' = "desync" /\ UNCHANGED <<devlist, handle, inited, wanted, failed>>
    /\ UNCHANGED <<cdev, csock, server, c2s, libusb, inits, exited, misuse>>

Forgotten == call' = None /\ cdev' = Zeroed /\ devlist' = <<>>

\* End of file where a reply was due: tpl_load fails, its result is ignored and
\* tpl_unpack follows a NULL pointer.
ClientEof ==
    /\ cpc = "reply" /\ s2c = <<>> /\ ~ServerUp
    /\ cpc' = "crashed" /\ csock' = "reset"
    /\ Forgotten
    /\ UNCHANGED <<handle, server, c2s, s2c, libusb, history>>

\* The calling program ends between two calls: what it sent is delivered.
ClientLeaves ==
    /\ cpc = "idle"
    /\ cpc' = "gone" /\ csock' = "closed"
    /\ Forgotten
    /\ UNCHANGED <<handle, server, c2s, s2c, libusb, history>>

\* The calling program is killed, and its host's kernel ends the connection: any
\* tail of what it sent and the server has not read may be lost.
ClientDies ==
    /\ ClientUp
    /\ cpc' = "gone" /\ csock' = "reset"
    /\ \E n \in 0..Len(c2s) : c2s' = SubSeq(c2s, 1, n)
    /\ Forgotten
    /\ UNCHANGED <<handle, server, s2c, libusb, history>>

-----------------------------------------------------------------------------
(* Server                                                                  *)

\* irpc_read_func: the identifier is an int, whatever image comes next.
ReadFunc ==
    /\ spc = "func" /\ c2s # <<>>
    /\ c2s' = Tail(c2s)
    /\ IF Head(c2s).fmt = IRPC_INT_FMT
       THEN /\ sfunc' = Head(c2s).func
            /\ spc' = IF Handler[sfunc'].args = NoImage THEN "exec" ELSE "args"
       ELSE spc' = "desync" /\ sfunc' = sfunc
    /\ UNCHANGED <<client, sargs, irpc_ctx, irpc_handle, s2c, libusb, history>>

\* The handler reads its arguments.
ReadArgs ==
    /\ spc = "args" /\ c2s # <<>>
    /\ c2s' = Tail(c2s)
    /\ IF Head(c2s).fmt = Handler[sfunc].args
       THEN spc' = "exec" /\ sargs' = Head(c2s)
       ELSE spc' = "desync" /\ sargs' = sargs
    /\ UNCHANGED <<client, sfunc, irpc_ctx, irpc_handle, s2c, libusb, history>>

\* Dead of pc, with the images it had not read.
Stopped(pc) == spc' = pc /\ sfunc' = None /\ sargs' = None /\ c2s' = <<>>

\* Mutant: only server_loop looks for the end of file.
ServerEofInLoop ==
    /\ spc = "func" /\ c2s = <<>> /\ csock # "open"
    /\ Stopped("eof")
    /\ UNCHANGED <<client, irpc_ctx, irpc_handle, s2c, libusb, history>>

\* End of file, as for the client.
ServerEof ==
    /\ spc \in {"func", "args"} /\ c2s = <<>> /\ csock # "open"
    /\ Stopped("eof")
    /\ UNCHANGED <<client, irpc_ctx, irpc_handle, s2c, libusb, history>>

\* libusb follows the NULL context or the NULL handle it is given.
ServerNull ==
    /\ spc = "exec"
    /\ \/ sfunc \in ContextFuncs /\ ~irpc_ctx
       \/ sfunc \in HandleFuncs /\ irpc_handle = None
    /\ Stopped("null")
    /\ UNCHANGED <<client, irpc_ctx, irpc_handle, s2c, libusb, history>>

\* The server is killed: a reply that the client has not read may be lost.
ServerDies ==
    /\ ServerUp
    /\ Stopped("killed")
    /\ s2c' \in {s2c, <<>>}
    /\ UNCHANGED <<client, irpc_ctx, irpc_handle, libusb, history>>

Serve(f) ==
    /\ spc = "exec" /\ sfunc = f
    /\ f \in ContextFuncs => irpc_ctx
    /\ f \in HandleFuncs => irpc_handle # None
    /\ UNCHANGED <<client, c2s, attached, history>>

\* Back to server_loop, which reads the next function.
NextCall(pc) == spc' = pc /\ sfunc' = None /\ sargs' = None

\* The reply; a client that is gone loses it, or the write raises SIGPIPE.
Reply(f, ret, d, list) ==
    \/ /\ csock = "open" /\ Len(s2c) < SockBuf
       /\ s2c' = Append(s2c, ReplyImage(f, ret, d, list))
       /\ NextCall("func")
    \/ /\ csock # "open" /\ s2c' = s2c
       /\ NextCall("func") \/ NextCall("sigpipe")

SUCCESS(f) == Reply(f, "SUCCESS", Zeroed, <<>>)
FAILURE(f) == Reply(f, "FAILURE", Zeroed, <<>>)

\* Mutant: the context is created in a local variable.
UsbInitLocal ==
    /\ Serve("USB_INIT")
    /\ \/ irpc_ctx' = irpc_ctx /\ ctxs' = ctxs + 1 /\ SUCCESS("USB_INIT")
       \/ UNCHANGED <<irpc_ctx, ctxs>> /\ FAILURE("USB_INIT")
    /\ UNCHANGED <<irpc_handle, open, claimed, leaked>>

UsbInit ==
    /\ Serve("USB_INIT")
    /\ \/ irpc_ctx' = TRUE /\ ctxs' = ctxs + 1 /\ SUCCESS("USB_INIT")
       \/ UNCHANGED <<irpc_ctx, ctxs>> /\ FAILURE("USB_INIT")
    /\ UNCHANGED <<irpc_handle, open, claimed, leaked>>

\* Mutant: server_loop does not look at the function it has served.
UsbExitLoops ==
    /\ Serve("USB_EXIT")
    /\ ctxs' = ctxs - 1
    /\ NextCall("func")
    /\ UNCHANGED <<irpc_ctx, irpc_handle, s2c, open, claimed, leaked>>

\* libusb_exit does not reset the static, and server_loop returns.
UsbExit ==
    /\ Serve("USB_EXIT")
    /\ ctxs' = ctxs - 1
    /\ NextCall("done")
    /\ UNCHANGED <<irpc_ctx, irpc_handle, s2c, open, claimed, leaked>>

\* libusb lists nothing when the enumeration fails.  The list is freed.
UsbGetDeviceList ==
    /\ Serve("USB_GET_DEVICE_LIST")
    /\ \E list \in {<<>>} \cup Orders(attached) :
          Reply("USB_GET_DEVICE_LIST", "SUCCESS", Zeroed, DevList(list))
    /\ UNCHANGED <<irpc_ctx, irpc_handle, open, claimed, leaked, ctxs>>

\* Both failures jump over libusb_free_device_list.
UsbGetDeviceDescriptor ==
    /\ Serve("USB_GET_DEVICE_DESCRIPTOR")
    /\ \E list \in {{}, attached} :
          \/ /\ FAILURE("USB_GET_DEVICE_DESCRIPTOR")
             /\ leaked' = (leaked \/ list # {})
          \/ /\ Matching(list, sargs.dev) # {}
             /\ SUCCESS("USB_GET_DEVICE_DESCRIPTOR")
             /\ leaked' = leaked
    /\ UNCHANGED <<irpc_ctx, irpc_handle, open, claimed, ctxs>>

ClaimsWithout(d) == {c \in claimed : c[1] # d}

\* Mutant: an already opened handle is overwritten.
UsbOpenDeviceWithVidPidOverwrites ==
    /\ Serve("USB_OPEN_DEVICE_WITH_VID_PID")
    /\ \/ /\ irpc_handle' = None
          /\ UNCHANGED open
          /\ Reply("USB_OPEN_DEVICE_WITH_VID_PID", "SUCCESS", Zeroed, <<>>)
       \/ \E d \in attached :
             /\ VidPid[d] = sargs.val
             /\ irpc_handle' = d
             /\ open' = open \cup {d}
             /\ Reply("USB_OPEN_DEVICE_WITH_VID_PID", "SUCCESS", IrpcDevice(d), <<>>)
    /\ UNCHANGED <<irpc_ctx, claimed, leaked, ctxs>>

UsbOpenDeviceWithVidPid ==
    /\ Serve("USB_OPEN_DEVICE_WITH_VID_PID")
    /\ claimed' = ClaimsWithout(irpc_handle)
    /\ \/ /\ irpc_handle' = None
          /\ open' = open \ {irpc_handle}
          /\ Reply("USB_OPEN_DEVICE_WITH_VID_PID", "SUCCESS", Zeroed, <<>>)
       \/ \E d \in attached :
             /\ VidPid[d] = sargs.val
             /\ irpc_handle' = d
             /\ open' = (open \ {irpc_handle}) \cup {d}
             /\ Reply("USB_OPEN_DEVICE_WITH_VID_PID", "SUCCESS", IrpcDevice(d), <<>>)
    /\ UNCHANGED <<irpc_ctx, leaked, ctxs>>

\* Mutant: libusb_close is answered like every other call.
UsbCloseReplies ==
    /\ Serve("USB_CLOSE")
    /\ irpc_handle' = None
    /\ open' = open \ {irpc_handle}
    /\ claimed' = ClaimsWithout(irpc_handle)
    /\ SUCCESS("USB_CLOSE")
    /\ UNCHANGED <<irpc_ctx, leaked, ctxs>>

\* Mutant: the static is reset without libusb_close.
UsbCloseForgets ==
    /\ Serve("USB_CLOSE")
    /\ irpc_handle' = None
    /\ NextCall("func")
    /\ UNCHANGED <<irpc_ctx, s2c, open, claimed, leaked, ctxs>>

\* Mutant: libusb_close without resetting the static.
UsbCloseDangling ==
    /\ Serve("USB_CLOSE")
    /\ open' = open \ {irpc_handle}
    /\ claimed' = ClaimsWithout(irpc_handle)
    /\ NextCall("func")
    /\ UNCHANGED <<irpc_ctx, irpc_handle, s2c, leaked, ctxs>>

UsbClose ==
    /\ Serve("USB_CLOSE")
    /\ irpc_handle' = None
    /\ open' = open \ {irpc_handle}
    /\ claimed' = ClaimsWithout(irpc_handle)
    /\ NextCall("func")
    /\ UNCHANGED <<irpc_ctx, s2c, leaked, ctxs>>

\* Mutant: the handle of a successful open is not filled in either.
UsbOpenUnfilled ==
    /\ Serve("USB_OPEN")
    /\ \E list \in {{}, attached}, junk \in Entries :
          \/ /\ Matching(list, sargs.dev) = {}
             /\ Reply("USB_OPEN", "FAILURE", junk, <<>>)
             /\ UNCHANGED <<irpc_handle, open, claimed, leaked>>
          \/ \E d \in Matching(list, sargs.dev) :
             /\ irpc_handle' = d
             /\ open' = (open \ {irpc_handle}) \cup {d}
             /\ claimed' = ClaimsWithout(irpc_handle)
             /\ Reply("USB_OPEN", "SUCCESS", junk, <<>>)
             /\ leaked' = leaked
    /\ UNCHANGED <<irpc_ctx, ctxs>>

\* A device that is not found leaves the open handle alone; one that is found
\* has it closed first, whether libusb_open then succeeds or not.  Both
\* failures leak the list and send a handle nobody initialised.
UsbOpen ==
    /\ Serve("USB_OPEN")
    /\ \E list \in {{}, attached}, junk \in Entries :
          \/ /\ Matching(list, sargs.dev) = {}
             /\ Reply("USB_OPEN", "FAILURE", junk, <<>>)
             /\ leaked' = (leaked \/ list # {})
             /\ UNCHANGED <<irpc_handle, open, claimed>>
          \/ /\ Matching(list, sargs.dev) # {}
             /\ irpc_handle' = None
             /\ open' = open \ {irpc_handle}
             /\ claimed' = ClaimsWithout(irpc_handle)
             /\ Reply("USB_OPEN", "FAILURE", junk, <<>>)
             /\ leaked' = (leaked \/ list # {})
          \/ \E d \in Matching(list, sargs.dev) :
             /\ irpc_handle' = d
             /\ open' = (open \ {irpc_handle}) \cup {d}
             /\ claimed' = ClaimsWithout(irpc_handle)
             /\ Reply("USB_OPEN", "SUCCESS", IrpcDevice(d), <<>>)
             /\ leaked' = leaked
    /\ UNCHANGED <<irpc_ctx, ctxs>>

\* libusb grants a claim the handle already holds without asking the device.
UsbClaimInterface ==
    /\ Serve("USB_CLAIM_INTERFACE")
    /\ LET c == <<irpc_handle, sargs.val>> IN
       \/ /\ irpc_handle \in attached \/ c \in claimed
          /\ claimed' = claimed \cup {c}
          /\ SUCCESS("USB_CLAIM_INTERFACE")
       \/ /\ c \notin claimed
          /\ claimed' = claimed
          /\ FAILURE("USB_CLAIM_INTERFACE")
    /\ UNCHANGED <<irpc_ctx, irpc_handle, open, leaked, ctxs>>

UsbReleaseInterface ==
    /\ Serve("USB_RELEASE_INTERFACE")
    /\ LET c == <<irpc_handle, sargs.val>> IN
       \/ /\ irpc_handle \in attached /\ c \in claimed
          /\ claimed' = claimed \ {c}
          /\ SUCCESS("USB_RELEASE_INTERFACE")
       \/ /\ claimed' = claimed
          /\ FAILURE("USB_RELEASE_INTERFACE")
    /\ UNCHANGED <<irpc_ctx, irpc_handle, open, leaked, ctxs>>

\* Mutant: a failed call returns without its reply.
HandleCallSilent(f) ==
    /\ Serve(f)
    /\ SUCCESS(f) \/ (NextCall("func") /\ s2c' = s2c)
    /\ UNCHANGED <<irpc_ctx, irpc_handle, open, claimed, leaked, ctxs>>

\* The other handle functions change the device and the transferred data, which
\* this module leaves out, and no state of the server.
HandleCall(f) ==
    /\ Serve(f)
    /\ SUCCESS(f) \/ FAILURE(f)
    /\ UNCHANGED <<irpc_ctx, irpc_handle, open, claimed, leaked, ctxs>>

UsbGetConfiguration         == HandleCall("USB_GET_CONFIGURATION")
UsbSetConfiguration         == HandleCall("USB_SET_CONFIGURATION")
UsbSetInterfaceAltSetting   == HandleCall("USB_SET_INTERFACE_ALT_SETTING")
UsbResetDevice              == HandleCall("USB_RESET_DEVICE")
UsbControlTransfer          == HandleCall("USB_CONTROL_TRANSFER")
UsbBulkTransfer             == HandleCall("USB_BULK_TRANSFER")
UsbClearHalt                == HandleCall("USB_CLEAR_HALT")
UsbGetStringDescriptorAscii == HandleCall("USB_GET_STRING_DESCRIPTOR_ASCII")

-----------------------------------------------------------------------------
(* Devices come and go.  Two plugged devices never share session_data.     *)

Plug(d) ==
    /\ d \notin attached
    /\ \A e \in attached : Session[e] # Session[d]
    /\ attached' = attached \cup {d}
    /\ UNCHANGED <<client, server, c2s, s2c, open, claimed, leaked, ctxs, history>>

Unplug(d) ==
    /\ d \in attached
    /\ attached' = attached \ {d}
    /\ UNCHANGED <<client, server, c2s, s2c, open, claimed, leaked, ctxs, history>>

-----------------------------------------------------------------------------
StubStep == ClientArgs \/ ClientReply \/ ClientEof

ClientStep == (\E f \in irpc_func : ClientCall(f)) \/ StubStep \/ ClientLeaves \/ ClientDies

\* irpc_call in the server context.
UsbCall ==
    \/ UsbInit \/ UsbExit \/ UsbGetDeviceList \/ UsbGetDeviceDescriptor
    \/ UsbOpenDeviceWithVidPid \/ UsbClose \/ UsbOpen
    \/ UsbClaimInterface \/ UsbReleaseInterface
    \/ UsbGetConfiguration \/ UsbSetConfiguration \/ UsbSetInterfaceAltSetting
    \/ UsbResetDevice \/ UsbControlTransfer \/ UsbBulkTransfer
    \/ UsbClearHalt \/ UsbGetStringDescriptorAscii

ServerStep == ReadFunc \/ ReadArgs \/ ServerEof \/ ServerNull \/ UsbCall

Hotplug == \E d \in Devices : Plug(d) \/ Unplug(d)

Next == ClientStep \/ ServerStep \/ ServerDies \/ Hotplug

Spec == Init /\ [][Next]_vars

\* The server runs, libusb's calls return, and a stub that was called goes on.
\* Nothing makes the program call or leave, either process die, or a device come
\* or go.
FairSpec == Spec /\ WF_vars(ServerStep) /\ WF_vars(StubStep)

-----------------------------------------------------------------------------
(* Properties                                                              *)

\* The images a client sends and a server sends back.
Messages == [fmt : Formats, func : irpc_func \cup {None}, dev : Entries, val : Values]
Replies  == [fmt : Formats, call : irpc_func, ret : {"SUCCESS", "FAILURE"},
             dev : Entries, devlist : Seq(Entries)]

\* Every variable has its type.
TypeOK ==
    /\ cpc \in {"idle", "args", "reply", "gone", "crashed", "desync"}
    /\ call \in irpc_func \cup {None}
    /\ cdev \in Entries /\ handle \in Entries
    /\ devlist \in Seq(Entries)
    /\ csock \in {"open", "closed", "reset"}
    /\ spc \in {"func", "args", "exec", "done", "eof", "null", "sigpipe", "killed",
                "desync"}
    /\ sfunc \in irpc_func \cup {None}
    /\ sargs \in Messages \cup {None}
    /\ irpc_ctx \in BOOLEAN
    /\ irpc_handle \in Devices \cup {None}
    /\ c2s \in Seq(Messages) /\ s2c \in Seq(Replies)
    /\ attached \subseteq Devices /\ open \subseteq Devices /\ leaked \in BOOLEAN
    /\ claimed \subseteq Devices \X Values
    /\ ctxs \in Int
    /\ wanted \in Entries \cup {None}
    /\ inited \in BOOLEAN /\ exited \in BOOLEAN /\ failed \in BOOLEAN /\ misuse \in BOOLEAN
    /\ inits \in Nat

\* Whatever the program calls and whenever it dies, no reader ever maps a format
\* other than the one the image before it was packed with: the two processes
\* never take arguments for a function identifier, or one reply for another,
\* although CLOSE and EXIT are sent ahead without waiting and nothing on the
\* wire says which call an image belongs to.
NoDesync == cpc # "desync" /\ spc # "desync"

\* A reply in flight to a living client is the only one, answers the call that
\* client is waiting in, and the server has nothing left to read.
ReplyInOrder ==
    s2c # <<>> /\ ClientUp =>
        /\ Len(s2c) = 1
        /\ cpc = "reply" /\ Head(s2c).call = call
        /\ c2s = <<>> /\ spc \in {"func", "killed"}

\* The processes are in step, call by call and image by image.
CallsMatch == NoDesync /\ ReplyInOrder

\* While the program believes a device open, the server holds a handle on it,
\* and the client's irpc_device_handle describes that very device.
HandleCoherent ==
    wanted # None => /\ irpc_handle # None
                     /\ handle = IrpcDevice(irpc_handle)

\* The device a program holds open carries the identifier of the entry it chose,
\* whatever came and went between the list and the open.  It may be one that was
\* given the identifier of the listed device after that had left, and never
\* another while the listed one is plugged and an int carries its identifier.
OpensTheListedDevice ==
    wanted # None =>
        /\ AsInt(Session[irpc_handle]) = wanted.session_data
        /\ /\ {irpc_handle, wanted.of} \subseteq attached
           /\ AsLong(wanted.session_data) = Session[wanted.of]
           => irpc_handle = wanted.of

\* libirpc.h calls session_data "Just an identifier": the entry of a plugged
\* device finds that device and no other.
EntryFindsDevice ==
    \A d \in attached : Matching(attached, IrpcDevice(d)) = {d}

\* The static handle is the only handle libusb has open, and every interface
\* claimed is claimed through it: replacing it loses no handle.
OneHandle ==
    /\ open = {irpc_handle} \ {None}
    /\ \A c \in claimed : c[1] = irpc_handle

\* The handle the server holds is the one the program knows of, and no other
\* was lost on the way.
HandlesAgree == HandleCoherent /\ OneHandle

\* The server follows a NULL context or handle only for a program that called
\* libusb out of order.  It does not survive its client: at the end of file it
\* follows the NULL of an empty tpl, and a reply may raise SIGPIPE.  But a client
\* that calls libusb_exit and then leaves between two calls meets neither: its
\* server ends by returning from server_loop.
ServerStopsForCause ==
    /\ spc = "null" => misuse
    /\ spc = "done" => exited
    /\ spc = "eof" => csock = "reset" \/ (csock = "closed" /\ ~exited)
    /\ spc = "sigpipe" => csock = "reset"

\* The client crashes only of a server that was killed, or that its own misuse of
\* libusb ended.
ClientCrashesForCause == cpc = "crashed" => misuse \/ spc = "killed"

\* Neither process ends the other but in these ways.
EndsExplained == ServerStopsForCause /\ ClientCrashesForCause

\* A server that was told to exit by a program that called libusb in order and
\* whose opens and lookups all succeeded leaves nothing behind in libusb.
CleanShutdown ==
    spc = "done" /\ ~misuse /\ ~failed =>
        ctxs = 0 /\ open = {} /\ claimed = {} /\ ~leaked

\* A stub that waits is not left waiting: it gets its reply or the connection's end.
CallReturns == cpc = "reply" ~> cpc # "reply"

\* Once a program has called libusb_exit, the server stops.
ExitStopsServer == exited ~> ~ServerUp

\* A server never outlives a client process, wherever in a call that ended, if the
\* client's host is there to end the connection: the server's reads have no
\* timeout and its socket no keep-alive, and nothing else would make it stop.
ServerFollowsClient == ~ClientUp ~> ~ServerUp

\* Both ways for a session to be over stop the server.
SessionEnds == ExitStopsServer /\ ServerFollowsClient
=============================================================================
