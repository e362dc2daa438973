----------------------------- MODULE IrpcProofs -----------------------------
(***************************************************************************)
(* Proofs about Irpc and IrpcRefinement.  The types; that the two          *)
(* processes stay in step, since ProtocolInv is inductive; that the        *)
(* program and the server agree about the open device and no handle is     *)
(* lost; that the server stops only for a reason its client gave, a        *)
(* program that calls libusb in order is not brought down by the server's  *)
(* end and leaves nothing behind in it; that the device held has the       *)
(* identifier the program chose; and that all of it is what RemoteCalls    *)
(* promises.                                                               *)
(***************************************************************************)
EXTENDS IrpcRefinement, SequenceTheorems, FiniteSetTheorems, WellFoundedInduction, TLAPS

-----------------------------------------------------------------------------
(* The two tables                                                          *)

\* What the proofs use of the formats each side maps: handler and stub of a
\* function map the same two formats, no argument image can be taken for a
\* function identifier, and a function with arguments has a reply.
LEMMA Tables ==
    \A f \in irpc_func :
        /\ Stub[f] = Handler[f]
        /\ Stub[f].args \in Formats \cup {NoImage}
        /\ Stub[f].reply \in Formats \cup {NoImage}
        /\ Stub[f].args # IRPC_INT_FMT
        /\ Stub[f].args # NoImage => Stub[f].reply # NoImage
        /\ f \in HandleFuncs => Stub[f].reply # NoImage
        /\ f \in {"USB_CLOSE", "USB_EXIT"} <=> Stub[f].reply = NoImage
  BY DEF Maps, Formats, irpc_func, HandleFuncs, ContextFuncs, Stub, Handler, NoImage,
      client_usb_exit, recv_usb_bulk_transfer, recv_usb_claim_interface,
      recv_usb_clear_halt, recv_usb_close, recv_usb_control_transfer,
      recv_usb_get_configuration, recv_usb_get_device_descriptor,
      recv_usb_get_device_list, recv_usb_get_string_descriptor_ascii,
      recv_usb_init, recv_usb_open, recv_usb_open_device_with_vid_pid,
      recv_usb_release_interface, recv_usb_reset_device,
      recv_usb_set_configuration, recv_usb_set_interface_alt_setting,
      server_usb_exit, send_usb_bulk_transfer, send_usb_claim_interface,
      send_usb_clear_halt, send_usb_close, send_usb_control_transfer,
      send_usb_get_configuration, send_usb_get_device_descriptor,
      send_usb_get_device_list, send_usb_get_string_descriptor_ascii,
      send_usb_init, send_usb_open, send_usb_open_device_with_vid_pid,
      send_usb_release_interface, send_usb_reset_device,
      send_usb_set_configuration, send_usb_set_interface_alt_setting,
      IRPC_INT_FMT, IRPC_STR_INT_FMT, IRPC_STR_INT_INT_FMT, IRPC_DEV_FMT,
      IRPC_DEVLIST_FMT, IRPC_DESC_FMT, IRPC_PRID_VEID_FMT, IRPC_DEV_HANDLE_FMT,
      IRPC_DEV_HANDLE_RET_FMT, IRPC_DEV_HANDLE_INT_FMT,
      IRPC_DEV_HANDLE_INT_INT_FMT, IRPC_CTRL_TRANSFER_FMT,
      IRPC_CTRL_STR_INT_INT_FMT, IRPC_BULK_TRANSFER_FMT, IRPC_CLEAR_HALT_FMT,
      IRPC_STRING_DESC_FMT

-----------------------------------------------------------------------------
(* Types                                                                   *)

LEMMA EntryTypes ==
    /\ Zeroed \in Entries
    /\ \A d \in Devices : IrpcDevice(d) \in Entries
  BY DEF Entries

LEMMA FuncImageType ==
    \A f \in irpc_func : FuncImage(f) \in Messages
  BY EntryTypes DEF FuncImage, Messages, Formats, Values

LEMMA ArgumentTypes ==
    ASSUME NEW f \in irpc_func, NEW list \in Seq(Entries), NEW last \in Entries
    PROVE  DeviceArgs(f, list, last) \subseteq Entries /\ NumberArgs(f) \subseteq Values
  <1>1. {list[i] : i \in DOMAIN list} \cup {last} \subseteq Entries
    OBVIOUS
  <1>. QED
    BY <1>1, EntryTypes DEF DeviceArgs, NumberArgs, Values

LEMMA ArgsImageType ==
    ASSUME NEW f \in irpc_func, Stub[f].args # NoImage, NEW d \in Entries, NEW v \in Values
    PROVE  ArgsImage(f, d, v) \in Messages
  BY Tables DEF ArgsImage, Messages

LEMMA ReplyImageType ==
    ASSUME NEW f \in irpc_func, Stub[f].reply # NoImage,
           NEW ret \in {"SUCCESS", "FAILURE"}, NEW d \in Entries, NEW list \in Seq(Entries)
    PROVE  ReplyImage(f, ret, d, list) \in Replies
  BY Tables DEF ReplyImage, Replies

LEMMA DevListType ==
    ASSUME NEW S \in SUBSET Devices, NEW list \in {<<>>} \cup Orders(S)
    PROVE  DevList(list) \in Seq(Entries)
  <1>1. list \in Seq(Devices)
    <2>1. CASE list = <<>>
      BY <2>1
    <2>2. CASE list \in Orders(S)
      <3>1. Cardinality(S) \in Nat
        BY ConstantsAssumption, FS_Subset, FS_CardinalityType
      <3>. QED
        BY <2>2, <3>1 DEF Orders
    <2>. QED
      BY <2>1, <2>2
  <1>. DEFINE n == IF Len(list) < MaxDevs THEN Len(list) ELSE MaxDevs
  <1>2. n \in Nat /\ n <= Len(list)
    BY <1>1, ConstantsAssumption
  <1>3. \A i \in 1..n : IrpcDevice(list[i]) \in Entries
    BY <1>1, <1>2, EntryTypes
  <1>4. DevList(list) \in [1..n -> Entries]
    BY <1>3 DEF DevList
  <1>. QED
    BY <1>2, <1>4

\* A stub that is between its two images or waits is in a function that has
\* them, and a handler that needs arguments runs with them.
ArgsPhase ==
    /\ cpc = "args" => call \in irpc_func /\ Stub[call].args # NoImage
    /\ cpc = "reply" => call \in irpc_func /\ Stub[call].reply # NoImage
    /\ spc = "exec" /\ Handler[sfunc].args # NoImage => sargs \in Messages

TypeInv == TypeOK /\ ArgsPhase

LEMMA ReplyTypes ==
    ASSUME TypeOK, NEW f \in irpc_func, Stub[f].reply # NoImage,
           NEW ret \in {"SUCCESS", "FAILURE"}, NEW d \in Entries, NEW list \in Seq(Entries),
           Reply(f, ret, d, list)
    PROVE  s2c' \in Seq(Replies) /\ spc' \in {"func", "sigpipe"} /\ sfunc' = None /\ sargs' = None
  <1>1. ReplyImage(f, ret, d, list) \in Replies
    BY ReplyImageType
  <1>2. s2c \in Seq(Replies)
    BY DEF TypeOK
  <1>. QED
    BY <1>1, <1>2 DEF Reply, NextCall

LEMMA ShortReplyTypes ==
    ASSUME TypeOK, NEW f \in irpc_func, Stub[f].reply # NoImage,
           SUCCESS(f) \/ FAILURE(f)
    PROVE  s2c' \in Seq(Replies) /\ spc' \in {"func", "sigpipe"} /\ sfunc' = None /\ sargs' = None
  <1>1. <<>> \in Seq(Entries)
    OBVIOUS
  <1>. QED
    BY <1>1, ReplyTypes, EntryTypes DEF SUCCESS, FAILURE

\* What a handler leaves alone keeps its type.
LEMMA ServeTypes ==
    ASSUME TypeInv, NEW f, Serve(f),
           s2c' \in Seq(Replies), spc' \in {"func", "sigpipe", "done"}, sfunc' = None, sargs' = None,
           irpc_ctx' \in BOOLEAN, irpc_handle' \in Devices \cup {None},
           open' \subseteq Devices, claimed' \subseteq Devices \X Values,
           leaked' \in BOOLEAN, ctxs' \in Int
    PROVE  TypeInv'
  BY DEF TypeInv, TypeOK, ArgsPhase, Serve, client, history

LEMMA HandleCallTypes ==
    ASSUME TypeInv, NEW f \in irpc_func, Stub[f].reply # NoImage, HandleCall(f)
    PROVE  TypeInv'
  <1>1. /\ Serve(f) /\ (SUCCESS(f) \/ FAILURE(f))
        /\ UNCHANGED <<irpc_ctx, irpc_handle, open, claimed, leaked, ctxs>>
    BY DEF HandleCall
  <1>. QED
    BY <1>1, ShortReplyTypes, ServeTypes DEF TypeInv, TypeOK

ServerEnds == ServerEof \/ ServerNull \/ ServerDies

\* However the server's process dies, its locals and its unread images go.
LEMMA EndsDo ==
    ASSUME ServerEnds
    PROVE  /\ ServerUp /\ spc' \in {"eof", "null", "killed"} /\ sfunc' = None /\ sargs' = None
           /\ c2s' = <<>>
           /\ s2c' = s2c \/ (s2c' = <<>> /\ spc' = "killed")
           /\ UNCHANGED <<client, irpc_ctx, irpc_handle, libusb, history>>
  BY DEF ServerEnds, ServerEof, ServerNull, ServerDies, Stopped, ServerUp

LEMMA ReadTypes ==
    TypeInv /\ (ReadFunc \/ ReadArgs \/ ServerEnds) => TypeInv'
  <1>1. ASSUME TypeInv, ReadFunc PROVE TypeInv'
    <2>1. Head(c2s) \in Messages /\ Tail(c2s) \in Seq(Messages)
      BY <1>1 DEF TypeInv, TypeOK, ReadFunc
    <2>2. sfunc' \in irpc_func \cup {None}
      BY <1>1, <2>1 DEF TypeInv, TypeOK, ReadFunc, Messages
    <2>3. ArgsPhase'
      BY <1>1 DEF TypeInv, ArgsPhase, ReadFunc, client
    <2>. QED
      BY <1>1, <2>1, <2>2, <2>3 DEF TypeInv, TypeOK, ReadFunc, client, libusb, history
  <1>2. ASSUME TypeInv, ReadArgs PROVE TypeInv'
    <2>1. Head(c2s) \in Messages /\ Tail(c2s) \in Seq(Messages)
      BY <1>2 DEF TypeInv, TypeOK, ReadArgs
    <2>. QED
      BY <1>2, <2>1 DEF TypeInv, TypeOK, ArgsPhase, ReadArgs, client, libusb, history
  <1>3. ASSUME TypeInv, ServerEnds PROVE TypeInv'
    <2>1. s2c' \in Seq(Replies)
      <3>1. s2c \in Seq(Replies) /\ <<>> \in Seq(Replies)
        BY <1>3 DEF TypeInv, TypeOK
      <3>2. s2c' = s2c \/ s2c' = <<>>
        BY <1>3, EndsDo
      <3>. QED
        BY <3>1, <3>2, Zenon
    <2>. QED
      BY <1>3, <2>1, EndsDo DEF TypeInv, TypeOK, ArgsPhase, client, libusb, history
  <1>. QED
    BY <1>1, <1>2, <1>3

LEMMA HandlerTypes ==
    TypeInv /\ UsbCall => TypeInv'
  <1>. SUFFICES ASSUME TypeInv, UsbCall PROVE TypeInv'
    OBVIOUS
  <1>0. /\ irpc_ctx \in BOOLEAN /\ irpc_handle \in Devices \cup {None}
        /\ s2c \in Seq(Replies) /\ attached \subseteq Devices /\ open \subseteq Devices
        /\ claimed \subseteq Devices \X Values /\ leaked \in BOOLEAN /\ ctxs \in Int
        /\ <<>> \in Seq(Entries)
        /\ \A d : ClaimsWithout(d) \subseteq claimed
    BY DEF TypeInv, TypeOK, ClaimsWithout
  <1>f. \A f \in irpc_func \ {"USB_CLOSE", "USB_EXIT"} : Stub[f].reply # NoImage
    BY Tables
  <1>n. {"USB_INIT", "USB_GET_DEVICE_LIST", "USB_GET_DEVICE_DESCRIPTOR",
         "USB_OPEN_DEVICE_WITH_VID_PID", "USB_OPEN", "USB_CLAIM_INTERFACE",
         "USB_RELEASE_INTERFACE", "USB_GET_CONFIGURATION", "USB_SET_CONFIGURATION",
         "USB_SET_INTERFACE_ALT_SETTING", "USB_RESET_DEVICE", "USB_CONTROL_TRANSFER",
         "USB_BULK_TRANSFER", "USB_CLEAR_HALT", "USB_GET_STRING_DESCRIPTOR_ASCII"}
          \subseteq irpc_func \ {"USB_CLOSE", "USB_EXIT"}
    BY DEF irpc_func
  <1>1. CASE UsbInit
    <2>1. /\ SUCCESS("USB_INIT") \/ FAILURE("USB_INIT")
          /\ ctxs' \in {ctxs, ctxs + 1}
          /\ Serve("USB_INIT") /\ UNCHANGED <<irpc_handle, open, claimed, leaked>>
      BY <1>1 DEF UsbInit
    <2>3. irpc_ctx' \in BOOLEAN
      BY Zenon, <1>0, <1>1 DEF UsbInit
    <2>2. /\ s2c' \in Seq(Replies) /\ spc' \in {"func", "sigpipe"}
          /\ sfunc' = None /\ sargs' = None
      BY <1>f, <1>n, <2>1, ShortReplyTypes DEF TypeInv
    <2>. QED
      BY <1>0, <2>1, <2>2, <2>3, ServeTypes
  <1>2. CASE UsbExit
    BY <1>0, <1>2, ServeTypes DEF UsbExit, NextCall
  <1>3. CASE UsbGetDeviceList
    <2>1. PICK list \in {<<>>} \cup Orders(attached) :
             Reply("USB_GET_DEVICE_LIST", "SUCCESS", Zeroed, DevList(list))
      BY <1>3 DEF UsbGetDeviceList
    <2>2. DevList(list) \in Seq(Entries)
      BY <1>0, DevListType
    <2>. QED
      BY <1>0, <1>3, <2>1, <2>2, <1>f, <1>n, EntryTypes, ReplyTypes, ServeTypes
      DEF UsbGetDeviceList, TypeInv
  <1>4. CASE UsbGetDeviceDescriptor
    <2>1. SUCCESS("USB_GET_DEVICE_DESCRIPTOR") \/ FAILURE("USB_GET_DEVICE_DESCRIPTOR")
      BY <1>4 DEF UsbGetDeviceDescriptor
    <2>2. leaked' \in BOOLEAN
      BY Zenon, <1>0, <1>4 DEF UsbGetDeviceDescriptor
    <2>. QED
      BY <1>0, <1>4, <2>1, <2>2, <1>f, <1>n, ShortReplyTypes, ServeTypes
      DEF UsbGetDeviceDescriptor, TypeInv
  <1>5. CASE UsbOpenDeviceWithVidPid
    <2>1. PICK d \in Entries :
             /\ Reply("USB_OPEN_DEVICE_WITH_VID_PID", "SUCCESS", d, <<>>)
             /\ irpc_handle' \in attached \cup {None}
             /\ open' \subseteq open \cup attached
      BY <1>0, <1>5, EntryTypes DEF UsbOpenDeviceWithVidPid
    <2>. QED
      BY <1>0, <1>5, <2>1, <1>f, <1>n, ReplyTypes, ServeTypes DEF UsbOpenDeviceWithVidPid, TypeInv
  <1>6. CASE UsbClose
    BY <1>0, <1>6, ServeTypes DEF UsbClose, NextCall
  <1>7. CASE UsbOpen
    <2>1. PICK d \in Entries, r \in {"SUCCESS", "FAILURE"} :
             /\ Reply("USB_OPEN", r, d, <<>>)
             /\ irpc_handle' \in attached \cup {None, irpc_handle}
             /\ open' \subseteq open \cup attached
             /\ leaked' \in BOOLEAN
             /\ claimed' \subseteq claimed
      BY <1>0, <1>7, EntryTypes DEF UsbOpen, Matching
    <2>. QED
      BY <1>0, <1>7, <2>1, <1>f, <1>n, ReplyTypes, ServeTypes DEF UsbOpen, TypeInv
  <1>8. CASE UsbClaimInterface
    <2>1. <<irpc_handle, sargs.val>> \in Devices \X Values
      <3>1. spc = "exec" /\ sfunc = "USB_CLAIM_INTERFACE" /\ irpc_handle # None
        BY <1>8 DEF UsbClaimInterface, Serve, HandleFuncs, irpc_func, ContextFuncs
      <3>2. Handler["USB_CLAIM_INTERFACE"].args # NoImage
        BY DEF Handler, send_usb_claim_interface, Maps, IRPC_DEV_HANDLE_INT_FMT,
               IRPC_DEV_HANDLE_RET_FMT, NoImage
      <3>. QED
        BY <1>0, <3>1, <3>2 DEF TypeInv, ArgsPhase, Messages
    <2>2. claimed' \subseteq Devices \X Values
      BY <1>0, <1>8, <2>1 DEF UsbClaimInterface
    <2>. QED
      BY <1>0, <1>8, <2>2, <1>f, <1>n, ShortReplyTypes, ServeTypes DEF UsbClaimInterface, TypeInv
  <1>9. CASE UsbReleaseInterface
    <2>1. claimed' \subseteq Devices \X Values
      BY <1>0, <1>9 DEF UsbReleaseInterface
    <2>. QED
      BY <1>0, <1>9, <2>1, <1>f, <1>n, ShortReplyTypes, ServeTypes DEF UsbReleaseInterface, TypeInv
  <1>10. ASSUME NEW f \in irpc_func, Stub[f].reply # NoImage, HandleCall(f)
         PROVE  TypeInv'
    BY <1>10, HandleCallTypes
  <1>. QED
    BY <1>1, <1>2, <1>3, <1>4, <1>5, <1>6, <1>7, <1>8, <1>9, <1>10, <1>f, <1>n
    DEF UsbCall, UsbGetConfiguration, UsbSetConfiguration, UsbSetInterfaceAltSetting,
        UsbResetDevice, UsbControlTransfer, UsbBulkTransfer, UsbClearHalt,
        UsbGetStringDescriptorAscii

LEMMA ClientTypes ==
    TypeInv /\ ClientStep => TypeInv'
  <1>. SUFFICES ASSUME TypeInv, ClientStep PROVE TypeInv'
    OBVIOUS
  <1>0. c2s \in Seq(Messages)
    BY DEF TypeInv, TypeOK
  <1>1. ASSUME NEW f \in irpc_func, ClientCall(f) PROVE TypeInv'
    <2>1. c2s' \in Seq(Messages)
      BY <1>0, <1>1, FuncImageType DEF ClientCall, ClientWrite
    <2>2. /\ cpc' \in {"idle", "args", "reply", "crashed"} /\ csock' \in {"open", "closed", "reset"}
          /\ cpc' = "args" => Stub[f].args # NoImage
          /\ cpc' = "reply" => Stub[f].reply # NoImage
      BY <1>1 DEF ClientCall, ClientWrite, AwaitReply, TypeInv, TypeOK
    <2>3. ArgsPhase'
      BY <1>1, <2>2 DEF ClientCall, ArgsPhase, TypeInv, server
    <2>4. misuse' \in BOOLEAN /\ exited' \in BOOLEAN /\ inited' \in BOOLEAN
      BY Zenon, <1>1 DEF ClientCall, TypeInv, TypeOK
    <2>. QED
      BY <1>1, <2>1, <2>2, <2>3, <2>4 DEF TypeInv, TypeOK, ClientCall, server, libusb
  <1>2. CASE ClientArgs
    <2>1. PICK d \in DeviceArgs(call, devlist, cdev), v \in NumberArgs(call) :
             /\ ClientWrite(ArgsImage(call, d, v), AwaitReply(call))
             /\ cdev' = IF Stub[call].args = IRPC_DEV_FMT THEN d ELSE cdev
      BY <1>2 DEF ClientArgs
    <2>2. call \in irpc_func /\ Stub[call].args # NoImage /\ d \in Entries /\ v \in Values
      BY <1>2, ArgumentTypes DEF ClientArgs, TypeInv, TypeOK, ArgsPhase
    <2>3. c2s' \in Seq(Messages)
      BY <1>0, <2>1, <2>2, ArgsImageType DEF ClientWrite
    <2>4. /\ cpc' \in {"idle", "reply", "crashed"} /\ csock' \in {"open", "closed", "reset"}
          /\ cpc' = "reply" => Stub[call].reply # NoImage
      BY <2>1 DEF ClientWrite, AwaitReply, TypeInv, TypeOK
    <2>. QED
      BY <1>2, <2>1, <2>2, <2>3, <2>4
      DEF TypeInv, TypeOK, ArgsPhase, ClientArgs, server, libusb, history
  <1>3. CASE ClientReply
    <2>1. Head(s2c) \in Replies /\ Tail(s2c) \in Seq(Replies)
      BY <1>3 DEF TypeInv, TypeOK, ClientReply
    <2>2. /\ Head(s2c).dev \in Entries /\ Head(s2c).devlist \in Seq(Entries)
      BY <2>1 DEF Replies
    <2>3. /\ cpc' \in {"idle", "desync"} /\ devlist' \in Seq(Entries) /\ handle' \in Entries
          /\ call' = None /\ UNCHANGED <<cdev, csock, server, c2s, libusb, inits, exited, misuse>>
          /\ s2c' = Tail(s2c)
      BY <1>3, <2>2 DEF ClientReply, TypeInv, TypeOK
    <2>4. inited' \in BOOLEAN /\ failed' \in BOOLEAN
      BY Zenon, <1>3 DEF ClientReply, TypeInv, TypeOK
    <2>5. wanted' \in Entries \cup {None}
      BY <1>3, <2>2 DEF ClientReply, TypeInv, TypeOK
    <2>. QED
      BY <2>1, <2>3, <2>4, <2>5 DEF TypeInv, TypeOK, ArgsPhase, server, libusb
  <1>7. ASSUME Forgotten
        PROVE  call' \in irpc_func \cup {None} /\ cdev' \in Entries /\ devlist' \in Seq(Entries)
    BY <1>7, EntryTypes DEF Forgotten
  <1>4. CASE ClientEof
    BY <1>4, <1>7 DEF TypeInv, TypeOK, ArgsPhase, ClientEof, server, libusb, history
  <1>5. CASE ClientLeaves
    BY <1>5, <1>7 DEF TypeInv, TypeOK, ArgsPhase, ClientLeaves, server, libusb, history
  <1>6. CASE ClientDies
    <2>1. c2s' \in Seq(Messages)
      BY <1>0, <1>6 DEF ClientDies
    <2>. QED
      BY <1>6, <1>7, <2>1 DEF TypeInv, TypeOK, ArgsPhase, ClientDies, server, libusb, history
  <1>. QED
    BY <1>1, <1>2, <1>3, <1>4, <1>5, <1>6 DEF ClientStep, StubStep

LEMMA TypeInit == Init => TypeInv
  <1>1. <<>> \in Seq(Entries) /\ <<>> \in Seq(Messages) /\ <<>> \in Seq(Replies)
    OBVIOUS
  <1>2. ASSUME Init
        PROVE  /\ irpc_ctx \in BOOLEAN /\ leaked \in BOOLEAN /\ inited \in BOOLEAN /\ exited \in BOOLEAN
               /\ failed \in BOOLEAN /\ misuse \in BOOLEAN
    BY Zenon, <1>2 DEF Init
  <1>3. ASSUME Init
        PROVE  /\ cpc = "idle" /\ csock = "open" /\ spc = "func" /\ ctxs = 0 /\ inits = 0
               /\ call = None /\ sfunc = None /\ sargs = None /\ irpc_handle = None
               /\ wanted = None /\ cdev = Zeroed /\ handle = Zeroed
               /\ devlist = <<>> /\ c2s = <<>> /\ s2c = <<>>
               /\ attached = {} /\ open = {} /\ claimed = {}
    BY Zenon, <1>3 DEF Init
  <1>. QED
    BY <1>1, <1>2, <1>3, EntryTypes DEF TypeInv, TypeOK, ArgsPhase

LEMMA TypeStep == TypeInv /\ [Next]_vars => TypeInv'
  <1>. SUFFICES ASSUME TypeInv, [Next]_vars PROVE TypeInv'
    OBVIOUS
  <1>1. CASE ClientStep
    BY <1>1, ClientTypes
  <1>2. CASE ServerStep \/ ServerDies
    BY <1>2, ReadTypes, HandlerTypes DEF ServerStep, ServerEnds
  <1>3. CASE Hotplug
    BY <1>3 DEF TypeInv, TypeOK, ArgsPhase, Hotplug, Plug, Unplug, client, server, history
  <1>4. CASE UNCHANGED vars
    BY <1>4 DEF TypeInv, TypeOK, ArgsPhase, vars, client, server, libusb, history
  <1>. QED
    BY <1>1, <1>2, <1>3, <1>4 DEF Next

\* Every variable of the two processes, the connection and libusb keeps its
\* type, whatever the program calls and whenever it dies.
THEOREM TypeCorrect == Spec => []TypeOK
  <1>. QED
    BY TypeInit, TypeStep, PTL DEF Spec, TypeInv
-----------------------------------------------------------------------------
(* The two processes in step                                               *)

\* What ProtocolInv says of the program counters, which every step needs.
LEMMA Quiet ==
    ASSUME ProtocolInv, cpc = "idle"
    PROVE  /\ s2c = <<>>
           /\ ServerUp => Follows(Len(c2s)) = NoImage
           /\ \A i \in 1..Len(c2s) : ServerUp /\ IsFunc(c2s[i]) => ~Answered(c2s[i].func)
           /\ Busy => ~Answered(sfunc)
  BY DEF ProtocolInv, Wire, OneAnswer, ClientUp

\* One more image at the end of the queue.
LEMMA Appending ==
    ASSUME ProtocolInv, NEW image \in Messages, c2s' = Append(c2s, image), UNCHANGED <<spc, sfunc>>
    PROVE  /\ Len(c2s') = Len(c2s) + 1
           /\ \A i \in 1..Len(c2s) : c2s'[i] = c2s[i]
           /\ c2s'[Len(c2s) + 1] = image
           /\ \A k \in 0..Len(c2s) : Follows(k)' = Follows(k)
           /\ Follows(Len(c2s))' = IF IsFunc(image) THEN Stub[image.func].args ELSE NoImage
  <1>1. c2s \in Seq(Messages)
    BY DEF ProtocolInv, TypeOK
  <1>2. /\ Len(c2s') = Len(c2s) + 1
        /\ \A i \in 1..Len(c2s) : c2s'[i] = c2s[i]
        /\ c2s'[Len(c2s) + 1] = image
        /\ Len(c2s) \in Nat
    BY <1>1
  <1>3. ASSUME NEW k \in 0..Len(c2s) PROVE Follows(k)' = Follows(k)
    BY <1>2 DEF Follows, IsFunc
  <1>4. Follows(Len(c2s))' = IF IsFunc(image) THEN Stub[image.func].args ELSE NoImage
    BY <1>2 DEF Follows, IsFunc
  <1>. QED
    BY <1>2, <1>3, <1>4

LEMMA ClientCallInStep ==
    ASSUME ProtocolInv, NEW f \in irpc_func, ClientCall(f)
    PROVE  Phase' /\ Wire' /\ OneAnswer'
  <1>1. /\ cpc = "idle" /\ (cpc' # "idle" => call' = f) /\ UNCHANGED <<spc, sfunc, sargs, s2c>>
        /\ ClientWrite(FuncImage(f), IF Stub[f].args = NoImage THEN AwaitReply(f) ELSE "args")
    BY DEF ClientCall, server
  <1>2. ClientUp /\ csock = "open"
    BY <1>1 DEF ProtocolInv, OneAnswer, ClientUp
  <1>3. cpc' = (IF Stub[f].args = NoImage THEN AwaitReply(f) ELSE "args") \/ ~ClientUp'
    BY <1>1 DEF ClientWrite, ClientUp
  <1>4. cpc' = "args" => Stub[f].args # NoImage
    BY <1>1, <1>3 DEF ClientUp, AwaitReply
  <1>5. cpc' = "reply" => Answered(f)
    BY <1>1, <1>3 DEF ClientUp, AwaitReply, Answered
  <1>6. Phase'
    BY <1>1, <1>4, <1>5 DEF ProtocolInv, Phase, Busy, Answered
  <1>7. CASE ServerUp
    <2>1. /\ c2s' = Append(c2s, FuncImage(f)) /\ csock' = csock
          /\ cpc' = (IF Stub[f].args = NoImage THEN AwaitReply(f) ELSE "args")
      BY <1>1, <1>7 DEF ClientWrite
    <2>2. FuncImage(f) \in Messages /\ IsFunc(FuncImage(f)) /\ FuncImage(f).func = f
      BY FuncImageType DEF FuncImage, IsFunc
    <2>. DEFINE n == Len(c2s)
    <2>3. /\ Len(c2s') = n + 1 /\ n \in Nat
          /\ \A i \in 1..n : c2s'[i] = c2s[i]
          /\ c2s'[n + 1] = FuncImage(f)
          /\ \A k \in 0..n : Follows(k)' = Follows(k)
          /\ Follows(Len(c2s))' = Stub[f].args
      BY <1>1, <2>1, <2>2, Appending DEF ProtocolInv, TypeOK
    <2>4. Wire'
      <3>1. ASSUME NEW i \in 1..(n + 1)
            PROVE  IF Follows(i - 1)' = NoImage
                   THEN IsFunc(c2s'[i]) /\ c2s'[i].func \in irpc_func
                   ELSE c2s'[i].fmt = Follows(i - 1)' /\ ~IsFunc(c2s'[i])
        <4>1. CASE i \in 1..n
          BY <1>7, <2>3, <4>1 DEF ProtocolInv, Wire, IsFunc
        <4>2. CASE i = n + 1
          BY <1>1, <1>7, <2>2, <2>3, <4>2, Quiet
        <4>. QED
          BY <2>3, <4>1, <4>2
      <3>2. Follows(Len(c2s))' = IF cpc' = "args" THEN Stub[call'].args ELSE NoImage
        BY <1>1, <2>1, <2>3 DEF AwaitReply
      <3>. QED
        BY <2>3, <3>1, <3>2 DEF Wire, IsFunc
    <2>5. OneAnswer'
      <3>1. \A i \in 1..n : ~(IsFunc(c2s[i]) /\ Answered(c2s[i].func))
        BY <1>1, <1>7, Quiet
      <3>2. s2c' = <<>> /\ (Busy' => ~Answered(sfunc'))
        BY <1>1, Quiet DEF Busy
      <3>3. Answered(f) => cpc' # "idle"
        BY <2>1 DEF Answered, AwaitReply
      <3>. QED
        BY <1>1, <1>2, <2>1, <2>2, <2>3, <3>1, <3>2, <3>3 DEF OneAnswer, IsFunc, Answered
    <2>. QED
      BY <1>6, <2>4, <2>5
  <1>8. CASE ~ServerUp
    <2>1. ~ServerUp' /\ ~Busy' /\ s2c' = <<>>
      BY <1>1, <1>8, Quiet DEF ServerUp, Busy
    <2>2. ClientUp' => csock' = "open"
      BY <1>1, <1>2, <1>8 DEF ClientWrite, ClientUp
    <2>. QED
      BY <1>6, <2>1, <2>2 DEF Wire, OneAnswer
  <1>. QED
    BY <1>7, <1>8

LEMMA ClientArgsInStep ==
    ASSUME TypeInv, ProtocolInv, ClientArgs
    PROVE  Phase' /\ Wire' /\ OneAnswer'
  <1>1. /\ cpc = "args" /\ UNCHANGED <<call, spc, sfunc, sargs, s2c>>
        /\ ClientUp /\ csock = "open" /\ s2c = <<>>
        /\ call \in irpc_func /\ Stub[call].args # NoImage /\ Answered(call)
    BY Tables DEF ClientArgs, server, ProtocolInv, OneAnswer, ClientUp, Phase, Answered
  <1>2. PICK d \in DeviceArgs(call, devlist, cdev), v \in NumberArgs(call) :
           ClientWrite(ArgsImage(call, d, v), AwaitReply(call))
    BY DEF ClientArgs
  <1>3. /\ ArgsImage(call, d, v) \in Messages
        /\ ArgsImage(call, d, v).fmt = Stub[call].args
        /\ ~IsFunc(ArgsImage(call, d, v))
    <2>1. d \in Entries /\ v \in Values
      BY <1>1, ArgumentTypes DEF TypeInv, TypeOK
    <2>. QED
      BY <1>1, <2>1, ArgsImageType, Tables DEF ArgsImage, IsFunc
  <1>4. cpc' = "reply" \/ ~ClientUp'
    BY <1>1, <1>2 DEF ClientWrite, AwaitReply, Answered, ClientUp
  <1>5. Phase'
    BY <1>1, <1>4 DEF ProtocolInv, Phase, Busy, Answered, ClientUp
  <1>6. CASE ServerUp
    <2>. DEFINE n == Len(c2s)
    <2>1. c2s' = Append(c2s, ArgsImage(call, d, v)) /\ csock' = csock /\ cpc' = "reply"
      BY <1>1, <1>2, <1>6 DEF ClientWrite, AwaitReply, Answered
    <2>2. /\ Len(c2s') = n + 1 /\ n \in Nat
          /\ \A i \in 1..n : c2s'[i] = c2s[i]
          /\ c2s'[n + 1] = ArgsImage(call, d, v)
          /\ \A k \in 0..n : Follows(k)' = Follows(k)
          /\ Follows(Len(c2s))' = NoImage
      BY <1>1, <1>3, <2>1, Appending DEF ProtocolInv, TypeOK
    <2>3. Follows(n) = Stub[call].args
      BY <1>1, <1>6 DEF ProtocolInv, Wire
    <2>4. Wire'
      <3>1. ASSUME NEW i \in 1..(n + 1)
            PROVE  IF Follows(i - 1)' = NoImage
                   THEN IsFunc(c2s'[i]) /\ c2s'[i].func \in irpc_func
                   ELSE c2s'[i].fmt = Follows(i - 1)' /\ ~IsFunc(c2s'[i])
        <4>1. CASE i \in 1..n
          BY <1>6, <2>2, <4>1 DEF ProtocolInv, Wire, IsFunc
        <4>2. CASE i = n + 1
          BY <1>1, <1>3, <2>2, <2>3, <4>2 DEF IsFunc
        <4>. QED
          BY <2>2, <4>1, <4>2
      <3>. QED
        BY <2>1, <2>2, <3>1 DEF Wire, IsFunc
    <2>5. \A i \in 1..n : IsFunc(c2s[i]) /\ Answered(c2s[i].func) => i = n
      <3>1. SUFFICES ASSUME NEW i \in 1..n, IsFunc(c2s[i]), Answered(c2s[i].func), i # n
                     PROVE  FALSE
        OBVIOUS
      <3>2. i = n - 1 /\ c2s[i].func = call
        BY <1>1, <1>6, <2>2, <3>1 DEF ProtocolInv, OneAnswer
      <3>3. Follows(i) = Stub[call].args /\ i \in Nat
        BY <2>2, <3>1, <3>2 DEF Follows
      <3>4. ~IsFunc(c2s[n])
        BY <1>1, <1>6, <2>2, <3>1, <3>2, <3>3, Tables DEF ProtocolInv, Wire, IsFunc
      <3>. QED
        BY <1>1, <2>2, <2>3, <3>1, <3>2, <3>4 DEF Follows
    <2>6. Busy /\ Answered(sfunc) => spc = "args" /\ sfunc = call /\ n = 0
      <3>1. SUFFICES ASSUME Busy, Answered(sfunc) PROVE spc = "args" /\ sfunc = call /\ n = 0
        OBVIOUS
      <3>2. spc = "args" /\ n <= 1 /\ sfunc = call
        BY <1>1, <3>1 DEF ProtocolInv, OneAnswer, Busy
      <3>3. ASSUME n = 1 PROVE FALSE
        <4>1. Follows(0) = Stub[call].args
          BY <3>2 DEF Follows
        <4>2. ~IsFunc(c2s[1])
          BY <1>1, <1>6, <3>3, <4>1, Tables DEF ProtocolInv, Wire, IsFunc
        <4>. QED
          BY <1>1, <2>3, <3>3, <4>2 DEF Follows
      <3>4. n \in Nat
        BY <2>2
      <3>. HIDE DEF n
      <3>. QED
        BY <3>2, <3>3, <3>4
    <2>7. OneAnswer'
      <3>1. ASSUME NEW i \in 1..(n + 1), IsFunc(c2s'[i]), Answered(c2s'[i].func)
            PROVE  c2s'[i].func = call /\ i = n
        BY <1>1, <1>3, <1>6, <2>2, <2>5, <3>1 DEF ProtocolInv, OneAnswer
      <3>2. Busy' /\ Answered(sfunc') => spc' = "args" /\ sfunc' = call' /\ Len(c2s') <= 1
        BY <1>1, <2>2, <2>6 DEF Busy
      <3>. QED
        BY <1>1, <2>1, <2>2, <3>1, <3>2 DEF OneAnswer, IsFunc, Answered
    <2>. QED
      BY <1>5, <2>4, <2>7
  <1>7. CASE ~ServerUp
    <2>1. ~ServerUp' /\ ~Busy' /\ s2c' = <<>>
      BY <1>1, <1>7 DEF ServerUp, Busy
    <2>2. ClientUp' => csock' = "open"
      BY <1>1, <1>2, <1>7 DEF ClientWrite, ClientUp
    <2>. QED
      BY <1>5, <2>1, <2>2 DEF Wire, OneAnswer
  <1>. QED
    BY <1>6, <1>7

\* The other steps of the client shorten the queue at its end, if at all.
LEMMA ClientOtherInStep ==
    ASSUME ProtocolInv, ClientReply \/ ClientEof \/ ClientLeaves \/ ClientDies
    PROVE  Phase' /\ Wire' /\ OneAnswer'
  <1>1. CASE ClientReply
    <2>1. /\ cpc = "reply" /\ s2c # <<>> /\ s2c' = Tail(s2c)
          /\ call' = None /\ UNCHANGED <<csock, spc, sfunc, sargs, c2s>>
          /\ cpc' = "idle" \/ ~ClientUp'
      BY <1>1 DEF ClientReply, server, ClientUp
    <2>2. Len(s2c) = 1 /\ s2c \in Seq(Replies) /\ c2s = <<>> /\ csock = "open"
          /\ spc \in {"func", "killed"}
      BY <2>1 DEF ProtocolInv, TypeOK, OneAnswer, ClientUp
    <2>3. s2c' = <<>>
      BY <2>1, <2>2
    <2>4. Follows(Len(c2s))' = NoImage /\ Len(c2s') = 0
      BY <2>1, <2>2 DEF Follows
    <2>. QED
      BY <2>1, <2>2, <2>3, <2>4 DEF ProtocolInv, Phase, Wire, OneAnswer, Busy, ClientUp
  <1>2. CASE ClientEof \/ ClientLeaves
    <2>1. UNCHANGED <<spc, sfunc, sargs, c2s>> /\ ~ClientUp'
      BY <1>2 DEF ClientEof, ClientLeaves, ClientUp, server
    <2>2. \A k : Follows(k)' = Follows(k)
      BY <2>1 DEF Follows, IsFunc
    <2>. QED
      BY <2>1, <2>2 DEF ProtocolInv, Phase, Wire, OneAnswer, Busy, ServerUp, ClientUp, IsFunc
  <1>3. CASE ClientDies
    <2>1. UNCHANGED <<spc, sfunc, sargs>> /\ ~ClientUp'
      BY <1>3 DEF ClientDies, ClientUp, server
    <2>2. PICK n \in 0..Len(c2s) : c2s' = SubSeq(c2s, 1, n)
      BY <1>3 DEF ClientDies
    <2>3. Len(c2s') = n /\ n <= Len(c2s) /\ \A i \in 1..n : c2s'[i] = c2s[i]
      BY <2>2 DEF ProtocolInv, TypeOK
    <2>4. \A k \in 0..n : Follows(k)' = Follows(k)
      BY <2>1, <2>3 DEF Follows, IsFunc
    <2>5. c2s \in Seq(Messages) /\ Len(c2s) \in Nat
      BY DEF ProtocolInv, TypeOK
    <2>6. ASSUME ServerUp, NEW i \in 1..n
          PROVE  IF Follows(i - 1)' = NoImage
                 THEN IsFunc(c2s'[i]) /\ c2s'[i].func \in irpc_func
                 ELSE c2s'[i].fmt = Follows(i - 1)' /\ ~IsFunc(c2s'[i])
      <3>1. i \in 1..Len(c2s) /\ i - 1 \in 0..n
        BY <2>3, <2>5
      <3>2. c2s'[i] = c2s[i] /\ Follows(i - 1)' = Follows(i - 1)
        BY <2>3, <2>4, <3>1
      <3>3. IF Follows(i - 1) = NoImage
            THEN IsFunc(c2s[i]) /\ c2s[i].func \in irpc_func
            ELSE c2s[i].fmt = Follows(i - 1) /\ ~IsFunc(c2s[i])
        BY <2>6, <3>1 DEF ProtocolInv, Wire
      <3> QED BY <3>2, <3>3 DEF IsFunc
    <2>. QED
      BY <2>1, <2>3, <2>6 DEF ProtocolInv, Phase, Wire, OneAnswer, Busy, ServerUp, ClientUp, IsFunc
  <1>. QED
    BY <1>1, <1>2, <1>3

\* What a read leaves of the queue.
LEMMA Reading ==
    ASSUME ProtocolInv, c2s # <<>>, c2s' = Tail(c2s),
           Follows(0)' = IF IsFunc(c2s[1]) THEN Stub[c2s[1].func].args ELSE NoImage
    PROVE  /\ Len(c2s') = Len(c2s) - 1 /\ Len(c2s) \in Nat \ {0}
           /\ \A i \in 1..(Len(c2s) - 1) : c2s'[i] = c2s[i + 1]
           /\ \A k \in 0..(Len(c2s) - 1) : Follows(k)' = Follows(k + 1)
           /\ Follows(Len(c2s))' = Follows(Len(c2s))
  <1>1. c2s \in Seq(Messages)
    BY DEF ProtocolInv, TypeOK
  <1>2. /\ Len(c2s') = Len(c2s) - 1 /\ Len(c2s) \in Nat \ {0}
        /\ \A i \in 1..(Len(c2s) - 1) : c2s'[i] = c2s[i + 1]
    BY <1>1
  <1>3. ASSUME NEW k \in 0..(Len(c2s) - 1) PROVE Follows(k)' = Follows(k + 1)
    <2>1. CASE k = 0
      BY <2>1 DEF Follows
    <2>2. CASE k # 0
      BY <1>2, <2>2 DEF Follows, IsFunc
    <2>. QED
      BY <2>1, <2>2
  <1>4. Follows(Len(c2s))' = Follows(Len(c2s))
    <2>1. CASE Len(c2s) = 1
      BY <1>2, <2>1 DEF Follows
    <2>2. CASE Len(c2s) # 1
      BY <1>2, <2>2 DEF Follows, IsFunc
    <2>. QED
      BY <2>1, <2>2
  <1>. QED
    BY <1>2, <1>3, <1>4

\* A queue whose first image was read is still well formed.
LEMMA WireAfterRead ==
    ASSUME ProtocolInv, ServerUp, c2s # <<>>, c2s' = Tail(c2s), UNCHANGED <<cpc, call>>,
           Follows(0)' = IF IsFunc(c2s[1]) THEN Stub[c2s[1].func].args ELSE NoImage
    PROVE  Wire'
  <1>. DEFINE n == Len(c2s) - 1
  <1>1. /\ Len(c2s') = n /\ n \in Nat /\ Len(c2s) \in Nat
        /\ \A i \in 1..n : c2s'[i] = c2s[i + 1]
        /\ \A k \in 0..n : Follows(k)' = Follows(k + 1)
        /\ Follows(Len(c2s))' = Follows(Len(c2s))
    BY Reading
  <1>2. ASSUME NEW i \in 1..n
        PROVE  IF Follows(i - 1)' = NoImage
               THEN IsFunc(c2s'[i]) /\ c2s'[i].func \in irpc_func
               ELSE c2s'[i].fmt = Follows(i - 1)' /\ ~IsFunc(c2s'[i])
    <2>1. i + 1 \in 1..Len(c2s) /\ Follows(i - 1)' = Follows((i + 1) - 1)
      BY <1>1
    <2>. QED
      BY <1>1, <2>1 DEF ProtocolInv, Wire
  <1>. QED
    BY <1>1, <1>2 DEF ProtocolInv, Wire, ClientUp, IsFunc

LEMMA ReadFuncInStep ==
    ASSUME ProtocolInv, ReadFunc
    PROVE  Phase' /\ Wire' /\ OneAnswer' /\ spc' # "desync"
  <1>1. /\ spc = "func" /\ ServerUp /\ ~Busy /\ c2s # <<>> /\ c2s' = Tail(c2s)
        /\ UNCHANGED <<cpc, call, csock, sargs, s2c>>
    BY DEF ReadFunc, client, ServerUp, Busy
  <1>2. c2s \in Seq(Messages) /\ Len(c2s) \in Nat \ {0} /\ Head(c2s) = c2s[1]
    BY <1>1 DEF ProtocolInv, TypeOK
  <1>. DEFINE f == c2s[1].func
  <1>3. IsFunc(c2s[1]) /\ f \in irpc_func
    <2>1. Follows(1 - 1) = NoImage
      BY <1>1 DEF Follows
    <2>. QED
      BY <1>1, <1>2, <2>1 DEF ProtocolInv, Wire
  <1>4. sfunc' = f /\ spc' = IF Stub[f].args = NoImage THEN "exec" ELSE "args"
    BY <1>2, <1>3, Tables DEF ReadFunc, IsFunc
  <1>5. Follows(0)' = Stub[f].args
    BY <1>4 DEF Follows
  <1>6. Phase'
    BY <1>1, <1>3, <1>4 DEF ProtocolInv, Phase, Busy, Answered
  <1>7. Wire'
    BY <1>1, <1>3, <1>5, WireAfterRead
  <1>8. ASSUME ClientUp PROVE OneAnswer'
    <2>. DEFINE n == Len(c2s) - 1
    <2>0. \A j \in 1..Len(c2s) :
              IsFunc(c2s[j]) /\ Answered(c2s[j].func) =>
                  /\ c2s[j].func = call /\ cpc # "idle"
                  /\ j = Len(c2s) \/ (j = Len(c2s) - 1 /\ Stub[call].args # NoImage)
      BY <1>1, <1>8 DEF ProtocolInv, OneAnswer
    <2>1. Len(c2s') = n /\ n \in Nat /\ \A i \in 1..n : c2s'[i] = c2s[i + 1]
      BY <1>1, <1>2
    <2>2. s2c = <<>>
      BY <1>1, <1>8 DEF ProtocolInv, OneAnswer
    <2>3. ASSUME NEW i \in 1..n, IsFunc(c2s'[i]), Answered(c2s'[i].func)
          PROVE  /\ c2s'[i].func = call /\ cpc # "idle"
                 /\ i = n \/ (i = n - 1 /\ Stub[call].args # NoImage)
      <3>1. i + 1 \in 1..Len(c2s) /\ c2s'[i] = c2s[i + 1]
        BY <1>2, <2>1
      <3>. QED
        BY <1>2, <2>0, <2>1, <2>3, <3>1
    <2>4. ASSUME Answered(f)
          PROVE  /\ f = call /\ cpc # "idle"
                 /\ n = 0 \/ (n = 1 /\ Stub[f].args # NoImage)
      <3>1. 1 \in 1..Len(c2s) /\ (1 = Len(c2s) => n = 0) /\ (1 = Len(c2s) - 1 => n = 1)
        BY <1>2
      <3>2. /\ f = call /\ cpc # "idle"
            /\ 1 = Len(c2s) \/ (1 = Len(c2s) - 1 /\ Stub[call].args # NoImage)
        BY <1>3, <2>0, <2>4, <3>1
      <3>. HIDE DEF n
      <3>. QED
        BY <3>1, <3>2
    <2>5. ASSUME Answered(f), Stub[f].args = NoImage PROVE cpc = "reply" /\ c2s' = <<>>
      <3>1. n = 0 /\ cpc \in {"args", "reply"} /\ f = call
        BY <1>8, <2>4, <2>5 DEF ClientUp
      <3>2. Follows(Len(c2s)) = NoImage
        <4>1. Len(c2s) = 1
          BY <1>2, <3>1
        <4>. QED
          BY <1>3, <2>5, <4>1 DEF Follows
      <3>3. cpc # "args"
        BY <1>1, <1>8, <2>5, <3>1, <3>2 DEF ProtocolInv, Wire, Phase
      <3>. QED
        BY <1>1, <1>2, <2>1, <3>1, <3>3
    <2>6. Busy' /\ Answered(sfunc') =>
              /\ sfunc' = call /\ cpc # "idle"
              /\ spc' = "exec" => c2s' = <<>> /\ cpc = "reply"
              /\ spc' = "args" => Len(c2s') <= 1
      <3>1. n <= 1 \/ ~Answered(f)
        BY <2>1, <2>4
      <3>. QED
        BY <1>4, <2>1, <2>4, <2>5, <3>1
    <2>7. csock' = "open" /\ s2c' = <<>> /\ UNCHANGED <<cpc, call>>
      BY <1>1, <1>8, <2>2 DEF ProtocolInv, OneAnswer
    <2>. QED
      BY <2>1, <2>3, <2>6, <2>7 DEF OneAnswer, IsFunc, Answered
  <1>9. ~ClientUp => OneAnswer'
    BY <1>1 DEF OneAnswer, ClientUp
  <1>. QED
    BY <1>4, <1>6, <1>7, <1>8, <1>9

LEMMA ReadArgsInStep ==
    ASSUME ProtocolInv, ReadArgs
    PROVE  Phase' /\ Wire' /\ OneAnswer' /\ spc' # "desync"
  <1>1. /\ spc = "args" /\ ServerUp /\ Busy /\ c2s # <<>> /\ c2s' = Tail(c2s)
        /\ UNCHANGED <<cpc, call, csock, sfunc, s2c>>
        /\ sfunc \in irpc_func /\ Stub[sfunc].args # NoImage
    BY DEF ReadArgs, client, ServerUp, Busy, ProtocolInv, Phase
  <1>2. c2s \in Seq(Messages) /\ Len(c2s) \in Nat \ {0} /\ Head(c2s) = c2s[1] /\ Head(c2s) \in Messages
    BY <1>1 DEF ProtocolInv, TypeOK
  <1>3. c2s[1].fmt = Stub[sfunc].args /\ ~IsFunc(c2s[1])
    <2>1. Follows(1 - 1) = Stub[sfunc].args
      BY <1>1 DEF Follows
    <2>. QED
      BY <1>1, <1>2, <2>1, Tables DEF ProtocolInv, Wire, IsFunc
  <1>4. spc' = "exec" /\ sargs' \in Messages
    BY <1>1, <1>2, <1>3, Tables DEF ReadArgs
  <1>5. Follows(0)' = NoImage
    BY <1>4 DEF Follows
  <1>6. Phase'
    BY <1>1, <1>4 DEF ProtocolInv, Phase, Busy, Answered
  <1>7. Wire'
    BY <1>1, <1>3, <1>5, WireAfterRead
  <1>8. ASSUME ClientUp PROVE OneAnswer'
    <2>. DEFINE n == Len(c2s) - 1
    <2>0. \A j \in 1..Len(c2s) :
              IsFunc(c2s[j]) /\ Answered(c2s[j].func) =>
                  /\ c2s[j].func = call /\ cpc # "idle"
                  /\ j = Len(c2s) \/ (j = Len(c2s) - 1 /\ Stub[call].args # NoImage)
      BY <1>1, <1>8 DEF ProtocolInv, OneAnswer
    <2>1. Len(c2s') = n /\ n \in Nat /\ \A i \in 1..n : c2s'[i] = c2s[i + 1]
      BY <1>1, <1>2
    <2>2. s2c = <<>>
      BY <1>1, <1>8 DEF ProtocolInv, OneAnswer
    <2>3. ASSUME NEW i \in 1..n, IsFunc(c2s'[i]), Answered(c2s'[i].func)
          PROVE  /\ c2s'[i].func = call /\ cpc # "idle"
                 /\ i = n \/ (i = n - 1 /\ Stub[call].args # NoImage)
      <3>1. i + 1 \in 1..Len(c2s) /\ c2s'[i] = c2s[i + 1]
        BY <1>2, <2>1
      <3>. QED
        BY <1>2, <2>0, <2>1, <2>3, <3>1
    <2>4. ASSUME Answered(sfunc) PROVE sfunc = call /\ cpc = "reply" /\ c2s' = <<>>
      <3>1. sfunc = call /\ cpc \in {"args", "reply"} /\ Len(c2s) = 1
        <4>1. sfunc = call /\ cpc # "idle" /\ Len(c2s) <= 1
          BY <1>1, <1>8, <2>4 DEF ProtocolInv, OneAnswer
        <4>0. \A m \in Nat \ {0} : m <= 1 => m = 1
          OBVIOUS
        <4>2. Len(c2s) = 1
          BY Zenon, <1>2, <4>0, <4>1
        <4>. QED
          BY <1>8, <4>1, <4>2 DEF ClientUp
      <3>2. Follows(Len(c2s)) = NoImage
        BY <1>3, <3>1 DEF Follows
      <3>3. cpc # "args"
        BY <1>1, <1>8, <3>1, <3>2 DEF ProtocolInv, Wire
      <3>. QED
        BY <1>1, <1>2, <3>1, <3>3
    <2>. QED
      BY <1>1, <1>4, <1>8, <2>1, <2>2, <2>3, <2>4
      DEF ProtocolInv, OneAnswer, IsFunc, Answered, ClientUp, Busy
  <1>9. ~ClientUp => OneAnswer'
    BY <1>1 DEF OneAnswer, ClientUp
  <1>. QED
    BY <1>4, <1>6, <1>7, <1>8, <1>9

\* How a handler ends: without a reply if its function has none, with its reply
\* lost if the client is gone, with the reply of its function otherwise.
Ends(f) ==
    /\ Serve(f) /\ sfunc' = None /\ sargs' = None
    /\ \/ ~Answered(f) /\ s2c' = s2c /\ spc' \in {"func", "done"}
       \/ csock # "open" /\ s2c' = s2c /\ spc' \in {"func", "sigpipe"}
       \/ /\ Answered(f) /\ csock = "open" /\ spc' = "func"
          /\ \E ret, d, list : s2c' = Append(s2c, ReplyImage(f, ret, d, list))

LEMMA ReplyEnds ==
    ASSUME NEW f \in irpc_func, Answered(f), Serve(f), NEW ret, NEW d, NEW list,
           Reply(f, ret, d, list)
    PROVE  Ends(f)
  BY DEF Ends, Reply, NextCall

LEMMA ShortReplyEnds ==
    ASSUME NEW f \in irpc_func, Answered(f), Serve(f), SUCCESS(f) \/ FAILURE(f)
    PROVE  Ends(f)
  BY ReplyEnds DEF SUCCESS, FAILURE

LEMMA HandlerEnds ==
    ASSUME UsbCall
    PROVE  \E f \in irpc_func : Ends(f)
  <1>0. \A f \in irpc_func : f \notin {"USB_CLOSE", "USB_EXIT"} => Answered(f)
    BY Tables DEF Answered
  <1>1. {"USB_INIT", "USB_GET_DEVICE_LIST", "USB_GET_DEVICE_DESCRIPTOR",
         "USB_OPEN_DEVICE_WITH_VID_PID", "USB_OPEN", "USB_CLAIM_INTERFACE",
         "USB_RELEASE_INTERFACE", "USB_GET_CONFIGURATION", "USB_SET_CONFIGURATION",
         "USB_SET_INTERFACE_ALT_SETTING", "USB_RESET_DEVICE", "USB_CONTROL_TRANSFER",
         "USB_BULK_TRANSFER", "USB_CLEAR_HALT", "USB_GET_STRING_DESCRIPTOR_ASCII"}
            \subseteq {f \in irpc_func : Answered(f)}
    BY <1>0 DEF irpc_func
  <1>2. CASE UsbExit
    BY <1>2, Tables DEF UsbExit, Ends, NextCall, Answered, irpc_func
  <1>3. CASE UsbClose
    BY <1>3, Tables DEF UsbClose, Ends, NextCall, Answered, irpc_func
  <1>4. CASE UsbInit
    BY <1>1, <1>4, ShortReplyEnds DEF UsbInit
  <1>5. CASE UsbGetDeviceList
    BY <1>1, <1>5, ReplyEnds DEF UsbGetDeviceList
  <1>6. CASE UsbGetDeviceDescriptor
    BY <1>1, <1>6, ShortReplyEnds DEF UsbGetDeviceDescriptor
  <1>7. CASE UsbOpenDeviceWithVidPid
    BY <1>1, <1>7, ReplyEnds DEF UsbOpenDeviceWithVidPid
  <1>8. CASE UsbOpen
    BY <1>1, <1>8, ReplyEnds DEF UsbOpen
  <1>9. CASE UsbClaimInterface
    BY <1>1, <1>9, ShortReplyEnds DEF UsbClaimInterface
  <1>10. CASE UsbReleaseInterface
    BY <1>1, <1>10, ShortReplyEnds DEF UsbReleaseInterface
  <1>11. ASSUME NEW f \in irpc_func, Answered(f), HandleCall(f) PROVE Ends(f)
    BY <1>11, ShortReplyEnds DEF HandleCall
  <1>. QED
    BY <1>1, <1>2, <1>3, <1>4, <1>5, <1>6, <1>7, <1>8, <1>9, <1>10, <1>11
    DEF UsbCall, UsbGetConfiguration, UsbSetConfiguration, UsbSetInterfaceAltSetting,
        UsbResetDevice, UsbControlTransfer, UsbBulkTransfer, UsbClearHalt,
        UsbGetStringDescriptorAscii

LEMMA EndsInStep ==
    ASSUME ProtocolInv, NEW f \in irpc_func, Ends(f)
    PROVE  Phase' /\ Wire' /\ OneAnswer' /\ spc' # "desync"
  <1>1. /\ spc = "exec" /\ sfunc = f /\ Busy /\ ServerUp /\ ~Busy'
        /\ spc' \in {"func", "sigpipe", "done"}
        /\ UNCHANGED <<cpc, call, csock, c2s>>
    BY DEF Ends, Serve, client, Busy, ServerUp
  <1>2. Phase'
    BY <1>1 DEF ProtocolInv, Phase, Answered
  <1>3. \A k : Follows(k)' = Follows(k)
    BY <1>1 DEF Follows, IsFunc
  <1>4. Wire'
    BY <1>1, <1>3 DEF ProtocolInv, Wire, ClientUp, IsFunc
  <1>5. ASSUME ClientUp PROVE OneAnswer'
    <2>1. csock = "open" /\ s2c = <<>>
      BY <1>1, <1>5 DEF ProtocolInv, OneAnswer
    <2>2. CASE ~Answered(f)
      <3>1. s2c' = <<>>
        BY <2>1, <2>2 DEF Ends
      <3>. QED
        BY <1>1, <1>5, <3>1 DEF ProtocolInv, OneAnswer, ClientUp, IsFunc, Answered, ServerUp
    <2>3. CASE Answered(f)
      <3>1. f = call /\ cpc = "reply" /\ c2s = <<>>
        BY <1>1, <1>5, <2>3 DEF ProtocolInv, OneAnswer
      <3>2. PICK ret, d, list : s2c' = Append(s2c, ReplyImage(f, ret, d, list))
        BY <2>1, <2>3 DEF Ends
      <3>3. spc' = "func"
        BY <2>1, <2>3 DEF Ends
      <3>4. Len(s2c') = 1 /\ Head(s2c') = ReplyImage(f, ret, d, list)
        BY <2>1, <3>2
      <3>5. Head(s2c').call = call /\ Head(s2c').fmt = Handler[call].reply
        BY <3>1, <3>4 DEF ReplyImage
      <3>. QED
        BY <1>1, <2>1, <3>1, <3>3, <3>4, <3>5 DEF OneAnswer
    <2>. QED
      BY <2>2, <2>3
  <1>6. ~ClientUp => OneAnswer'
    BY <1>1 DEF OneAnswer, ClientUp
  <1>. QED
    BY <1>1, <1>2, <1>4, <1>5, <1>6

LEMMA StopInStep ==
    ASSUME ProtocolInv, ServerEnds
    PROVE  Phase' /\ Wire' /\ OneAnswer' /\ spc' # "desync"
  <1>1. /\ spc' \in {"eof", "null", "killed"} /\ ServerUp /\ ~ServerUp' /\ ~Busy'
        /\ c2s' = <<>> /\ UNCHANGED <<cpc, call, csock>>
        /\ s2c' = <<>> \/ s2c' = s2c
    BY EndsDo DEF client, ServerUp, Busy
  <1>2. ClientUp /\ s2c # <<>> => spc' = "killed"
    BY DEF ServerEnds, ServerEof, ServerNull, ServerDies, Stopped, ProtocolInv, OneAnswer
  <1>. QED
    BY <1>1, <1>2 DEF ProtocolInv, Phase, Wire, OneAnswer, ClientUp

InStep == TypeInv /\ ProtocolInv /\ NoDesync

LEMMA InStepInit == Init => InStep
  <1>. SUFFICES ASSUME Init PROVE InStep
    OBVIOUS
  <1>1. TypeInv
    BY TypeInit
  <1>2. cpc = "idle" /\ csock = "open" /\ spc = "func" /\ c2s = <<>> /\ s2c = <<>>
    BY Zenon DEF Init
  <1>3. Follows(Len(c2s)) = NoImage /\ Len(c2s) = 0
    BY <1>2 DEF Follows
  <1>. QED
    BY <1>1, <1>2, <1>3 DEF InStep, TypeInv, ProtocolInv, NoDesync, Phase, Wire, OneAnswer, Busy

LEMMA InStepStep == InStep /\ [Next]_vars => InStep'
  <1>. SUFFICES ASSUME InStep, [Next]_vars PROVE InStep'
    OBVIOUS
  <1>0. TypeInv /\ ProtocolInv /\ NoDesync /\ TypeInv' /\ TypeOK'
    BY TypeStep DEF InStep, TypeInv
  <1>1. CASE ClientStep
    <2>1. Phase' /\ Wire' /\ OneAnswer'
      BY <1>0, <1>1, ClientCallInStep, ClientArgsInStep, ClientOtherInStep DEF ClientStep, StubStep
    <2>2. spc' = spc
      BY <1>1 DEF ClientStep, StubStep, ClientCall, ClientArgs, ClientReply, ClientEof,
                  ClientLeaves, ClientDies, server
    <2>3. ASSUME ClientReply PROVE cpc' # "desync"
      <3>1. cpc = "reply" /\ s2c # <<>> /\ call \in irpc_func
        BY <1>0, <2>3 DEF ClientReply, ProtocolInv, Phase
      <3>2. Head(s2c).fmt = Stub[call].reply
        BY <1>0, <3>1, Tables DEF ProtocolInv, OneAnswer, ClientUp
      <3>. QED
        BY <2>3, <3>2 DEF ClientReply
    <2>4. ASSUME NEW image, NEW pc, pc # "desync", ClientWrite(image, pc) PROVE cpc' # "desync"
      BY <2>4 DEF ClientWrite
    <2>5. ASSUME NEW f \in irpc_func, ClientCall(f) PROVE cpc' # "desync"
      BY <2>4, <2>5 DEF ClientCall, AwaitReply
    <2>6. ASSUME ClientArgs PROVE cpc' # "desync"
      BY <2>4, <2>6 DEF ClientArgs, AwaitReply
    <2>7. cpc' # "desync"
      BY <1>1, <2>3, <2>5, <2>6 DEF ClientStep, StubStep, ClientEof, ClientLeaves, ClientDies
    <2>. QED
      BY <1>0, <2>1, <2>2, <2>7 DEF InStep, ProtocolInv, NoDesync
  <1>2. CASE ServerStep \/ ServerDies
    <2>1. Phase' /\ Wire' /\ OneAnswer' /\ spc' # "desync"
      BY <1>0, <1>2, ReadFuncInStep, ReadArgsInStep, StopInStep, HandlerEnds, EndsInStep
      DEF ServerStep, ServerEnds
    <2>2. cpc' = cpc
      <3>1. \A f : Ends(f) => cpc' = cpc
        BY DEF Ends, Serve, client
      <3>. QED
        BY <1>2, <3>1, HandlerEnds, EndsDo DEF ServerStep, ServerEnds, ReadFunc, ReadArgs, client
    <2>. QED
      BY <1>0, <2>1, <2>2 DEF InStep, ProtocolInv, NoDesync
  <1>3. CASE Hotplug \/ UNCHANGED vars
    <2>1. UNCHANGED <<cpc, call, csock, spc, sfunc, sargs, c2s, s2c>>
      BY <1>3 DEF Hotplug, Plug, Unplug, vars, client, server
    <2>2. \A k : Follows(k)' = Follows(k)
      BY <2>1 DEF Follows, IsFunc
    <2>. QED
      BY <1>0, <2>1, <2>2 DEF InStep, ProtocolInv, NoDesync, Phase, Wire, OneAnswer,
                              Busy, ServerUp, ClientUp, IsFunc, Answered
  <1>. QED
    BY <1>1, <1>2, <1>3 DEF Next

\* The conjunction TLC checks is an invariant for every number of devices and
\* interfaces and every size of the socket buffers.
THEOREM ProtocolCorrect == Spec => []ProtocolInv
  <1>1. InStep => ProtocolInv
    BY DEF InStep
  <1>. QED
    BY <1>1, InStepInit, InStepStep, PTL DEF Spec

\* No reader ever maps a format the next image was not packed with, although
\* calls without a reply are sent ahead of what the server has done.
THEOREM NeverDesync == Spec => []NoDesync
  <1>1. InStep => NoDesync
    BY DEF InStep
  <1>. QED
    BY <1>1, InStepInit, InStepStep, PTL DEF Spec

\* The reply a living client reads is the only one there is and answers the
\* call it waits in.
THEOREM RepliesInOrder == Spec => []ReplyInOrder
  <1>1. InStep => ReplyInOrder
    BY DEF InStep, ProtocolInv, OneAnswer, ReplyInOrder
  <1>. QED
    BY <1>1, InStepInit, InStepStep, PTL DEF Spec

\* Both together: the stubs and handlers stay in step call by call.
THEOREM CallsInStep == Spec => []CallsMatch
  <1>1. NoDesync /\ ReplyInOrder => CallsMatch
    BY DEF CallsMatch
  <1>. QED
    BY <1>1, NeverDesync, RepliesInOrder, PTL

-----------------------------------------------------------------------------
(* Handlers                                                                *)

\* What the reply of function f says about the state its handler leaves.
Honest(f, ret, d) ==
    /\ f = "USB_INIT" /\ ret = "SUCCESS" => irpc_ctx' = TRUE
    /\ f = "USB_OPEN" /\ ret = "SUCCESS" =>
          Session[irpc_handle'] = AsLong(sargs.dev.session_data)
    /\ (f = "USB_OPEN" /\ ret = "SUCCESS") \/ (f = "USB_OPEN_DEVICE_WITH_VID_PID" /\ d # Zeroed) =>
          irpc_handle' \in Devices /\ d = IrpcDevice(irpc_handle')

\* The effect of serving function f.
Does(f) ==
    /\ Ends(f)
    /\ f \notin Changers => irpc_handle' = irpc_handle
    /\ irpc_ctx = TRUE => irpc_ctx' = TRUE
    /\ spc' = "done" <=> f = "USB_EXIT"
    /\ spc' = "sigpipe" => Answered(f)
    /\ Answered(f) /\ csock = "open" =>
          \E ret, d, list : s2c' = Append(s2c, ReplyImage(f, ret, d, list)) /\ Honest(f, ret, d)
    /\ OneHandle => OneHandle'

LEMMA ReplyDoes ==
    ASSUME NEW f \in irpc_func, Answered(f), Serve(f), NEW ret, NEW d, NEW list,
           Reply(f, ret, d, list), Honest(f, ret, d),
           f \notin Changers => irpc_handle' = irpc_handle,
           irpc_ctx = TRUE => irpc_ctx' = TRUE, OneHandle => OneHandle'
    PROVE  Does(f)
  <1>1. Ends(f)
    BY ReplyEnds
  <1>2. spc' # "done" /\ f # "USB_EXIT"
    BY Tables DEF Reply, NextCall, Answered
  <1>3. csock = "open" => s2c' = Append(s2c, ReplyImage(f, ret, d, list))
    BY DEF Reply
  <1>. QED
    BY <1>1, <1>2, <1>3 DEF Does

\* A handler that touches neither static and answers success or failure.
LEMMA PlainDoes ==
    ASSUME NEW f \in irpc_func, Answered(f), f \notin Openers, f # "USB_INIT",
           Serve(f), SUCCESS(f) \/ FAILURE(f), UNCHANGED <<irpc_ctx, irpc_handle>>,
           OneHandle => OneHandle'
    PROVE  Does(f)
  <1>1. PICK ret : Reply(f, ret, Zeroed, <<>>)
    BY DEF SUCCESS, FAILURE
  <1>2. Honest(f, ret, Zeroed)
    BY DEF Honest, Openers
  <1>. QED
    BY <1>1, <1>2, ReplyDoes DEF Openers, Changers

LEMMA UnopenedDoes ==
    ASSUME NEW f \in Openers, Serve(f), NEW ret, NEW d, Reply(f, ret, d, <<>>), UNCHANGED irpc_ctx,
           ~((f = "USB_OPEN" /\ ret = "SUCCESS") \/ (f = "USB_OPEN_DEVICE_WITH_VID_PID" /\ d # Zeroed)),
           OneHandle => OneHandle'
    PROVE  Does(f)
  <1>1. f \in irpc_func /\ Answered(f) /\ f \in Changers /\ f # "USB_INIT"
    BY Tables DEF Openers, Changers, irpc_func, Answered
  <1>2. Honest(f, ret, d)
    BY <1>1 DEF Honest
  <1>. QED
    BY <1>1, <1>2, ReplyDoes

LEMMA OpenedDoes ==
    ASSUME NEW f \in Openers, Serve(f), NEW e \in Devices,
           Reply(f, "SUCCESS", IrpcDevice(e), <<>>), UNCHANGED irpc_ctx, irpc_handle' = e,
           f = "USB_OPEN" => Session[e] = AsLong(sargs.dev.session_data),
           open' = (open \ {irpc_handle}) \cup {e}, claimed' = ClaimsWithout(irpc_handle)
    PROVE  Does(f)
  <1>1. f \in irpc_func /\ Answered(f) /\ f \in Changers /\ f # "USB_INIT"
    BY Tables DEF Openers, Changers, irpc_func, Answered
  <1>2. Honest(f, "SUCCESS", IrpcDevice(e))
    BY <1>1 DEF Honest
  <1>3. OneHandle => OneHandle'
    BY ConstantsAssumption DEF OneHandle, ClaimsWithout
  <1>. QED
    BY <1>1, <1>2, <1>3, ReplyDoes

LEMMA HandlerDoes ==
    ASSUME TypeOK, UsbCall
    PROVE  \E f \in irpc_func : Does(f)
  <1>0. \A f \in irpc_func : f \notin {"USB_CLOSE", "USB_EXIT"} => Answered(f)
    BY Tables DEF Answered
  <1>1. /\ {"USB_INIT", "USB_GET_DEVICE_LIST", "USB_GET_DEVICE_DESCRIPTOR",
            "USB_OPEN_DEVICE_WITH_VID_PID", "USB_OPEN", "USB_CLAIM_INTERFACE",
            "USB_RELEASE_INTERFACE", "USB_GET_CONFIGURATION", "USB_SET_CONFIGURATION",
            "USB_SET_INTERFACE_ALT_SETTING", "USB_RESET_DEVICE", "USB_CONTROL_TRANSFER",
            "USB_BULK_TRANSFER", "USB_CLEAR_HALT", "USB_GET_STRING_DESCRIPTOR_ASCII"}
               \subseteq {f \in irpc_func : Answered(f)}
        /\ "USB_CLOSE" \in irpc_func /\ "USB_EXIT" \in irpc_func
        /\ ~Answered("USB_CLOSE") /\ ~Answered("USB_EXIT")
    BY <1>0, Tables DEF irpc_func, Answered
  <1>2. CASE UsbExit
    <2>1. Ends("USB_EXIT") /\ spc' = "done"
      BY <1>1, <1>2 DEF UsbExit, Ends, NextCall
    <2>2. OneHandle => OneHandle'
      BY <1>2 DEF UsbExit, OneHandle
    <2>3. UNCHANGED <<irpc_ctx, irpc_handle>>
      BY <1>2 DEF UsbExit
    <2>. QED
      BY <1>1, <2>1, <2>2, <2>3 DEF Does
  <1>3. CASE UsbClose
    <2>1. Ends("USB_CLOSE") /\ spc' = "func"
      BY <1>1, <1>3 DEF UsbClose, Ends, NextCall
    <2>2. OneHandle => OneHandle'
      BY <1>3 DEF UsbClose, OneHandle, ClaimsWithout
    <2>3. UNCHANGED <<irpc_ctx>>
      BY <1>3 DEF UsbClose
    <2>. QED
      BY <1>1, <2>1, <2>2, <2>3 DEF Does, Changers
  <1>4. CASE UsbInit
    <2>1. OneHandle => OneHandle'
      BY <1>4 DEF UsbInit, OneHandle
    <2>2. PICK ret : /\ Reply("USB_INIT", ret, Zeroed, <<>>)
                     /\ ret = "SUCCESS" => irpc_ctx' = TRUE
                     /\ irpc_ctx = TRUE => irpc_ctx' = TRUE
      BY <1>4 DEF UsbInit, SUCCESS, FAILURE
    <2>3. Honest("USB_INIT", ret, Zeroed)
      BY <2>2 DEF Honest
    <2>. QED
      BY <1>1, <1>4, <2>1, <2>2, <2>3, ReplyDoes DEF UsbInit
  <1>5. CASE UsbGetDeviceList
    <2>1. OneHandle => OneHandle'
      BY <1>5 DEF UsbGetDeviceList, OneHandle
    <2>2. PICK list : Reply("USB_GET_DEVICE_LIST", "SUCCESS", Zeroed, DevList(list))
      BY <1>5 DEF UsbGetDeviceList
    <2>3. Honest("USB_GET_DEVICE_LIST", "SUCCESS", Zeroed)
      BY DEF Honest
    <2>. QED
      BY <1>1, <1>5, <2>1, <2>2, <2>3, ReplyDoes DEF UsbGetDeviceList
  <1>6. CASE UsbGetDeviceDescriptor
    <2>1. OneHandle => OneHandle'
      BY <1>6 DEF UsbGetDeviceDescriptor, OneHandle
    <2>. QED
      BY <1>1, <1>6, <2>1, PlainDoes DEF UsbGetDeviceDescriptor, Openers
  <1>7. CASE UsbOpenDeviceWithVidPid
    <2>0. "USB_OPEN_DEVICE_WITH_VID_PID" \in Openers /\ attached \subseteq Devices
      BY DEF Openers, TypeOK
    <2>1. CASE irpc_handle' = None /\ Reply("USB_OPEN_DEVICE_WITH_VID_PID", "SUCCESS", Zeroed, <<>>)
                  /\ open' = open \ {irpc_handle}
      <3>1. OneHandle => OneHandle'
        BY <1>7, <2>1 DEF UsbOpenDeviceWithVidPid, OneHandle, ClaimsWithout
      <3>. QED
        BY <1>1, <1>7, <2>0, <2>1, <3>1, UnopenedDoes DEF UsbOpenDeviceWithVidPid
    <2>2. ASSUME NEW e \in attached, irpc_handle' = e,
                 open' = (open \ {irpc_handle}) \cup {e},
                 Reply("USB_OPEN_DEVICE_WITH_VID_PID", "SUCCESS", IrpcDevice(e), <<>>)
          PROVE  Does("USB_OPEN_DEVICE_WITH_VID_PID")
      BY <1>7, <2>0, <2>2, OpenedDoes DEF UsbOpenDeviceWithVidPid
    <2>. QED
      BY <1>1, <1>7, <2>1, <2>2 DEF UsbOpenDeviceWithVidPid
  <1>8. CASE UsbOpen
    <2>0. "USB_OPEN" \in Openers /\ attached \subseteq Devices
      BY DEF Openers, TypeOK
    <2>1. PICK list \in {{}, attached}, junk \in Entries :
          \/ /\ Reply("USB_OPEN", "FAILURE", junk, <<>>)
             /\ UNCHANGED <<irpc_handle, open, claimed>>
          \/ /\ irpc_handle' = None
             /\ open' = open \ {irpc_handle}
             /\ claimed' = ClaimsWithout(irpc_handle)
             /\ Reply("USB_OPEN", "FAILURE", junk, <<>>)
          \/ \E d \in Matching(list, sargs.dev) :
             /\ irpc_handle' = d
             /\ open' = (open \ {irpc_handle}) \cup {d}
             /\ claimed' = ClaimsWithout(irpc_handle)
             /\ Reply("USB_OPEN", "SUCCESS", IrpcDevice(d), <<>>)
      BY <1>8 DEF UsbOpen
    <2>2. Serve("USB_OPEN") /\ UNCHANGED irpc_ctx
      BY <1>8 DEF UsbOpen
    <2>3. CASE Reply("USB_OPEN", "FAILURE", junk, <<>>) /\ UNCHANGED <<irpc_handle, open, claimed>>
      <3>1. OneHandle => OneHandle'
        BY <2>3 DEF OneHandle
      <3>. QED
        BY <1>1, <2>0, <2>2, <2>3, <3>1, UnopenedDoes
    <2>4. CASE /\ irpc_handle' = None
               /\ open' = open \ {irpc_handle}
               /\ claimed' = ClaimsWithout(irpc_handle)
               /\ Reply("USB_OPEN", "FAILURE", junk, <<>>)
      <3>1. OneHandle => OneHandle'
        BY <2>4 DEF OneHandle, ClaimsWithout
      <3>. QED
        BY <1>1, <2>0, <2>2, <2>4, <3>1, UnopenedDoes
    <2>5. ASSUME NEW d \in Matching(list, sargs.dev), irpc_handle' = d,
                 open' = (open \ {irpc_handle}) \cup {d},
                 claimed' = ClaimsWithout(irpc_handle),
                 Reply("USB_OPEN", "SUCCESS", IrpcDevice(d), <<>>)
          PROVE  Does("USB_OPEN")
      <3>1. d \in Devices /\ Session[d] = AsLong(sargs.dev.session_data)
        BY <2>0 DEF Matching
      <3>. QED
        BY <2>0, <2>2, <2>5, <3>1, OpenedDoes
    <2>. QED
      BY <1>1, <2>1, <2>3, <2>4, <2>5
  <1>9. CASE UsbClaimInterface
    <2>1. OneHandle => OneHandle'
      BY <1>9 DEF UsbClaimInterface, OneHandle
    <2>. QED
      BY <1>1, <1>9, <2>1, PlainDoes DEF UsbClaimInterface, Openers
  <1>10. CASE UsbReleaseInterface
    <2>1. OneHandle => OneHandle'
      BY <1>10 DEF UsbReleaseInterface, OneHandle
    <2>. QED
      BY <1>1, <1>10, <2>1, PlainDoes DEF UsbReleaseInterface, Openers
  <1>11. ASSUME NEW f \in irpc_func, Answered(f), f \notin Openers, f # "USB_INIT", HandleCall(f)
         PROVE  Does(f)
    <2>1. OneHandle => OneHandle'
      BY <1>11 DEF HandleCall, OneHandle
    <2>. QED
      BY <1>11, <2>1, PlainDoes DEF HandleCall
  <1>. QED
    BY <1>1, <1>2, <1>3, <1>4, <1>5, <1>6, <1>7, <1>8, <1>9, <1>10, <1>11
    DEF UsbCall, UsbGetConfiguration, UsbSetConfiguration, UsbSetInterfaceAltSetting,
        UsbResetDevice, UsbControlTransfer, UsbBulkTransfer, UsbClearHalt,
        UsbGetStringDescriptorAscii, Openers
-----------------------------------------------------------------------------
(* What is pending                                                         *)

\* A client's call puts at most its own function among the pending ones.
LEMMA PendingAfterCall ==
    ASSUME TypeOK, NEW f \in irpc_func, ClientCall(f)
    PROVE  /\ \A g : Pending(g)' => Pending(g) \/ g = f
           /\ \A g : Pending(g) => Pending(g)'
           /\ ServerUp => Pending(f)'
  <1>1. c2s \in Seq(Messages) /\ FuncImage(f) \in Messages
    BY FuncImageType DEF TypeOK
  <1>2. IsFunc(FuncImage(f)) /\ FuncImage(f).func = f
    BY DEF IsFunc, FuncImage
  <1>3. UNCHANGED <<spc, sfunc>>
    BY DEF ClientCall, server
  <1>4. (ServerUp /\ c2s' = Append(c2s, FuncImage(f))) \/ (~ServerUp /\ c2s' = c2s)
    BY DEF ClientCall, ClientWrite
  <1>5. CASE c2s' = Append(c2s, FuncImage(f))
    <2>1. /\ DOMAIN c2s' = 1..(Len(c2s) + 1) /\ DOMAIN c2s = 1..Len(c2s) /\ Len(c2s) \in Nat
          /\ \A i \in 1..Len(c2s) : c2s'[i] = c2s[i]
          /\ c2s'[Len(c2s) + 1] = FuncImage(f)
      BY <1>1, <1>5
    <2>. QED
      BY <1>2, <1>3, <2>1 DEF Pending, Busy, IsFunc
  <1>6. CASE ~ServerUp /\ c2s' = c2s
    BY <1>3, <1>6 DEF Pending, Busy, ServerUp, IsFunc
  <1>. QED
    BY <1>4, <1>5, <1>6

LEMMA PendingAfterArgs ==
    ASSUME TypeInv, ClientArgs
    PROVE  \A g : Pending(g)' = Pending(g)
  <1>1. c2s \in Seq(Messages)
    BY DEF TypeInv, TypeOK
  <1>2. call \in irpc_func /\ UNCHANGED <<spc, sfunc>>
    BY DEF ClientArgs, TypeInv, ArgsPhase, server
  <1>3. PICK d, v : ClientWrite(ArgsImage(call, d, v), AwaitReply(call))
    BY DEF ClientArgs
  <1>4. ~IsFunc(ArgsImage(call, d, v))
    BY <1>2, Tables DEF IsFunc, ArgsImage
  <1>5. CASE c2s' = Append(c2s, ArgsImage(call, d, v))
    <2>1. /\ DOMAIN c2s' = 1..(Len(c2s) + 1) /\ DOMAIN c2s = 1..Len(c2s) /\ Len(c2s) \in Nat
          /\ \A i \in 1..Len(c2s) : c2s'[i] = c2s[i]
          /\ c2s'[Len(c2s) + 1] = ArgsImage(call, d, v)
      BY <1>1, <1>5
    <2>. QED
      BY <1>2, <1>4, <2>1 DEF Pending, Busy, IsFunc
  <1>6. CASE c2s' = c2s
    BY <1>2, <1>6 DEF Pending, Busy, IsFunc
  <1>. QED
    BY <1>3, <1>5, <1>6 DEF ClientWrite

\* A client that dies leaves fewer calls pending.
LEMMA PendingAfterDeath ==
    ASSUME TypeOK, ClientDies
    PROVE  \A g : Pending(g)' => Pending(g)
  <1>1. c2s \in Seq(Messages) /\ UNCHANGED <<spc, sfunc>>
    BY DEF TypeOK, ClientDies, server
  <1>2. PICK n \in 0..Len(c2s) : c2s' = SubSeq(c2s, 1, n)
    BY DEF ClientDies
  <1>3. /\ DOMAIN c2s' = 1..n /\ DOMAIN c2s = 1..Len(c2s) /\ Len(c2s) \in Nat
        /\ \A i \in 1..n : c2s'[i] = c2s[i]
    BY <1>1, <1>2
  <1>. QED
    BY <1>1, <1>3 DEF Pending, Busy, IsFunc

\* A server that died has nothing pending.
LEMMA PendingAfterEnd ==
    ASSUME ServerEnds
    PROVE  \A g : ~Pending(g)'
  BY EndsDo DEF Pending, Busy

\* The identifier the server reads moves from the queue to sfunc.
LEMMA PendingAfterRead ==
    ASSUME TypeOK, ReadFunc
    PROVE  /\ \A g : Pending(g)' => Pending(g)
           /\ \A g : Pending(g) => Pending(g)' \/ ~ServerUp'
  <1>1. c2s \in Seq(Messages) /\ c2s # <<>> /\ c2s' = Tail(c2s) /\ spc = "func"
    BY DEF TypeOK, ReadFunc
  <1>2. /\ DOMAIN c2s' = 1..(Len(c2s) - 1) /\ DOMAIN c2s = 1..Len(c2s) /\ Len(c2s) \in Nat \ {0}
        /\ \A i \in 1..(Len(c2s) - 1) : c2s'[i] = c2s[i + 1]
        /\ Head(c2s) = c2s[1]
    BY <1>1
  <1>3. \/ IsFunc(c2s[1]) /\ sfunc' = c2s[1].func /\ spc' \in {"args", "exec"}
        \/ ~IsFunc(c2s[1]) /\ spc' = "desync"
    BY <1>2 DEF ReadFunc, IsFunc
  <1>4. \A i \in 1..Len(c2s) : i = 1 \/ (i - 1 \in 1..(Len(c2s) - 1) /\ c2s'[i - 1] = c2s[i])
    BY <1>2
  <1>5. ASSUME NEW g, Pending(g)' PROVE Pending(g)
    <2>1. CASE Busy' /\ sfunc' = g
      BY <1>2, <1>3, <2>1 DEF Pending, Busy
    <2>2. CASE \E i \in DOMAIN c2s' : IsFunc(c2s'[i]) /\ c2s'[i].func = g
      <3>1. PICK i \in 1..(Len(c2s) - 1) : IsFunc(c2s[i + 1]) /\ c2s[i + 1].func = g
        BY <1>2, <2>2 DEF IsFunc
      <3>2. i + 1 \in DOMAIN c2s
        BY <1>2
      <3>. QED
        BY <3>1, <3>2 DEF Pending
    <2>. QED
      BY <1>5, <2>1, <2>2 DEF Pending, IsFunc
  <1>6. ASSUME NEW g, Pending(g), ServerUp' PROVE Pending(g)'
    <2>1. PICK i \in 1..Len(c2s) : IsFunc(c2s[i]) /\ c2s[i].func = g
      BY <1>1, <1>2, <1>6 DEF Pending, Busy
    <2>2. CASE i = 1
      BY <1>3, <1>6, <2>1, <2>2 DEF Pending, Busy, ServerUp
    <2>3. CASE i # 1
      <3>1. i - 1 \in DOMAIN c2s' /\ c2s'[i - 1] = c2s[i]
        BY <1>2, <1>4, <2>3
      <3>. QED
        BY <2>1, <3>1 DEF Pending, IsFunc
    <2>. QED
      BY <2>2, <2>3
  <1>. QED
    BY <1>5, <1>6

LEMMA PendingAfterReadArgs ==
    ASSUME ProtocolInv, ReadArgs
    PROVE  /\ ~IsFunc(Head(c2s)) /\ Head(c2s) = c2s[1] /\ Len(c2s) \in Nat \ {0}
           /\ \A i \in 1..(Len(c2s) - 1) : c2s'[i] = c2s[i + 1]
           /\ Len(c2s') = Len(c2s) - 1
           /\ \A g : Pending(g)' = Pending(g)
  <1>1. c2s \in Seq(Messages) /\ c2s # <<>> /\ c2s' = Tail(c2s) /\ spc = "args" /\ sfunc \in irpc_func
    BY DEF ProtocolInv, TypeOK, ReadArgs, Phase, Busy
  <1>2. /\ DOMAIN c2s' = 1..(Len(c2s) - 1) /\ DOMAIN c2s = 1..Len(c2s) /\ Len(c2s) \in Nat \ {0}
        /\ \A i \in 1..(Len(c2s) - 1) : c2s'[i] = c2s[i + 1]
        /\ Head(c2s) = c2s[1] /\ Len(c2s') = Len(c2s) - 1
    BY <1>1
  <1>3. c2s[1].fmt = Stub[sfunc].args /\ Stub[sfunc].args # NoImage
    <2>1. Follows(1 - 1) = Stub[sfunc].args /\ Follows(1 - 1) # NoImage /\ 1 \in 1..Len(c2s)
      BY <1>1, <1>2 DEF Follows, ProtocolInv, Phase
    <2>. QED
      BY <1>1, <2>1 DEF ProtocolInv, Wire, ServerUp
  <1>4. ~IsFunc(c2s[1]) /\ spc' = "exec" /\ sfunc' = sfunc
    BY <1>1, <1>2, <1>3, Tables DEF IsFunc, ReadArgs
  <1>5. \A i \in 1..Len(c2s) : i = 1 \/ (i - 1 \in 1..(Len(c2s) - 1) /\ c2s'[i - 1] = c2s[i])
    BY <1>2
  <1>6. ASSUME NEW g PROVE Pending(g)' = Pending(g)
    <2>1. (Busy' /\ sfunc' = g) = (Busy /\ sfunc = g)
      BY <1>1, <1>4 DEF Busy
    <2>2. ASSUME NEW i \in DOMAIN c2s', IsFunc(c2s'[i]), c2s'[i].func = g
          PROVE  \E j \in DOMAIN c2s : IsFunc(c2s[j]) /\ c2s[j].func = g
      <3>1. i + 1 \in DOMAIN c2s /\ c2s[i + 1] = c2s'[i]
        BY <1>2, <2>2
      <3>. QED
        BY <2>2, <3>1 DEF IsFunc
    <2>3. ASSUME NEW j \in DOMAIN c2s, IsFunc(c2s[j]), c2s[j].func = g
          PROVE  \E i \in DOMAIN c2s' : IsFunc(c2s'[i]) /\ c2s'[i].func = g
      <3>1. j - 1 \in DOMAIN c2s' /\ c2s'[j - 1] = c2s[j]
        BY <1>2, <1>4, <1>5, <2>3
      <3>. QED
        BY <2>3, <3>1 DEF IsFunc
    <2>. QED
      BY <2>1, <2>2, <2>3 DEF Pending, IsFunc
  <1>. QED
    BY <1>2, <1>4, <1>6

\* A call served is not pending any more, unless it is queued again.
LEMMA PendingAfterHandler ==
    ASSUME ProtocolInv, NEW f \in irpc_func, Ends(f)
    PROVE  /\ Pending(f) /\ ~Busy'
           /\ \A g : Pending(g)' => Pending(g)
           /\ \A g : Pending(g) => Pending(g)' \/ g = f
  BY DEF Ends, Serve, Pending, Busy, IsFunc

-----------------------------------------------------------------------------
(* The open device                                                         *)

\* A call of an answered function leaves nothing pending once its reply is there.
LEMMA NothingPending ==
    ASSUME ProtocolInv, ClientUp, s2c # <<>>
    PROVE  (\A g : ~Pending(g)) /\ cpc = "reply" /\ Tail(s2c) = <<>>
  <1>1. Len(s2c) = 1 /\ s2c \in Seq(Replies)
    BY DEF ProtocolInv, TypeOK, OneAnswer
  <1>2. Tail(s2c) = <<>>
    <2>1. Tail(s2c) \in Seq(Replies) /\ Len(Tail(s2c)) = 0
      BY <1>1, HeadTailProperties
    <2>. QED
      BY <2>1, EmptySeq
  <1>. QED
    BY <1>2 DEF ProtocolInv, OneAnswer, Pending, Busy

LEMMA CallKeepsHandle ==
    ASSUME InStep, HandleInv, NEW f \in irpc_func, ClientCall(f)
    PROVE  HandleInv'
  <1>1. ProtocolInv /\ TypeOK
    BY DEF InStep, ProtocolInv
  <1>2. /\ cpc = "idle" /\ (cpc' # "idle" => call' = f) /\ cdev' = cdev
        /\ UNCHANGED <<handle, spc, sfunc, sargs, irpc_handle, s2c, open, claimed>>
        /\ wanted' # None => wanted' = wanted /\ f \notin Changers
        /\ f \notin Changers \cup {"USB_EXIT"} => wanted' = wanted
    BY DEF ClientCall, server, libusb, Changers, Openers
  <1>3. s2c' = <<>>
    BY <1>1, <1>2, Quiet
  <1>4. Held'
    BY <1>1, <1>2, PendingAfterCall DEF Held, HandleInv, IrpcDevice, Changers
  <1>5. cpc' = "reply" => Stub[f].args # IRPC_DEV_FMT
    BY <1>2 DEF ClientCall, ClientWrite, NoImage, IRPC_DEV_FMT
  <1>. QED
    BY <1>2, <1>3, <1>4, <1>5 DEF HandleInv, OneHandle, Told, Asked

LEMMA ArgsKeepHandle ==
    ASSUME InStep, HandleInv, ClientArgs
    PROVE  HandleInv'
  <1>1. ProtocolInv /\ TypeOK /\ TypeInv /\ c2s \in Seq(Messages)
    BY DEF InStep, ProtocolInv, TypeOK
  <1>2. /\ cpc = "args" /\ ClientUp /\ call' = call
        /\ UNCHANGED <<handle, spc, sfunc, sargs, irpc_handle, s2c, open, claimed, wanted>>
    BY DEF ClientArgs, server, libusb, history, ClientUp
  <1>3. s2c' = <<>>
    BY <1>1, <1>2 DEF ProtocolInv, OneAnswer
  <1>4. Held'
    BY <1>1, <1>2, PendingAfterArgs DEF Held, HandleInv, IrpcDevice
  <1>5. ASSUME cpc' = "reply", Stub[call].args = IRPC_DEV_FMT
        PROVE  /\ \A i \in 1..Len(c2s') : ServerUp' /\ ~IsFunc(c2s'[i]) => c2s'[i].dev = cdev'
               /\ spc # "exec" \/ sfunc # call
    <2>1. call \in irpc_func /\ Stub[call].args # NoImage /\ Answered(call)
      BY <1>1, <1>2, Tables DEF ProtocolInv, Phase, Answered
    <2>2. spc # "exec" \/ sfunc # call
      BY <1>1, <1>2, <2>1 DEF ProtocolInv, OneAnswer, Busy
    <2>3. ASSUME ServerUp, NEW i \in 1..Len(c2s) PROVE IsFunc(c2s[i])
      <3>1. Follows(Len(c2s)) = Stub[call].args
        BY <1>1, <1>2, <2>3 DEF ProtocolInv, Wire
      <3>2. CASE i = Len(c2s)
        BY <2>1, <3>1, <3>2 DEF Follows, NoImage
      <3>3. CASE i # Len(c2s)
        <4>1. CASE i = 1
          <5>1. spc # "args" \/ ~Answered(sfunc)
            <6>0. Len(c2s) \in Nat
              BY <1>1
            <6>1. ~(Len(c2s) <= 1)
              BY <3>3, <4>1, <6>0
            <6>. QED
              BY <1>1, <1>2, <6>1 DEF ProtocolInv, OneAnswer, Busy
          <5>2. spc = "args" => sfunc \in irpc_func /\ Stub[sfunc].args # NoImage
            BY <1>1 DEF ProtocolInv, Phase, Busy
          <5>3. spc # "args"
            BY <5>1, <5>2, Tables DEF Answered
          <5>4. Follows(i - 1) = NoImage
            BY <4>1, <5>3 DEF Follows
          <5>. QED
            BY <1>1, <2>3, <5>4 DEF ProtocolInv, Wire
        <4>2. CASE i # 1
          <5>1. i - 1 \in 1..Len(c2s) /\ i - 1 # 0 /\ i - 1 # Len(c2s) /\ i - 1 # Len(c2s) - 1
            BY <1>1, <3>3, <4>2
          <5>2. ~(IsFunc(c2s[i - 1]) /\ Answered(c2s[i - 1].func))
            BY <1>1, <1>2, <2>3, <5>1 DEF ProtocolInv, OneAnswer
          <5>3. IsFunc(c2s[i - 1]) => c2s[i - 1].func \in irpc_func
            BY <1>1, <2>3, <5>1 DEF ProtocolInv, Wire
          <5>4. Follows(i - 1) = NoImage
            BY <5>1, <5>2, <5>3, Tables DEF Follows, Answered
          <5>. QED
            BY <1>1, <2>3, <5>4 DEF ProtocolInv, Wire
        <4>. QED
          BY <4>1, <4>2
      <3>. QED
        BY <3>2, <3>3
    <2>4. PICK d \in DeviceArgs(call, devlist, cdev), v \in NumberArgs(call) :
             ClientWrite(ArgsImage(call, d, v), AwaitReply(call)) /\ cdev' = d
      BY <1>5 DEF ClientArgs
    <2>5. ASSUME ServerUp' PROVE c2s' = Append(c2s, ArgsImage(call, d, v)) /\ ServerUp
      BY <1>2, <2>4, <2>5 DEF ClientWrite, ServerUp
    <2>6. ArgsImage(call, d, v).dev = cdev'
      BY <2>4 DEF ArgsImage
    <2>7. ASSUME ServerUp', NEW i \in 1..Len(c2s'), ~IsFunc(c2s'[i]) PROVE c2s'[i].dev = cdev'
      <3>1. c2s'[i] = ArgsImage(call, d, v) \/ (i \in 1..Len(c2s) /\ c2s'[i] = c2s[i])
        BY <1>1, <2>5, <2>7
      <3>. QED
        BY <2>3, <2>5, <2>6, <2>7, <3>1 DEF IsFunc
    <2>. QED
      BY <2>2, <2>7
  <1>. QED
    BY <1>2, <1>3, <1>4, <1>5 DEF HandleInv, OneHandle, Told, Asked, IsFunc

LEMMA ReplyKeepsHandle ==
    ASSUME InStep, HandleInv, ClientReply
    PROVE  HandleInv'
  <1>1. /\ ProtocolInv /\ TypeOK /\ ClientUp
        /\ cpc = "reply" /\ s2c # <<>> /\ s2c' = Tail(s2c) /\ cpc' \in {"idle", "desync"}
        /\ call' = None /\ UNCHANGED <<spc, sfunc, sargs, irpc_handle, c2s, open, claimed>>
    BY DEF InStep, ProtocolInv, ClientReply, server, libusb, ClientUp
  <1>2. (\A g : ~Pending(g)') /\ s2c' = <<>>
    BY <1>1, NothingPending DEF Pending, Busy, IsFunc
  <1>3. wanted' # None => irpc_handle # None /\ handle' = IrpcDevice(irpc_handle)
    <2>. DEFINE r == Head(s2c)
    <2>1. CASE \/ call = "USB_OPEN" /\ r.ret = "SUCCESS"
               \/ call = "USB_OPEN_DEVICE_WITH_VID_PID" /\ r.dev # Zeroed
      <3>1. irpc_handle # None /\ r.dev = IrpcDevice(irpc_handle)
        BY <1>1, <2>1 DEF HandleInv, Told
      <3>2. handle' = r.dev \/ wanted' = wanted
        BY <1>1, <2>1 DEF ClientReply
      <3>3. wanted = None
        BY <1>1, <2>1 DEF HandleInv, Held, Openers
      <3>. QED
        BY <3>1, <3>2, <3>3
    <2>2. CASE ~(\/ call = "USB_OPEN" /\ r.ret = "SUCCESS"
                 \/ call = "USB_OPEN_DEVICE_WITH_VID_PID" /\ r.dev # Zeroed)
      <3>1. wanted' = wanted
        BY <1>1, <2>2 DEF ClientReply
      <3>2. wanted # None => call \notin Openers /\ irpc_handle # None /\ handle = IrpcDevice(irpc_handle)
        BY <1>1 DEF HandleInv, Held
      <3>3. call \notin Openers => handle' = handle
        BY <1>1 DEF ClientReply, Openers
      <3>. QED
        BY <3>1, <3>2, <3>3
    <2>. QED
      BY <2>1, <2>2
  <1>. QED
    BY <1>1, <1>2, <1>3 DEF HandleInv, OneHandle, Held, Told, Asked, IrpcDevice

LEMMA EndKeepsHandle ==
    ASSUME InStep, HandleInv, ClientEof \/ ClientLeaves \/ ClientDies
    PROVE  HandleInv'
  <1>1. TypeOK
    BY DEF InStep, ProtocolInv
  <1>2. /\ ~ClientUp' /\ cpc' \in {"gone", "crashed"}
        /\ UNCHANGED <<handle, wanted, spc, sfunc, irpc_handle, open, claimed>>
    BY DEF ClientEof, ClientLeaves, ClientDies, server, libusb, history, ClientUp
  <1>3. \A g : Pending(g)' => Pending(g)
    BY <1>1, <1>2, PendingAfterDeath DEF ClientEof, ClientLeaves, Pending, Busy, IsFunc
  <1>. QED
    BY <1>2, <1>3 DEF HandleInv, OneHandle, Held, Told, Asked, IrpcDevice

LEMMA ReadKeepsHandle ==
    ASSUME InStep, HandleInv, ReadFunc \/ ReadArgs \/ ServerEnds
    PROVE  HandleInv'
  <1>1. ProtocolInv /\ TypeOK /\ c2s \in Seq(Messages)
    BY DEF InStep, ProtocolInv, TypeOK
  <1>2. /\ UNCHANGED <<cpc, call, cdev, handle, wanted, irpc_handle, open, claimed>>
        /\ s2c' \in {s2c, <<>>}
    BY EndsDo DEF ReadFunc, ReadArgs, client, libusb, history
  <1>3. \A g : Pending(g)' => Pending(g)
    BY <1>1, PendingAfterRead, PendingAfterReadArgs, PendingAfterEnd
  <1>4. ASSUME cpc = "reply", Stub[call].args = IRPC_DEV_FMT
        PROVE  /\ \A i \in 1..Len(c2s') : ServerUp' /\ ~IsFunc(c2s'[i]) => c2s'[i].dev = cdev
               /\ spc' = "exec" /\ sfunc' = call => sargs'.dev = cdev
    <2>1. \A i \in 1..Len(c2s) : ServerUp /\ ~IsFunc(c2s[i]) => c2s[i].dev = cdev
      BY <1>4 DEF HandleInv, Asked
    <2>2. CASE ReadFunc
      <3>1. /\ Len(c2s') = Len(c2s) - 1 /\ Len(c2s) \in Nat
            /\ \A i \in 1..(Len(c2s) - 1) : c2s'[i] = c2s[i + 1]
            /\ ServerUp
        BY <1>1, <2>2 DEF ReadFunc, ServerUp
      <3>2. call \in irpc_func /\ (spc' = "exec" => Handler[sfunc'].args = NoImage)
        BY <1>1, <1>4, <2>2 DEF ReadFunc, ProtocolInv, Phase
      <3>3. ~(spc' = "exec" /\ sfunc' = call)
        BY <1>4, <3>2, Tables DEF NoImage, IRPC_DEV_FMT
      <3>. QED
        BY <2>1, <3>1, <3>3 DEF IsFunc
    <2>3. CASE ReadArgs
      <3>1. /\ ~IsFunc(Head(c2s)) /\ Head(c2s) = c2s[1] /\ Len(c2s) \in Nat \ {0}
            /\ \A i \in 1..(Len(c2s) - 1) : c2s'[i] = c2s[i + 1]
            /\ Len(c2s') = Len(c2s) - 1
        BY <1>1, <2>3, PendingAfterReadArgs
      <3>2. ServerUp /\ (spc' = "exec" => sargs' = Head(c2s))
        BY <2>3 DEF ReadArgs, ServerUp
      <3>. QED
        BY <2>1, <3>1, <3>2 DEF IsFunc
    <2>4. CASE ServerEnds
      BY <2>4, EndsDo DEF ServerUp
    <2>. QED
      BY <2>2, <2>3, <2>4
  <1>. QED
    BY <1>2, <1>3, <1>4 DEF HandleInv, OneHandle, Held, Told, Asked, IrpcDevice, ClientUp

LEMMA HandlerKeepsHandle ==
    ASSUME InStep, HandleInv, UsbCall
    PROVE  HandleInv'
  <1>1. ProtocolInv /\ TypeOK
    BY DEF InStep, ProtocolInv
  <1>2. PICK f \in irpc_func : Does(f)
    BY <1>1, HandlerDoes
  <1>3. /\ Ends(f) /\ spc = "exec" /\ sfunc = f /\ Busy /\ ServerUp
        /\ UNCHANGED <<cpc, call, cdev, handle, wanted, csock, c2s>>
        /\ spc' \in {"func", "sigpipe", "done"} /\ sfunc' = None
    BY <1>2 DEF Does, Ends, Serve, client, history, Busy, ServerUp
  <1>4. Held'
    <2>1. wanted # None => irpc_handle' = irpc_handle
      BY <1>1, <1>2, <1>3, PendingAfterHandler DEF HandleInv, Held, Does
    <2>. QED
      BY <1>1, <1>3, <2>1, PendingAfterHandler DEF HandleInv, Held, IrpcDevice
  <1>5. OneHandle'
    BY <1>2 DEF Does, HandleInv
  <1>6. Told'
    <2>. SUFFICES ASSUME ClientUp, s2c' # <<>> PROVE Told'
      BY <1>3 DEF Told, ClientUp
    <2>1. s2c = <<>> /\ csock = "open"
      BY <1>1, <1>3 DEF ProtocolInv, OneAnswer
    <2>2. Answered(f) /\ f = call
      BY <1>1, <1>3, <2>1 DEF Ends, ProtocolInv, OneAnswer
    <2>3. PICK ret, d, list : s2c' = Append(s2c, ReplyImage(f, ret, d, list)) /\ Honest(f, ret, d)
      BY <1>2, <2>1, <2>2 DEF Does
    <2>4. Head(s2c') = ReplyImage(f, ret, d, list)
      BY <2>1, <2>3
    <2>5. Head(s2c').ret = ret /\ Head(s2c').dev = d
      BY <2>4 DEF ReplyImage
    <2>. QED
      BY <1>3, <2>2, <2>3, <2>5, ConstantsAssumption DEF Told, Honest, IrpcDevice
  <1>7. Asked'
    BY <1>3 DEF Asked, HandleInv, IsFunc
  <1>. QED
    BY <1>4, <1>5, <1>6, <1>7 DEF HandleInv

LEMMA HandleInit == Init => HandleInv
  <1>. SUFFICES ASSUME Init PROVE HandleInv
    OBVIOUS
  <1>1. /\ cpc = "idle" /\ wanted = None /\ s2c = <<>> /\ open = {} /\ claimed = {}
        /\ irpc_handle = None
    BY Zenon DEF Init
  <1>. QED
    BY <1>1 DEF HandleInv, OneHandle, Held, Told, Asked

LEMMA HandleStep == InStep /\ HandleInv /\ [Next]_vars => HandleInv'
  <1>. SUFFICES ASSUME InStep, HandleInv, [Next]_vars PROVE HandleInv'
    OBVIOUS
  <1>1. CASE ClientStep
    BY <1>1, CallKeepsHandle, ArgsKeepHandle, ReplyKeepsHandle, EndKeepsHandle DEF ClientStep, StubStep
  <1>2. CASE ServerStep \/ ServerDies
    BY <1>2, ReadKeepsHandle, HandlerKeepsHandle DEF ServerStep, ServerEnds
  <1>3. CASE Hotplug \/ UNCHANGED vars
    <2>1. /\ UNCHANGED <<cpc, call, cdev, handle, spc, sfunc, sargs, irpc_handle, c2s, s2c>>
          /\ UNCHANGED <<open, claimed, wanted>>
      BY <1>3 DEF Hotplug, Plug, Unplug, vars, client, server, libusb, history
    <2>2. \A g : Pending(g)' = Pending(g)
      BY <2>1 DEF Pending, Busy, IsFunc
    <2>. QED
      BY <2>1, <2>2 DEF HandleInv, OneHandle, Held, Told, Asked, IrpcDevice, IsFunc, ServerUp, ClientUp
  <1>. QED
    BY <1>1, <1>2, <1>3 DEF Next

LEMMA HandleInvariant == Spec => [](InStep /\ HandleInv)
  <1>1. Init => InStep /\ HandleInv
    BY InStepInit, HandleInit
  <1>2. InStep /\ HandleInv /\ [Next]_vars => (InStep /\ HandleInv)'
    BY InStepStep, HandleStep
  <1>. QED
    BY <1>1, <1>2, PTL DEF Spec

\* While a program believes a device open the server holds a handle on it and
\* the program's irpc_device_handle describes it, however many calls are queued.
THEOREM HandlesCohere == Spec => []HandleCoherent
  <1>1. HandleInv => HandleCoherent
    BY DEF HandleInv, Held, HandleCoherent
  <1>. QED
    BY <1>1, HandleInvariant, PTL

\* Replacing the static handle, whatever the open calls come to, loses no
\* handle and leaves no interface claimed behind.
THEOREM NoHandleLost == Spec => []OneHandle
  <1>1. HandleInv => OneHandle
    BY DEF HandleInv
  <1>. QED
    BY <1>1, HandleInvariant, PTL

\* What the program believes open is all that the server has open.
THEOREM HandlesAreOne == Spec => []HandlesAgree
  <1>1. HandleCoherent /\ OneHandle => HandlesAgree
    BY DEF HandlesAgree
  <1>. QED
    BY <1>1, HandlesCohere, NoHandleLost, PTL
-----------------------------------------------------------------------------
(* Causes and shutdown                                                     *)

\* What CauseInv rests on.
Agree == InStep /\ HandleInv

LEMMA AgreeInvariant == Spec => []Agree
  BY HandleInvariant, PTL DEF Agree

-----------------------------------------------------------------------------
(* Causes                                                                  *)

\* A waiting client's last call is not exit, and the server it waits for is up
\* or was killed or stopped by what the client did out of order.
LEMMA DownByMisuse ==
    ASSUME ProtocolInv, NoDesync, CauseInv, ClientUp, ~ServerUp, spc # "killed"
    PROVE  misuse \/ (exited /\ cpc = "idle")
  <1>1. csock = "open"
    BY DEF ProtocolInv, OneAnswer
  <1>2. spc \in {"done", "null"}
    BY <1>1 DEF ProtocolInv, TypeOK, NoDesync, CauseInv, ServerUp
  <1>. QED
    BY <1>2 DEF CauseInv, ServerStopsForCause, ClientUp

LEMMA CallKeepsCause ==
    ASSUME Agree, CauseInv, NEW f \in irpc_func, ClientCall(f)
    PROVE  CauseInv'
  <1>1. ProtocolInv /\ TypeOK /\ NoDesync
    BY DEF Agree, InStep, ProtocolInv
  <1>2. /\ cpc = "idle" /\ s2c' = s2c /\ ClientUp
        /\ UNCHANGED <<spc, sfunc, irpc_ctx, irpc_handle>>
        /\ inited' = (inited /\ f # "USB_EXIT")
        /\ exited' = (exited \/ f = "USB_EXIT")
        /\ misuse' = (misuse \/ Misuses(f))
        /\ f \in HandleFuncs => wanted' = wanted
        /\ csock' = "open" \/ csock' = "reset"
    BY <1>1 DEF ClientCall, ClientWrite, server, ClientUp, HandleFuncs, ContextFuncs,
                ProtocolInv, OneAnswer
  <1>3. s2c' = <<>> /\ (ServerUp => \A g : Pending(g) => ~Answered(g))
    BY <1>1, <1>2, Quiet DEF Pending
  <1>4. /\ \A g : Pending(g)' => Pending(g) \/ g = f
        /\ \A g : Pending(g) => Pending(g)'
        /\ ServerUp => Pending(f)'
    BY <1>1, PendingAfterCall
  <1>5. \A g \in HandleFuncs : g \in irpc_func /\ Answered(g)
    BY Tables DEF HandleFuncs, Answered
  <1>6. ASSUME ~misuse', ServerUp'
        PROVE  /\ \A g \in ContextFuncs : Pending(g)' => irpc_ctx'
               /\ \A g \in HandleFuncs : Pending(g)' => wanted' # None
    <2>1. ~misuse /\ ~Misuses(f) /\ ServerUp
      BY <1>2, <1>6 DEF ServerUp
    <2>2. ASSUME NEW g \in ContextFuncs, Pending(g)' PROVE irpc_ctx'
      BY <1>2, <1>4, <2>1, <2>2 DEF CauseInv, Misuses
    <2>3. ASSUME NEW g \in HandleFuncs, Pending(g)' PROVE wanted' # None
      BY <1>2, <1>3, <1>4, <1>5, <2>1, <2>3 DEF CauseInv, Misuses
    <2>. QED
      BY <2>2, <2>3
  <1>7. exited' /\ cpc' \in {"args", "reply"} => misuse'
    <2>1. ASSUME f = "USB_EXIT" PROVE cpc' \notin {"args", "reply"}
      BY <2>1, Tables DEF ClientCall, ClientWrite, AwaitReply
    <2>2. exited => Misuses(f)
      BY DEF Misuses
    <2>. QED
      BY <1>2, <2>1, <2>2
  <1>8. Pending("USB_EXIT")' => exited'
    BY <1>2, <1>4 DEF CauseInv
  <1>9. exited' /\ ServerUp' /\ csock' # "reset" => Pending("USB_EXIT")'
    BY <1>1, <1>2, <1>4 DEF CauseInv, ServerUp, ProtocolInv, OneAnswer
  <1>10. spc \in {"eof", "sigpipe"} => FALSE
    BY <1>1, <1>2 DEF CauseInv, ProtocolInv, OneAnswer
  <1>11. ServerStopsForCause'
    BY <1>2, <1>10 DEF CauseInv, ServerStopsForCause
  <1>. QED
    BY <1>2, <1>3, <1>6, <1>7, <1>8, <1>9, <1>10, <1>11 DEF CauseInv

LEMMA ArgsKeepCause ==
    ASSUME Agree, CauseInv, ClientArgs
    PROVE  CauseInv'
  <1>1. ProtocolInv /\ TypeInv
    BY DEF Agree, InStep
  <1>2. /\ cpc = "args" /\ cpc' \in {"reply", "idle", "crashed"} /\ ClientUp
        /\ UNCHANGED <<call, s2c, spc, sfunc, irpc_ctx, wanted, inited, exited, misuse>>
        /\ csock = "open" /\ csock' \in {"open", "reset"}
    BY <1>1 DEF ClientArgs, ClientWrite, AwaitReply, server, history, ClientUp, ProtocolInv, OneAnswer
  <1>3. \A g : Pending(g)' = Pending(g)
    BY <1>1, PendingAfterArgs
  <1>4. ~(ClientUp' /\ s2c' # <<>>)
    BY <1>1, <1>2 DEF ProtocolInv, OneAnswer
  <1>. QED
    BY <1>2, <1>3, <1>4 DEF CauseInv, ServerStopsForCause, ServerUp

LEMMA ReplyKeepsCause ==
    ASSUME Agree, CauseInv, ClientReply
    PROVE  CauseInv'
  <1>1. /\ ProtocolInv /\ ClientUp /\ s2c # <<>> /\ cpc' \in {"idle", "desync"}
        /\ s2c' = Tail(s2c)
        /\ call' = None /\ UNCHANGED <<csock, spc, sfunc, irpc_ctx, c2s, exited, misuse>>
    BY DEF Agree, InStep, ClientReply, server, ClientUp
  <1>2. (\A g : ~Pending(g) /\ ~Pending(g)') /\ s2c' = <<>>
    BY <1>1, NothingPending DEF Pending, Busy, IsFunc
  <1>3. inited' => irpc_ctx
    BY <1>1 DEF ClientReply, CauseInv
  <1>. QED
    BY <1>1, <1>2, <1>3 DEF CauseInv, ServerStopsForCause, ServerUp

LEMMA EndKeepsCause ==
    ASSUME Agree, CauseInv, ClientEof \/ ClientLeaves \/ ClientDies
    PROVE  CauseInv'
  <1>1. ProtocolInv /\ TypeOK
    BY DEF Agree, InStep, ProtocolInv
  <1>2. /\ ~ClientUp' /\ cpc' \in {"gone", "crashed"} /\ csock' \in {"closed", "reset"}
        /\ UNCHANGED <<spc, sfunc, irpc_ctx, wanted, inited, exited, misuse>>
        /\ csock' = "closed" => cpc = "idle" /\ c2s' = c2s
        /\ ClientUp /\ csock = "open"
    BY <1>1 DEF ClientEof, ClientLeaves, ClientDies, server, history, ClientUp, ProtocolInv, OneAnswer
  <1>3. \A g : Pending(g)' => Pending(g)
    BY <1>1, <1>2, PendingAfterDeath DEF ClientEof, ClientLeaves, Pending, Busy, IsFunc
  <1>4. csock' = "closed" => \A g : Pending(g)' = Pending(g)
    BY <1>2 DEF Pending, Busy, IsFunc
  <1>5. csock' = "closed" /\ ServerUp => \A g \in irpc_func : Pending(g) => ~Answered(g)
    BY <1>1, <1>2, Quiet DEF Pending
  <1>. QED
    BY <1>2, <1>3, <1>4, <1>5 DEF CauseInv, ServerStopsForCause, ServerUp

LEMMA ReadKeepsCause ==
    ASSUME Agree, CauseInv, ReadFunc \/ ReadArgs \/ ServerEnds
    PROVE  CauseInv'
  <1>1. ProtocolInv /\ TypeOK /\ HandleInv
    BY DEF Agree, InStep, ProtocolInv
  <1>2. /\ UNCHANGED <<cpc, call, csock, irpc_ctx, irpc_handle, wanted, inited, exited, misuse>>
        /\ s2c' \in {s2c, <<>>} /\ ServerUp
    BY EndsDo DEF ReadFunc, ReadArgs, client, history, ServerUp
  <1>3. \A g : Pending(g)' => Pending(g)
    BY <1>1, PendingAfterRead, PendingAfterReadArgs, PendingAfterEnd
  <1>4. ServerUp' => \A g : Pending(g) => Pending(g)'
    BY <1>1, PendingAfterRead, PendingAfterReadArgs, EndsDo DEF ServerUp
  <1>5. ServerStopsForCause' /\ (spc' \in {"eof", "sigpipe"} => csock # "open")
    <2>1. CASE ReadFunc \/ ReadArgs
      BY <1>2, <2>1 DEF ReadFunc, ReadArgs, ServerStopsForCause
    <2>2. CASE ServerEof
      <3>1. ~Pending("USB_EXIT")
        BY <1>1, <2>2, Tables DEF ServerEof, Pending, Busy, ProtocolInv, Phase
      <3>. QED
        BY <1>1, <1>2, <2>2, <3>1 DEF ServerEof, Stopped, ServerStopsForCause, CauseInv, TypeOK
    <2>3. CASE ServerNull
      <3>1. Pending(sfunc) /\ spc' = "null"
        BY <2>3 DEF ServerNull, Stopped, Pending, Busy
      <3>2. misuse
        BY <1>1, <1>2, <2>3, <3>1 DEF ServerNull, CauseInv, HandleInv, Held
      <3>. QED
        BY <1>2, <3>1, <3>2 DEF ServerStopsForCause
    <2>4. CASE ServerDies
      BY <2>4 DEF ServerDies, Stopped, ServerStopsForCause
    <2>. QED
      BY <2>1, <2>2, <2>3, <2>4 DEF ServerEnds
  <1>. QED
    BY <1>2, <1>3, <1>4, <1>5 DEF CauseInv, ClientUp

LEMMA HandlerKeepsCause ==
    ASSUME Agree, CauseInv, UsbCall
    PROVE  CauseInv'
  <1>1. ProtocolInv /\ TypeOK
    BY DEF Agree, InStep, ProtocolInv
  <1>2. PICK f \in irpc_func : Does(f)
    BY <1>1, HandlerDoes
  <1>3. /\ Ends(f) /\ spc = "exec" /\ sfunc = f /\ Busy /\ ServerUp
        /\ UNCHANGED <<cpc, call, csock, c2s, wanted, inited, exited, misuse>>
        /\ spc' \in {"func", "sigpipe", "done"}
    BY <1>2 DEF Does, Ends, Serve, client, history, Busy, ServerUp
  <1>4. /\ Pending(f)
        /\ \A g : Pending(g)' => Pending(g)
        /\ \A g : Pending(g) => Pending(g)' \/ g = f
    BY <1>1, <1>3, PendingAfterHandler
  <1>5. irpc_ctx = TRUE => irpc_ctx' = TRUE
    BY <1>2 DEF Does
  <1>6. irpc_ctx => irpc_ctx'
    <2>1. irpc_ctx \in BOOLEAN
      BY <1>1 DEF TypeOK
    <2>. QED
      BY Zenon, <1>5, <2>1
  <1>7. ASSUME ClientUp, s2c' # <<>>, call = "USB_INIT", Head(s2c').ret = "SUCCESS"
        PROVE  irpc_ctx'
    <2>1. s2c = <<>> /\ csock = "open"
      BY <1>1, <1>3, <1>7 DEF ProtocolInv, OneAnswer
    <2>2. Answered(f) /\ f = call
      BY <1>1, <1>3, <1>7, <2>1 DEF Ends, ProtocolInv, OneAnswer
    <2>3. PICK ret, d, list : s2c' = Append(s2c, ReplyImage(f, ret, d, list)) /\ Honest(f, ret, d)
      BY <1>2, <2>1, <2>2 DEF Does
    <2>4. Head(s2c') = ReplyImage(f, ret, d, list)
      BY <2>1, <2>3
    <2>5. Head(s2c').ret = ret
      BY <2>4 DEF ReplyImage
    <2>6. irpc_ctx' = TRUE
      BY <1>7, <2>2, <2>3, <2>5 DEF Honest
    <2>. QED
      BY Zenon, <2>6
  <1>8. spc' = "sigpipe" => csock = "reset"
    <2>1. ASSUME spc' = "sigpipe" PROVE Answered(f) /\ csock # "open"
      BY <1>2, <2>1 DEF Does, Ends
    <2>2. csock # "closed" \/ ~Answered(f)
      BY <1>3, <1>4 DEF CauseInv
    <2>. QED
      BY <1>1, <2>1, <2>2 DEF TypeOK
  <1>9. spc' = "done" <=> f = "USB_EXIT"
    BY <1>2 DEF Does
  <1>10. ServerStopsForCause'
    BY <1>3, <1>4, <1>8, <1>9 DEF ServerStopsForCause, CauseInv
  <1>11. exited' /\ ServerUp' /\ csock' # "reset" => Pending("USB_EXIT")'
    BY <1>3, <1>4, <1>9 DEF CauseInv, ServerUp
  <1>12. ServerUp' => ServerUp
    BY <1>3
  <1>. QED
    BY <1>3, <1>4, <1>6, <1>7, <1>8, <1>10, <1>11, <1>12 DEF CauseInv, ClientUp

LEMMA CauseInit == Init => CauseInv
  <1>. SUFFICES ASSUME Init PROVE CauseInv
    OBVIOUS
  <1>1. /\ cpc = "idle" /\ spc = "func" /\ c2s = <<>> /\ s2c = <<>> /\ csock = "open"
    BY Zenon DEF Init
  <1>2. ~inited /\ ~exited
    BY Zenon DEF Init
  <1>3. \A g : ~Pending(g)
    BY <1>1 DEF Pending, Busy
  <1>. QED
    BY <1>1, <1>2, <1>3 DEF CauseInv, ServerStopsForCause

LEMMA CauseStep == Agree /\ CauseInv /\ [Next]_vars => CauseInv'
  <1>. SUFFICES ASSUME Agree, CauseInv, [Next]_vars PROVE CauseInv'
    OBVIOUS
  <1>1. CASE ClientStep
    BY <1>1, CallKeepsCause, ArgsKeepCause, ReplyKeepsCause, EndKeepsCause DEF ClientStep, StubStep
  <1>2. CASE ServerStep \/ ServerDies
    BY <1>2, ReadKeepsCause, HandlerKeepsCause DEF ServerStep, ServerEnds
  <1>3. CASE Hotplug \/ UNCHANGED vars
    <2>1. /\ UNCHANGED <<cpc, call, csock, spc, sfunc, irpc_ctx, c2s, s2c>>
          /\ UNCHANGED <<wanted, inited, exited, misuse>>
      BY <1>3 DEF Hotplug, Plug, Unplug, vars, client, server, history
    <2>2. \A g : Pending(g)' = Pending(g)
      BY <2>1 DEF Pending, Busy, IsFunc
    <2>. QED
      BY <2>1, <2>2 DEF CauseInv, ServerStopsForCause, ServerUp, ClientUp
  <1>. QED
    BY <1>1, <1>2, <1>3 DEF Next

LEMMA CauseInvariant == Spec => [](Agree /\ CauseInv)
  BY AgreeInvariant, CauseInit, CauseStep, PTL DEF Spec

\* The server follows a NULL context or handle only for a program that called
\* libusb out of order; the NULL of a failed read and SIGPIPE end it only when
\* the client was killed or crashed, or left without libusb_exit.
THEOREM ServerStops == Spec => []ServerStopsForCause
  <1>1. CauseInv => ServerStopsForCause
    BY DEF CauseInv
  <1>. QED
    BY <1>1, CauseInvariant, PTL

\* The server's end crashes a program only if the server was killed, or ended by
\* what the program had called out of order.
THEOREM ClientCrashes == Spec => []ClientCrashesForCause
  <1>1. Init => ClientCrashesForCause
    BY DEF Init, ClientCrashesForCause
  <1>2. Agree /\ CauseInv /\ ClientCrashesForCause /\ [Next]_vars => ClientCrashesForCause'
    <2>. SUFFICES ASSUME Agree, CauseInv, ClientCrashesForCause, [Next]_vars, cpc' = "crashed",
                         spc' # "killed"
                  PROVE  misuse'
      BY DEF ClientCrashesForCause
    <2>0. ProtocolInv /\ NoDesync
      BY DEF Agree, InStep
    <2>1. ASSUME NEW f \in irpc_func, ClientCall(f) PROVE misuse'
      <3>1. ~ServerUp /\ ClientUp /\ spc' = spc
        BY <2>1 DEF ClientCall, ClientWrite, AwaitReply, ClientUp, server
      <3>2. misuse \/ exited
        BY <2>0, <3>1, DownByMisuse
      <3>. QED
        BY <2>1, <3>2 DEF ClientCall, Misuses
    <2>2. ASSUME ClientArgs \/ ClientEof PROVE misuse'
      <3>1. ~ServerUp /\ ClientUp /\ cpc # "idle" /\ misuse' = misuse /\ spc' = spc
        BY <2>2 DEF ClientArgs, ClientEof, ClientWrite, AwaitReply, ClientUp, history, server
      <3>. QED
        BY <2>0, <3>1, DownByMisuse
    <2>3. ASSUME cpc' = cpc, misuse' = misuse, spc # "killed" PROVE misuse'
      BY <2>3 DEF ClientCrashesForCause
    <2>4. UsbCall => cpc' = cpc /\ misuse' = misuse /\ spc # "killed"
      <3>1. \A f : Ends(f) => cpc' = cpc /\ misuse' = misuse /\ spc = "exec"
        BY DEF Ends, Serve, client, history
      <3>. QED
        BY <3>1, HandlerEnds
    <2>5. ServerEnds => cpc' = cpc /\ misuse' = misuse /\ spc # "killed"
      BY EndsDo DEF client, history, ServerUp
    <2>. QED
      BY <2>1, <2>2, <2>3, <2>4, <2>5
      DEF Next, ClientStep, StubStep, ClientReply, ClientLeaves, ClientDies, ServerStep,
          ReadFunc, ReadArgs, ServerEnds, Hotplug, Plug, Unplug,
          vars, client, server, history
  <1>. QED
    BY <1>1, <1>2, CauseInvariant, PTL DEF Spec

\* Either process ends the other in these ways only.
THEOREM EndsAreExplained == Spec => []EndsExplained
  <1>1. ServerStopsForCause /\ ClientCrashesForCause => EndsExplained
    BY DEF EndsExplained
  <1>. QED
    BY <1>1, ServerStops, ClientCrashes, PTL

-----------------------------------------------------------------------------
(* The device the program chose                                            *)

LEMMA SameReplied ==
    ASSUME Agree, Same, ClientReply
    PROVE  Same'
  <1>1. /\ ProtocolInv /\ HandleInv /\ ClientUp /\ cpc = "reply" /\ s2c # <<>>
        /\ s2c' = Tail(s2c) /\ UNCHANGED <<cdev, irpc_handle>>
    BY DEF Agree, InStep, ClientReply, server, ClientUp
  <1>2. s2c' = <<>>
    BY <1>1, NothingPending
  <1>3. CASE call = "USB_OPEN" /\ Head(s2c).ret = "SUCCESS"
    <2>1. Session[irpc_handle] = AsLong(cdev.session_data)
      BY <1>1, <1>3 DEF Same
    <2>2. wanted' = cdev \/ wanted' = wanted
      BY <1>3 DEF ClientReply
    <2>. QED
      BY <1>1, <1>2, <2>1, <2>2 DEF Same, IrpcDevice
  <1>4. CASE call = "USB_OPEN_DEVICE_WITH_VID_PID" /\ Head(s2c).dev # Zeroed
    <2>1. Head(s2c).dev = IrpcDevice(irpc_handle)
      BY <1>1, <1>4 DEF HandleInv, Told
    <2>2. wanted' = Head(s2c).dev \/ wanted' = wanted
      BY <1>4 DEF ClientReply
    <2>. QED
      BY <1>1, <1>2, <2>1, <2>2 DEF Same, IrpcDevice
  <1>5. CASE ~(call = "USB_OPEN" /\ Head(s2c).ret = "SUCCESS") /\
             ~(call = "USB_OPEN_DEVICE_WITH_VID_PID" /\ Head(s2c).dev # Zeroed)
    <2>1. wanted' = wanted
      BY <1>5 DEF ClientReply
    <2>. QED
      BY <1>1, <1>2, <2>1 DEF Same, IrpcDevice
  <1>. QED
    BY <1>3, <1>4, <1>5

LEMMA SameServed ==
    ASSUME Agree, Same, UsbCall
    PROVE  Same'
  <1>1. ProtocolInv /\ TypeOK /\ HandleInv
    BY DEF Agree, InStep, ProtocolInv
  <1>2. PICK f \in irpc_func : Does(f)
    BY <1>1, HandlerDoes
  <1>3. /\ Ends(f) /\ spc = "exec" /\ sfunc = f /\ Busy /\ ServerUp
        /\ UNCHANGED <<cpc, call, cdev, wanted>>
    BY <1>2 DEF Does, Ends, Serve, client, history, Busy, ServerUp
  <1>4. wanted # None => irpc_handle' = irpc_handle
    BY <1>1, <1>2, <1>3, PendingAfterHandler DEF HandleInv, Held, Does
  <1>5. ASSUME ClientUp, s2c' # <<>>, call = "USB_OPEN", Head(s2c').ret = "SUCCESS"
        PROVE  Session[irpc_handle'] = AsLong(cdev.session_data)
    <2>1. s2c = <<>> /\ csock = "open"
      BY <1>1, <1>3, <1>5 DEF ProtocolInv, OneAnswer
    <2>2. Answered(f) /\ f = call /\ cpc = "reply"
      BY <1>1, <1>3, <1>5, <2>1 DEF Ends, ProtocolInv, OneAnswer
    <2>3. PICK ret, d, list : s2c' = Append(s2c, ReplyImage(f, ret, d, list)) /\ Honest(f, ret, d)
      BY <1>2, <2>1, <2>2 DEF Does
    <2>4. Head(s2c') = ReplyImage(f, ret, d, list)
      BY <2>1, <2>3
    <2>5. ret = "SUCCESS"
      BY <1>5, <2>4 DEF ReplyImage
    <2>6. Session[irpc_handle'] = AsLong(sargs.dev.session_data)
      BY <1>5, <2>2, <2>3, <2>5 DEF Honest
    <2>7. Stub[call].args = IRPC_DEV_FMT
      BY <1>5 DEF Stub, recv_usb_open, Maps
    <2>8. sargs.dev = cdev
      BY <1>1, <1>3, <2>2, <2>7 DEF HandleInv, Asked
    <2>. QED
      BY <2>6, <2>8
  <1>. QED
    BY <1>3, <1>4, <1>5 DEF Same, IrpcDevice, ClientUp

LEMMA SameStep == Agree /\ Same /\ [Next]_vars => Same'
  <1>. SUFFICES ASSUME Agree, Same, [Next]_vars PROVE Same'
    OBVIOUS
  <1>0. ProtocolInv
    BY DEF Agree, InStep
  <1>1. ASSUME NEW f \in irpc_func, ClientCall(f) PROVE Same'
    <2>1. s2c' = <<>> /\ irpc_handle' = irpc_handle /\ (wanted' # None => wanted' = wanted)
      BY <1>0, <1>1, Quiet DEF ClientCall, server
    <2>. QED
      BY <2>1 DEF Same, IrpcDevice
  <1>2. CASE ClientArgs
    <2>1. s2c' = <<>> /\ irpc_handle' = irpc_handle /\ wanted' = wanted
      BY <1>0, <1>2 DEF ClientArgs, server, history, ProtocolInv, OneAnswer, ClientUp
    <2>. QED
      BY <2>1 DEF Same, IrpcDevice
  <1>3. CASE ClientReply
    BY <1>3, SameReplied
  <1>4. CASE ClientEof \/ ClientLeaves \/ ClientDies
    BY <1>4 DEF ClientEof, ClientLeaves, ClientDies, server, history, ClientUp, Same, IrpcDevice
  <1>5. CASE ReadFunc \/ ReadArgs \/ ServerEnds \/ Hotplug \/ UNCHANGED vars
    <2>1. UNCHANGED <<cpc, call, cdev, wanted, irpc_handle>> /\ s2c' \in {s2c, <<>>}
      BY <1>5, EndsDo DEF ReadFunc, ReadArgs, Hotplug, Plug, Unplug, vars, client, server, history
    <2>. QED
      BY <2>1 DEF Same, IrpcDevice, ClientUp
  <1>6. CASE UsbCall
    BY <1>6, SameServed
  <1>. QED
    BY <1>1, <1>2, <1>3, <1>4, <1>5, <1>6
    DEF Next, ClientStep, StubStep, ServerStep, ServerEnds

LEMMA DistinctStep == Agree /\ Distinct /\ [Next]_vars => Distinct'
  <1>. SUFFICES ASSUME Agree, Distinct, [Next]_vars PROVE Distinct'
    OBVIOUS
  <1>1. CASE Hotplug
    BY <1>1 DEF Hotplug, Plug, Unplug, Distinct
  <1>2. CASE ~Hotplug
    <2>1. UsbCall => attached' = attached
      <3>1. \A f : Ends(f) => attached' = attached
        BY DEF Ends, Serve
      <3>. QED
        BY <3>1, HandlerEnds
    <2>2. attached' = attached
      BY <1>2, <2>1, EndsDo
      DEF Next, ClientStep, StubStep, ClientCall, ClientArgs, ClientReply, ClientEof, ClientLeaves,
          ClientDies, ServerStep, ServerEnds, ReadFunc, ReadArgs, vars, libusb
    <2>. QED
      BY <2>2 DEF Distinct
  <1>. QED
    BY <1>1, <1>2

\* An int survives its way to an unsigned long and back.
LEMMA Widened ==
    ASSUME NEW n \in Nat
    PROVE  AsInt(AsLong(AsInt(n))) = AsInt(n)
  <1>. DEFINE h == IntMod \div 2
              x == AsInt(n)
              k == LongMod \div IntMod
  <1>1. /\ IntMod \in Nat \ {0} /\ LongMod \in Nat \ {0} /\ LongMod % IntMod = 0
        /\ h \in Nat /\ h < IntMod
    BY ConstantsAssumption
  <1>2. k \in Nat \ {0} /\ LongMod = IntMod * k
    BY <1>1
  <1>3. IntMod <= LongMod
    BY <1>1, <1>2
  <1>4. x \in Int /\ x + h \in 0..(IntMod - 1)
    BY <1>1 DEF AsInt
  <1>5. AsLong(x) = x \/ AsLong(x) = x + LongMod
    <2>. HIDE DEF x, h, k
    <2>1. CASE x >= 0
      BY <1>1, <1>3, <1>4, <2>1 DEF AsLong
    <2>2. CASE x < 0
      BY <1>1, <1>3, <1>4, <2>2 DEF AsLong
    <2>. QED
      BY <1>4, <2>1, <2>2
  <1>6. (x + h) % IntMod = x + h
    <2>. HIDE DEF x, h, k
    <2>. QED
      BY <1>1, <1>4
  <1>7. (x + LongMod + h) % IntMod = x + h
    <2>. HIDE DEF x, h, k
    <2>. QED
      BY <1>1, <1>2, <1>4
  <1>8. AsInt(x) = x /\ AsInt(x + LongMod) = x
    <2>. HIDE DEF x
    <2>1. AsInt(x) = ((x + h) % IntMod) - h /\ AsInt(x + LongMod) = ((x + LongMod + h) % IntMod) - h
      BY DEF AsInt
    <2>. HIDE DEF h, k
    <2>. QED
      BY <1>1, <1>4, <1>6, <1>7, <2>1
  <1>. QED
    BY <1>5, <1>8

\* For any devices and identifiers, and any widths of an int and a long, the
\* device a program holds open has the identifier of the entry it chose; and it
\* is the listed device itself while that is plugged and an int carries its
\* identifier, however many others were given it in between.
THEOREM OpensTheListed == Spec => []OpensTheListedDevice
  <1>1. Init => Same /\ Distinct
    <2>1. Init => wanted = None /\ s2c = <<>> /\ attached = {}
      BY Zenon DEF Init
    <2>. QED
      BY <2>1 DEF Same, Distinct
  <1>2. Agree /\ Same /\ Distinct /\ [Next]_vars => (Same /\ Distinct)'
    BY SameStep, DistinctStep
  <1>3. Agree /\ Same /\ Distinct => OpensTheListedDevice
    <2>. SUFFICES ASSUME Agree, Same, Distinct, wanted # None
                  PROVE  /\ AsInt(Session[irpc_handle]) = wanted.session_data
                         /\ /\ {irpc_handle, wanted.of} \subseteq attached
                            /\ AsLong(wanted.session_data) = Session[wanted.of]
                            => irpc_handle = wanted.of
      BY DEF OpensTheListedDevice
    <2>1. irpc_handle \in Devices /\ wanted \in Entries /\ Session[irpc_handle] \in Nat
      BY ConstantsAssumption DEF Agree, InStep, ProtocolInv, TypeOK, HandleInv, Held
    <2>2. CASE wanted = IrpcDevice(irpc_handle)
      BY <2>2 DEF IrpcDevice
    <2>3. CASE Session[irpc_handle] = AsLong(wanted.session_data)
      <3>1. AsInt(AsLong(wanted.session_data)) = wanted.session_data
        <4>1. ASSUME NEW d \in Devices, wanted = IrpcDevice(d)
              PROVE  AsInt(AsLong(wanted.session_data)) = wanted.session_data
          <5>1. wanted.session_data = AsInt(Session[d]) /\ Session[d] \in Nat
            BY <4>1, ConstantsAssumption DEF IrpcDevice
          <5>. QED
            BY <5>1, Widened
        <4>2. CASE wanted = Zeroed
          <5>1. wanted.session_data = AsInt(0)
            BY <4>2, ConstantsAssumption DEF Zeroed, AsInt
          <5>. QED
            BY <5>1, Widened
        <4>. QED
          BY <2>1, <4>1, <4>2 DEF Entries
      <3>2. {irpc_handle, wanted.of} \subseteq attached /\ AsLong(wanted.session_data) = Session[wanted.of]
            => irpc_handle = wanted.of
        BY <2>3 DEF Distinct
      <3>. QED
        BY <2>3, <3>1, <3>2
    <2>. QED
      BY <2>2, <2>3 DEF Same
  <1>. QED
    BY <1>1, <1>2, <1>3, AgreeInvariant, PTL DEF Spec

-----------------------------------------------------------------------------
(* What is left behind                                                     *)

Finders == {"USB_GET_DEVICE_DESCRIPTOR", "USB_OPEN"}

\* The effect of serving f on libusb, and what its reply tells of it.
Effects(f) ==
    /\ f \notin {"USB_INIT", "USB_EXIT"} => ctxs' = ctxs
    /\ f = "USB_EXIT" => ctxs' = ctxs - 1
    /\ f \notin Finders => leaked' = leaked
    /\ f = "USB_CLOSE" => irpc_handle' = None
AnswersTo(f) ==
    /\ f = "USB_INIT" => ctxs' = IF Head(s2c').ret = "SUCCESS" THEN ctxs + 1 ELSE ctxs
    /\ f \in Finders => leaked' = leaked \/ Head(s2c').ret = "FAILURE"
    /\ f = "USB_OPEN_DEVICE_WITH_VID_PID" /\ Head(s2c').dev = Zeroed => irpc_handle' = None

LEMMA ReplyHeads ==
    ASSUME csock = "open", s2c = <<>>, NEW f, NEW ret, NEW d, NEW list, Reply(f, ret, d, list)
    PROVE  Head(s2c').ret = ret /\ Head(s2c').dev = d
  <1>1. s2c' = Append(<<>>, ReplyImage(f, ret, d, list))
    BY DEF Reply
  <1>2. Head(s2c') = ReplyImage(f, ret, d, list)
    BY <1>1
  <1>. QED
    BY <1>2 DEF ReplyImage

LEMMA HandlerTidies ==
    ASSUME TypeOK, UsbCall, NEW f \in irpc_func, Does(f)
    PROVE  Effects(f) /\ (csock = "open" /\ s2c = <<>> => AnswersTo(f))
  <1>0. sfunc = f
    BY DEF Does, Ends, Serve
  <1>1. CASE UsbExit
    BY <1>0, <1>1 DEF UsbExit, Serve, Effects, AnswersTo, Finders
  <1>2. CASE UsbClose
    BY <1>0, <1>2 DEF UsbClose, Serve, Effects, AnswersTo, Finders
  <1>3. CASE UsbInit
    <2>1. f = "USB_INIT" /\ leaked' = leaked
      BY <1>0, <1>3 DEF UsbInit, Serve
    <2>2. ASSUME csock = "open", s2c = <<>>
          PROVE  ctxs' = IF Head(s2c').ret = "SUCCESS" THEN ctxs + 1 ELSE ctxs
      <3>1. CASE ctxs' = ctxs + 1 /\ SUCCESS("USB_INIT")
        <4>1. Head(s2c').ret = "SUCCESS"
          BY <2>2, <3>1, ReplyHeads DEF SUCCESS
        <4>. QED
          BY <3>1, <4>1
      <3>2. CASE ctxs' = ctxs /\ FAILURE("USB_INIT")
        <4>1. Head(s2c').ret = "FAILURE"
          BY <2>2, <3>2, ReplyHeads DEF FAILURE
        <4>. QED
          BY <3>2, <4>1
      <3>. QED
        BY <1>3, <3>1, <3>2 DEF UsbInit
    <2>. QED
      BY <2>1, <2>2 DEF Effects, AnswersTo, Finders
  <1>4. CASE UsbGetDeviceDescriptor
    <2>1. f = "USB_GET_DEVICE_DESCRIPTOR" /\ ctxs' = ctxs
      BY <1>0, <1>4 DEF UsbGetDeviceDescriptor, Serve
    <2>2. leaked' = leaked \/ FAILURE("USB_GET_DEVICE_DESCRIPTOR")
      BY <1>4 DEF UsbGetDeviceDescriptor
    <2>3. csock = "open" /\ s2c = <<>> => leaked' = leaked \/ Head(s2c').ret = "FAILURE"
      BY <2>2, ReplyHeads DEF FAILURE
    <2>. QED
      BY <2>1, <2>3 DEF Effects, AnswersTo, Finders
  <1>5. CASE UsbOpen
    <2>1. f = "USB_OPEN" /\ ctxs' = ctxs
      BY <1>0, <1>5 DEF UsbOpen, Serve
    <2>2. leaked' = leaked \/ \E junk \in Entries : Reply("USB_OPEN", "FAILURE", junk, <<>>)
      BY <1>5 DEF UsbOpen
    <2>3. csock = "open" /\ s2c = <<>> => leaked' = leaked \/ Head(s2c').ret = "FAILURE"
      BY <2>2, ReplyHeads
    <2>. QED
      BY <2>1, <2>3 DEF Effects, AnswersTo, Finders
  <1>6. CASE UsbOpenDeviceWithVidPid
    <2>1. f = "USB_OPEN_DEVICE_WITH_VID_PID" /\ UNCHANGED <<ctxs, leaked>>
      BY <1>0, <1>6 DEF UsbOpenDeviceWithVidPid, Serve
    <2>2. \/ irpc_handle' = None
          \/ \E d \in attached :
                Reply("USB_OPEN_DEVICE_WITH_VID_PID", "SUCCESS", IrpcDevice(d), <<>>)
      BY <1>6 DEF UsbOpenDeviceWithVidPid
    <2>3. ASSUME csock = "open", s2c = <<>>, NEW d \in attached,
                 Reply("USB_OPEN_DEVICE_WITH_VID_PID", "SUCCESS", IrpcDevice(d), <<>>)
          PROVE  Head(s2c').dev # Zeroed
      <3>1. Head(s2c').dev = IrpcDevice(d)
        BY <2>3, ReplyHeads
      <3>2. d # None
        BY ConstantsAssumption DEF TypeOK
      <3>. QED
        BY <3>1, <3>2 DEF IrpcDevice, Zeroed
    <2>. QED
      BY <2>1, <2>2, <2>3 DEF Effects, AnswersTo, Finders
  <1>7. CASE UsbGetDeviceList \/ UsbClaimInterface \/ UsbReleaseInterface
    BY <1>0, <1>7 DEF UsbGetDeviceList, UsbClaimInterface, UsbReleaseInterface, Serve,
                      Effects, AnswersTo, Finders
  <1>8. ASSUME NEW g \in irpc_func,
               g \notin Finders \cup Openers \cup {"USB_INIT", "USB_EXIT", "USB_CLOSE"},
               HandleCall(g)
        PROVE  Effects(f) /\ AnswersTo(f)
    BY <1>0, <1>8 DEF HandleCall, Serve, Effects, AnswersTo, Openers
  <1>. QED
    BY <1>1, <1>2, <1>3, <1>4, <1>5, <1>6, <1>7, <1>8
    DEF UsbCall, UsbGetConfiguration, UsbSetConfiguration, UsbSetInterfaceAltSetting,
        UsbResetDevice, UsbControlTransfer, UsbBulkTransfer, UsbClearHalt,
        UsbGetStringDescriptorAscii, Openers, Finders, irpc_func

LEMMA CallKeepsTidy ==
    ASSUME Agree, CauseInv, TidyInv, NEW f \in irpc_func, ClientCall(f)
    PROVE  TidyInv'
  <1>1. ProtocolInv /\ TypeOK
    BY DEF Agree, InStep, ProtocolInv
  <1>2. /\ cpc = "idle" /\ (cpc' # "idle" => call' = f) /\ ClientUp
        /\ UNCHANGED <<spc, sfunc, irpc_handle, leaked, ctxs, failed>>
        /\ inited' = (inited /\ f # "USB_EXIT")
        /\ exited' = (exited \/ f = "USB_EXIT")
        /\ misuse' = (misuse \/ Misuses(f))
        /\ wanted' = IF f \in {"USB_CLOSE", "USB_OPEN", "USB_OPEN_DEVICE_WITH_VID_PID", "USB_EXIT"}
                     THEN None ELSE wanted
    BY DEF ClientCall, server, libusb, ClientUp
  <1>3. s2c = <<>> /\ s2c' = <<>> /\ (ServerUp => \A g : Pending(g) => ~Answered(g))
    <2>1. s2c' = s2c
      BY DEF ClientCall
    <2>. QED
      BY <1>1, <1>2, <2>1, Quiet DEF Pending
  <1>4. /\ \A g : Pending(g)' => Pending(g) \/ g = f
        /\ \A g : Pending(g) => Pending(g)'
        /\ ServerUp => Pending(f)'
    BY <1>1, PendingAfterCall
  <1>. SUFFICES ASSUME ~misuse', ~failed' PROVE TidyInv'
    BY DEF TidyInv
  <1>5. ~misuse /\ ~failed /\ ~Misuses(f) /\ ~exited
    BY <1>2 DEF Misuses
  <1>6. ServerUp => TidySoFar
    BY <1>2, <1>5 DEF TidyInv
  <1>7. ASSUME ServerUp, ~exited' PROVE TidySoFar'
    <2>1. f # "USB_EXIT" /\ inited' = inited /\ (f = "USB_INIT" => ~inited)
      <3>1. f # "USB_EXIT" /\ (f = "USB_INIT" => ~inited)
        BY <1>2, <1>5, <1>7 DEF Misuses
      <3>2. inited \in BOOLEAN
        BY <1>1 DEF TypeOK
      <3>. QED
        BY <1>2, <3>1, <3>2, Zenon
    <2>2. ~Replying("USB_INIT", "SUCCESS") /\ ~Replying("USB_INIT", "SUCCESS")'
      BY <1>3 DEF Replying
    <2>3. ~leaked
      BY <1>3, <1>6, <1>7 DEF TidySoFar, Replying
    <2>4. irpc_handle = None \/ wanted # None \/ Pending("USB_CLOSE")
      BY <1>2, <1>6, <1>7 DEF TidySoFar, Inside
    <2>5. f \in Openers => cpc' \in {"args", "reply"}
      BY Tables, <1>7 DEF ClientCall, ClientWrite, AwaitReply, Openers, irpc_func
    <2>6. irpc_handle' = None \/ wanted' # None \/ Pending("USB_CLOSE")' \/ \E g \in Openers : Inside(g)'
      BY <1>2, <1>4, <1>7, <2>1, <2>4, <2>5 DEF Openers, Inside
    <2>7. ctxs' = IF inited' \/ Replying("USB_INIT", "SUCCESS")' THEN 1 ELSE 0
      BY <1>2, <1>6, <1>7, <2>1, <2>2 DEF TidySoFar
    <2>8. Inside("USB_INIT")' => ~inited'
      BY <1>2, <2>1 DEF Inside
    <2>. QED
      BY <1>2, <1>3, <2>3, <2>6, <2>7, <2>8 DEF TidySoFar
  <1>8. ASSUME ServerUp, Pending("USB_EXIT")' PROVE TidyBeforeExit'
    <2>1. ~Pending("USB_EXIT") /\ f = "USB_EXIT"
      BY <1>4, <1>5, <1>8 DEF CauseInv
    <2>2. inited /\ wanted = None
      BY <1>5, <2>1 DEF Misuses, ContextFuncs
    <2>3. \A g \in irpc_func : Pending(g) => g = "USB_CLOSE"
      BY <1>3, <1>8, <2>1, Tables DEF Answered
    <2>4. ctxs = 1 /\ ~leaked /\ (irpc_handle = None \/ Pending("USB_CLOSE"))
      BY <1>2, <1>3, <1>6, <1>8, <2>2 DEF TidySoFar, Replying, Inside
    <2>5. c2s' = Append(c2s, FuncImage(f)) /\ c2s \in Seq(Messages)
      BY <1>1, <1>8 DEF ClientCall, ClientWrite, TypeOK
    <2>6. \A i \in 1..Len(c2s) : ~(IsFunc(c2s[i]) /\ c2s[i].func = "USB_EXIT")
      BY <2>1, <2>5 DEF Pending
    <2>7. \A i \in 1..Len(c2s') : IsFunc(c2s'[i]) /\ c2s'[i].func = "USB_EXIT" => i = Len(c2s')
      <3>1. /\ Len(c2s') = Len(c2s) + 1 /\ Len(c2s) \in Nat
            /\ \A i \in 1..Len(c2s) : c2s'[i] = c2s[i]
        BY <2>5, FuncImageType
      <3>. QED
        BY <2>6, <3>1 DEF IsFunc
    <2>8. ~(Busy' /\ sfunc' = "USB_EXIT")
      BY <1>2, <2>1 DEF Pending, Busy
    <2>9. \A g \in irpc_func : Pending(g)' => g \in {"USB_CLOSE", "USB_EXIT"}
      BY <1>4, <2>1, <2>3
    <2>. QED
      BY <1>2, <1>4, <2>4, <2>7, <2>8, <2>9 DEF TidyBeforeExit, IsFunc
  <1>9. spc' = "done" => ctxs' = 0 /\ ~leaked' /\ irpc_handle' = None
    BY <1>2, <1>5 DEF TidyInv
  <1>10. ServerUp' = ServerUp
    BY <1>2 DEF ServerUp
  <1>. QED
    BY <1>7, <1>8, <1>9, <1>10 DEF TidyInv

LEMMA ArgsKeepTidy ==
    ASSUME Agree, CauseInv, TidyInv, ClientArgs
    PROVE  TidyInv'
  <1>1. ProtocolInv /\ TypeInv
    BY DEF Agree, InStep
  <1>2. /\ cpc = "args" /\ ClientUp /\ call' = call
        /\ UNCHANGED <<s2c, spc, sfunc, irpc_handle, leaked, ctxs, wanted, inited, exited, failed, misuse>>
    BY DEF ClientArgs, server, libusb, history, ClientUp
  <1>3. s2c' = <<>> /\ s2c = <<>>
    BY <1>1, <1>2 DEF ProtocolInv, OneAnswer
  <1>4. \A g : Pending(g)' = Pending(g)
    BY <1>1, PendingAfterArgs
  <1>. SUFFICES ASSUME ~misuse, ~failed PROVE TidyInv'
    BY <1>2 DEF TidyInv
  <1>5. ~exited /\ ~Pending("USB_EXIT")
    BY <1>2 DEF CauseInv
  <1>6. ASSUME ClientUp', ServerUp PROVE TidySoFar'
    <2>1. TidySoFar
      BY <1>2, <1>5, <1>6 DEF TidyInv
    <2>2. cpc' = AwaitReply(call)
      BY <1>6 DEF ClientArgs, ClientWrite, ClientUp
    <2>3. \A f \in Openers : Inside(f) => Inside(f)'
      BY <1>2, <2>2, Tables DEF Inside, Openers, AwaitReply, irpc_func
    <2>4. Inside("USB_INIT")' => Inside("USB_INIT")
      BY <1>2 DEF Inside
    <2>5. \A f, ret : ~Replying(f, ret) /\ ~Replying(f, ret)'
      BY <1>3 DEF Replying
    <2>. QED
      BY <1>2, <1>3, <1>4, <2>1, <2>3, <2>4, <2>5 DEF TidySoFar
  <1>7. ServerUp' = ServerUp
    BY <1>2 DEF ServerUp
  <1>. QED
    BY <1>2, <1>4, <1>5, <1>6, <1>7 DEF TidyInv

LEMMA ReplyKeepsTidy ==
    ASSUME Agree, CauseInv, TidyInv, ClientReply
    PROVE  TidyInv'
  <1>1. /\ ProtocolInv /\ HandleInv /\ ClientUp /\ cpc = "reply" /\ s2c # <<>> /\ s2c' = Tail(s2c)
        /\ call' = None /\ UNCHANGED <<cdev, spc, sfunc, c2s, irpc_handle, leaked, ctxs, exited, misuse>>
        /\ cpc' \in {"idle", "desync"}
    BY DEF Agree, InStep, ClientReply, server, libusb, ClientUp
  <1>2. (\A g : ~Pending(g) /\ ~Pending(g)') /\ s2c' = <<>>
    BY <1>1, NothingPending DEF Pending, Busy, IsFunc
  <1>. SUFFICES ASSUME ~misuse, ~failed' PROVE TidyInv'
    BY <1>1 DEF TidyInv
  <1>3. ~failed /\ ~exited
    BY <1>1 DEF ClientReply, CauseInv
  <1>4. ASSUME ClientUp', ServerUp PROVE TidySoFar'
    <2>1. TidySoFar
      BY <1>1, <1>3, <1>4 DEF TidyInv
    <2>2. Head(s2c).fmt = Stub[call].reply
      BY <1>4 DEF ClientReply, ClientUp
    <2>3. inited' = (inited \/ Replying("USB_INIT", "SUCCESS"))
      BY <1>1, <2>2 DEF ClientReply, Replying
    <2>4. \A f \in Finders : ~Replying(f, "FAILURE")
      BY <1>1, <2>2 DEF ClientReply, Replying, Finders
    <2>5. ~leaked
      BY <2>1, <2>4 DEF TidySoFar, Finders
    <2>6. irpc_handle = None \/ wanted' # None
      <3>1. CASE call = "USB_OPEN"
        <4>1. Head(s2c).ret = "SUCCESS"
          <5>1. ~Replying("USB_OPEN", "FAILURE")
            BY <2>4 DEF Finders
          <5>2. Head(s2c) \in Replies
            BY <1>1 DEF ProtocolInv, TypeOK
          <5>. QED
            BY <1>1, <3>1, <5>1, <5>2 DEF Replying, Replies
        <4>2. wanted' = cdev /\ cdev \in Entries
          BY <1>1, <2>2, <3>1, <4>1 DEF ClientReply, ProtocolInv, TypeOK
        <4>. QED
          BY <4>2, NoneAssumption
      <3>2. CASE call = "USB_OPEN_DEVICE_WITH_VID_PID"
        <4>1. CASE Head(s2c).dev = Zeroed
          BY <1>1, <2>1, <3>2, <4>1 DEF TidySoFar
        <4>2. CASE Head(s2c).dev # Zeroed
          <5>1. wanted' = Head(s2c).dev
            BY <2>2, <3>2, <4>2 DEF ClientReply
          <5>2. Head(s2c) \in Replies
            BY <1>1 DEF ProtocolInv, TypeOK
          <5>. QED
            BY <5>1, <5>2, NoneAssumption DEF Replies
        <4>. QED
          BY <4>1, <4>2
      <3>3. CASE call \notin Openers
        <4>1. wanted' = wanted
          BY <2>2, <3>3 DEF ClientReply, Openers
        <4>. QED
          BY <1>2, <2>1, <3>3, <4>1 DEF TidySoFar, Inside
      <3>. QED
        BY <3>1, <3>2, <3>3 DEF Openers
    <2>7. \A f, ret : ~Replying(f, ret)'
      BY <1>2 DEF Replying
    <2>8. ~Inside("USB_INIT")'
      BY <1>1 DEF Inside
    <2>. QED
      BY <1>1, <1>2, <2>1, <2>3, <2>5, <2>6, <2>7, <2>8 DEF TidySoFar
  <1>5. ServerUp' = ServerUp /\ (spc = "done" => ctxs = 0 /\ ~leaked /\ irpc_handle = None)
    BY <1>1, <1>3 DEF ServerUp, TidyInv
  <1>. QED
    BY <1>1, <1>2, <1>4, <1>5 DEF TidyInv

LEMMA EndKeepsTidy ==
    ASSUME Agree, CauseInv, TidyInv, ClientEof \/ ClientLeaves \/ ClientDies
    PROVE  TidyInv'
  <1>1. ProtocolInv /\ TypeOK /\ c2s \in Seq(Messages)
    BY DEF Agree, InStep, ProtocolInv, TypeOK
  <1>2. /\ ~ClientUp'
        /\ UNCHANGED <<spc, sfunc, irpc_handle, leaked, ctxs, failed, misuse>>
    BY DEF ClientEof, ClientLeaves, ClientDies, server, libusb, history, ClientUp
  <1>. SUFFICES ASSUME ~misuse, ~failed PROVE TidyInv'
    BY <1>2 DEF TidyInv
  <1>3. ASSUME ServerUp, Pending("USB_EXIT")' PROVE TidyBeforeExit'
    <2>1. Pending("USB_EXIT")
      BY <1>1, <1>2, <1>3, PendingAfterDeath DEF ClientEof, ClientLeaves, Pending, Busy, IsFunc
    <2>2. TidyBeforeExit
      BY <1>3, <2>1 DEF TidyInv
    <2>3. c2s' = c2s
      <3>1. CASE ClientEof \/ ClientLeaves
        BY <3>1 DEF ClientEof, ClientLeaves
      <3>2. CASE ClientDies
        <4>1. PICK n \in 0..Len(c2s) : c2s' = SubSeq(c2s, 1, n)
          BY <3>2 DEF ClientDies
        <4>2. /\ DOMAIN c2s' = 1..n /\ DOMAIN c2s = 1..Len(c2s) /\ Len(c2s) \in Nat
              /\ \A i \in 1..n : c2s'[i] = c2s[i] /\ i \in 1..Len(c2s)
          BY <1>1, <4>1
        <4>3. CASE Busy /\ sfunc = "USB_EXIT"
          BY <2>2, <4>1, <4>2, <4>3 DEF TidyBeforeExit
        <4>4. CASE \E i \in 1..n : IsFunc(c2s'[i]) /\ c2s'[i].func = "USB_EXIT"
          <5>1. n = Len(c2s)
            <6>1. PICK i \in 1..n : IsFunc(c2s[i]) /\ c2s[i].func = "USB_EXIT"
              BY <4>2, <4>4 DEF IsFunc
            <6>2. i = Len(c2s)
              BY <2>2, <4>2, <6>1 DEF TidyBeforeExit
            <6>3. n \in Nat /\ n <= Len(c2s) /\ i <= n /\ Len(c2s) \in Nat
              BY <4>2, <6>1
            <6>. QED
              BY <6>2, <6>3
          <5>. QED
            BY <1>1, <4>1, <5>1
        <4>. QED
          BY <1>2, <1>3, <4>2, <4>3, <4>4 DEF Pending, Busy, IsFunc
      <3>. QED
        BY <3>1, <3>2
    <2>4. \A g : Pending(g)' = Pending(g)
      BY <1>2, <2>3 DEF Pending, Busy, IsFunc
    <2>. QED
      BY <1>2, <2>2, <2>3, <2>4 DEF TidyBeforeExit, Busy, IsFunc
  <1>. QED
    BY <1>2, <1>3 DEF TidyInv, ServerUp

LEMMA ReadKeepsTidy ==
    ASSUME Agree, CauseInv, TidyInv, ReadFunc \/ ReadArgs \/ ServerEnds
    PROVE  TidyInv'
  <1>1. ProtocolInv /\ TypeOK /\ c2s \in Seq(Messages)
    BY DEF Agree, InStep, ProtocolInv, TypeOK
  <1>2. /\ UNCHANGED <<cpc, call, irpc_handle, leaked, ctxs>>
        /\ UNCHANGED <<wanted, inited, exited, failed, misuse>>
        /\ ServerUp /\ spc' # "done" /\ (ServerUp' => s2c' = s2c)
    BY EndsDo DEF ReadFunc, ReadArgs, client, libusb, history, ServerUp
  <1>. SUFFICES ASSUME ~misuse, ~failed, ServerUp' PROVE TidyInv'
    BY <1>2 DEF TidyInv
  <1>3. ReadFunc \/ ReadArgs
    BY EndsDo DEF ServerUp
  <1>4. \A g : Pending(g)' = Pending(g)
    <2>1. CASE ReadFunc
      <3>1. \A g : Pending(g)' <=> Pending(g)
        BY <1>1, <2>1, PendingAfterRead
      <3>. QED
        BY <3>1 DEF Pending
    <2>. QED
      BY <1>1, <1>3, <2>1, PendingAfterReadArgs
  <1>5. TidySoFar => TidySoFar'
    BY <1>2, <1>4 DEF TidySoFar, Replying, Inside, ClientUp
  <1>6. ASSUME Pending("USB_EXIT") PROVE TidyBeforeExit'
    <2>1. TidyBeforeExit
      BY <1>2, <1>6 DEF TidyInv
    <2>2. ReadFunc
      <3>1. ASSUME spc = "args" PROVE FALSE
        <4>1. sfunc \in irpc_func /\ Stub[sfunc].args # NoImage /\ Pending(sfunc)
          BY <1>1, <3>1 DEF ProtocolInv, Phase, Busy, Pending
        <4>2. sfunc \in {"USB_CLOSE", "USB_EXIT"}
          BY <2>1, <4>1 DEF TidyBeforeExit
        <4>. QED
          BY <4>1, <4>2, Tables
      <3>. QED
        BY <1>3, <3>1 DEF ReadArgs
    <2>3. /\ Len(c2s') = Len(c2s) - 1 /\ Len(c2s) \in Nat \ {0}
          /\ \A i \in 1..(Len(c2s) - 1) : c2s'[i] = c2s[i + 1]
          /\ Head(c2s) = c2s[1] /\ c2s' = Tail(c2s) /\ spc = "func"
      BY <1>1, <2>2 DEF ReadFunc
    <2>4. \A i \in 1..Len(c2s') : IsFunc(c2s'[i]) /\ c2s'[i].func = "USB_EXIT" => i = Len(c2s')
      <3>1. ASSUME NEW i \in 1..Len(c2s'), IsFunc(c2s'[i]), c2s'[i].func = "USB_EXIT"
            PROVE  i = Len(c2s')
        <4>1. c2s'[i] = c2s[i + 1] /\ i + 1 \in 1..Len(c2s)
          BY <2>3
        <4>2. i + 1 = Len(c2s)
          BY <2>1, <3>1, <4>1 DEF TidyBeforeExit
        <4>3. i \in Int /\ Len(c2s') = Len(c2s) - 1 /\ Len(c2s) \in Int
          BY <2>3
        <4>. QED
          BY <4>2, <4>3
      <3>. QED
        BY <3>1 DEF IsFunc
    <2>5. ASSUME Busy', sfunc' = "USB_EXIT" PROVE c2s' = <<>>
      <3>1. IsFunc(c2s[1]) /\ c2s[1].func = "USB_EXIT" /\ 1 \in 1..Len(c2s)
        BY <2>2, <2>3, <2>5 DEF ReadFunc, IsFunc, Busy
      <3>2. Len(c2s) = 1
        BY <2>1, <3>1 DEF TidyBeforeExit
      <3>. QED
        BY <1>1, <2>3, <3>2
    <2>. QED
      BY <1>2, <1>4, <2>1, <2>4, <2>5 DEF TidyBeforeExit, IsFunc
  <1>. QED
    BY <1>2, <1>4, <1>5, <1>6 DEF TidyInv, ClientUp

LEMMA HandlerKeepsTidy ==
    ASSUME Agree, CauseInv, TidyInv, UsbCall
    PROVE  TidyInv'
  <1>1. ProtocolInv /\ TypeOK
    BY DEF Agree, InStep, ProtocolInv
  <1>2. PICK f \in irpc_func : Does(f)
    BY <1>1, HandlerDoes
  <1>3. /\ Ends(f) /\ spc = "exec" /\ sfunc = f /\ Busy /\ ServerUp
        /\ UNCHANGED <<cpc, call, csock, c2s, wanted, inited, exited, failed, misuse>>
        /\ spc' \in {"func", "sigpipe", "done"} /\ ~Busy'
    BY <1>2 DEF Does, Ends, Serve, client, history, Busy, ServerUp
  <1>4. /\ Pending(f)
        /\ \A g : Pending(g)' => Pending(g)
        /\ \A g : Pending(g) => Pending(g)' \/ g = f
    BY <1>1, <1>3, PendingAfterHandler
  <1>5. Effects(f) /\ (csock = "open" /\ s2c = <<>> => AnswersTo(f))
    BY <1>1, <1>2, HandlerTidies
  <1>6. f \notin Changers => irpc_handle' = irpc_handle
    BY <1>2 DEF Does
  <1>. SUFFICES ASSUME ~misuse, ~failed PROVE TidyInv'
    BY <1>3 DEF TidyInv
  <1>7. ASSUME ClientUp, ~exited PROVE TidySoFar'
    <2>1. TidySoFar
      BY <1>3, <1>7 DEF TidyInv
    <2>2. s2c = <<>> /\ csock = "open" /\ (Answered(f) => f = call /\ cpc = "reply")
      BY <1>1, <1>3, <1>7 DEF ProtocolInv, OneAnswer
    <2>3. f # "USB_EXIT"
      BY <1>4, <1>7 DEF CauseInv
    <2>4. f # "USB_CLOSE" => Answered(f) /\ f = call /\ cpc = "reply"
      BY <2>2, <2>3, Tables DEF Answered
    <2>5. f = "USB_CLOSE" => s2c' = <<>>
      BY <1>3, <2>2, Tables DEF Ends, Answered
    <2>6. f # "USB_CLOSE" => s2c' # <<>>
      BY <1>3, <2>2, <2>4 DEF Ends
    <2>7. ctxs' = IF inited' \/ Replying("USB_INIT", "SUCCESS")' THEN 1 ELSE 0
      <3>1. ctxs = IF inited THEN 1 ELSE 0
        BY <2>1, <2>2 DEF TidySoFar, Replying
      <3>2. CASE f = "USB_INIT"
        <4>1. call = "USB_INIT" /\ ~inited /\ ctxs = 0
          BY <2>1, <2>4, <3>1, <3>2 DEF TidySoFar, Inside
        <4>2. Replying("USB_INIT", "SUCCESS")' <=> Head(s2c').ret = "SUCCESS"
          BY <1>3, <1>7, <2>6, <3>2, <4>1 DEF Replying, ClientUp
        <4>3. ctxs' = IF Head(s2c').ret = "SUCCESS" THEN ctxs + 1 ELSE ctxs
          BY <1>5, <2>2, <3>2 DEF AnswersTo
        <4>. QED
          BY <1>3, <4>1, <4>2, <4>3
      <3>3. CASE f # "USB_INIT"
        <4>1. ~Replying("USB_INIT", "SUCCESS")'
          BY <1>3, <2>4, <2>5, <3>3 DEF Replying
        <4>2. ctxs' = ctxs
          BY <1>5, <2>3, <3>3 DEF Effects
        <4>. QED
          BY <1>3, <3>1, <4>1, <4>2
      <3>. QED
        BY <3>2, <3>3
    <2>8. ~leaked' \/ \E g \in Finders : Replying(g, "FAILURE")'
      <3>1. ~leaked
        BY <2>1, <2>2 DEF TidySoFar, Replying
      <3>2. CASE f \in Finders
        <4>1. leaked' = leaked \/ Head(s2c').ret = "FAILURE"
          BY <1>5, <2>2, <3>2 DEF AnswersTo
        <4>2. f = call /\ s2c' # <<>>
          BY <2>4, <2>6, <3>2 DEF Finders
        <4>3. Head(s2c').ret = "FAILURE" => Replying(f, "FAILURE")'
          BY <1>3, <1>7, <4>2 DEF Replying, ClientUp
        <4>. QED
          BY <3>1, <3>2, <4>1, <4>3
      <3>3. CASE f \notin Finders
        BY <1>5, <3>1, <3>3 DEF Effects
      <3>. QED
        BY <3>2, <3>3
    <2>9. \/ irpc_handle' = None \/ wanted' # None \/ Pending("USB_CLOSE")'
          \/ \E g \in Openers : Inside(g)'
      <3>1. CASE f = "USB_CLOSE"
        BY <1>5, <3>1 DEF Effects
      <3>2. CASE f \in Openers
        <4>1. Inside(f)'
          BY <1>3, <2>4, <3>2 DEF Inside, Openers
        <4>. QED
          BY <3>2, <4>1
      <3>3. CASE f \notin Changers
        BY <1>3, <1>4, <1>6, <2>1, <3>3 DEF TidySoFar, Inside, Changers
      <3>. QED
        BY <3>1, <3>2, <3>3 DEF Changers
    <2>10. s2c' # <<>> /\ call = "USB_OPEN_DEVICE_WITH_VID_PID" /\ Head(s2c').dev = Zeroed =>
              irpc_handle' = None
      BY <1>5, <2>2, <2>4, <2>5 DEF AnswersTo
    <2>11. Inside("USB_INIT")' => ~inited'
      BY <1>3, <2>1 DEF TidySoFar, Inside
    <2>. QED
      BY <1>3, <2>7, <2>8, <2>9, <2>10, <2>11 DEF TidySoFar, Finders
  <1>8. ASSUME Pending("USB_EXIT")
        PROVE  /\ spc' # "done" => TidyBeforeExit'
               /\ spc' = "done" => ctxs' = 0 /\ ~leaked' /\ irpc_handle' = None
    <2>1. TidyBeforeExit /\ f \in {"USB_CLOSE", "USB_EXIT"}
      BY <1>3, <1>4, <1>8 DEF TidyInv, TidyBeforeExit
    <2>2. spc' = "done" <=> f = "USB_EXIT"
      BY <1>2 DEF Does
    <2>3. ~leaked'
      BY <1>5, <2>1 DEF Effects, Finders, TidyBeforeExit
    <2>4. CASE f = "USB_EXIT"
      <3>1. c2s = <<>> /\ ~Pending("USB_CLOSE")
        BY <1>3, <2>1, <2>4 DEF TidyBeforeExit, Pending
      <3>2. irpc_handle' = None
        BY <1>6, <2>1, <2>4, <3>1 DEF TidyBeforeExit, Changers, Openers
      <3>3. ctxs' = 0
        BY <1>5, <2>1, <2>4 DEF Effects, TidyBeforeExit
      <3>. QED
        BY <2>2, <2>3, <2>4, <3>2, <3>3
    <2>5. CASE f = "USB_CLOSE"
      <3>1. irpc_handle' = None /\ ctxs' = 1
        BY <1>5, <2>1, <2>5 DEF Effects, TidyBeforeExit
      <3>. QED
        BY <1>3, <1>4, <2>1, <2>2, <2>3, <2>5, <3>1 DEF TidyBeforeExit, IsFunc
    <2>. QED
      BY <2>1, <2>4, <2>5
  <1>9. spc' = "done" => Pending("USB_EXIT")
    BY <1>2, <1>4 DEF Does
  <1>10. ServerUp' => spc' # "done"
    BY DEF ServerUp
  <1>. QED
    BY <1>3, <1>4, <1>7, <1>8, <1>9, <1>10 DEF TidyInv, ClientUp

LEMMA TidyInit == Init => TidyInv
  <1>. SUFFICES ASSUME Init PROVE TidyInv
    OBVIOUS
  <1>1. /\ cpc = "idle" /\ spc = "func" /\ c2s = <<>> /\ s2c = <<>> /\ ctxs = 0 /\ ~leaked
        /\ irpc_handle = None
    BY Zenon DEF Init
  <1>2. ~inited
    BY Zenon DEF Init
  <1>3. ~Pending("USB_EXIT")
    BY <1>1 DEF Pending, Busy
  <1>. QED
    BY <1>1, <1>2, <1>3 DEF TidyInv, TidySoFar, Replying, Inside

LEMMA TidyStep == Agree /\ CauseInv /\ TidyInv /\ [Next]_vars => TidyInv'
  <1>. SUFFICES ASSUME Agree, CauseInv, TidyInv, [Next]_vars PROVE TidyInv'
    OBVIOUS
  <1>1. CASE ClientStep
    BY <1>1, CallKeepsTidy, ArgsKeepTidy, ReplyKeepsTidy, EndKeepsTidy DEF ClientStep, StubStep
  <1>2. CASE ServerStep \/ ServerDies
    BY <1>2, ReadKeepsTidy, HandlerKeepsTidy DEF ServerStep, ServerEnds
  <1>3. CASE Hotplug \/ UNCHANGED vars
    <2>1. /\ UNCHANGED <<cpc, call, spc, sfunc, irpc_handle, c2s, s2c, leaked, ctxs>>
          /\ UNCHANGED <<wanted, inited, exited, failed, misuse>>
      BY <1>3 DEF Hotplug, Plug, Unplug, vars, client, server, libusb, history
    <2>2. \A g : Pending(g)' = Pending(g)
      BY <2>1 DEF Pending, Busy, IsFunc
    <2>3. TidySoFar' = TidySoFar
      BY <2>1, <2>2 DEF TidySoFar, Replying, Inside, ClientUp
    <2>4. TidyBeforeExit' = TidyBeforeExit
      BY <2>1, <2>2 DEF TidyBeforeExit, Busy, IsFunc
    <2>. QED
      BY <2>1, <2>2, <2>3, <2>4 DEF TidyInv, ServerUp, ClientUp
  <1>. QED
    BY <1>1, <1>2, <1>3 DEF Next

LEMMA TidyInvariant == Spec => [](Agree /\ CauseInv /\ TidyInv)
  BY CauseInvariant, TidyInit, TidyStep, PTL DEF Spec

\* A server that stops at the exit of a program that called libusb in order, and
\* saw no open or lookup fail, has destroyed its context, closed its handle with
\* all its claims, and freed every list, whatever was queued ahead of the exit.
THEOREM ShutsDownClean == Spec => []CleanShutdown
  <1>1. Agree /\ TidyInv => CleanShutdown
    <2>. SUFFICES ASSUME Agree, TidyInv, spc = "done", ~misuse, ~failed
                  PROVE  ctxs = 0 /\ open = {} /\ claimed = {} /\ ~leaked
      BY DEF CleanShutdown
    <2>1. ctxs = 0 /\ ~leaked /\ irpc_handle = None
      BY DEF TidyInv
    <2>2. OneHandle /\ claimed \subseteq Devices \X Values
      BY DEF Agree, HandleInv, InStep, ProtocolInv, TypeOK
    <2>3. open = {}
      BY <2>1, <2>2 DEF OneHandle
    <2>4. ASSUME NEW c \in claimed PROVE FALSE
      <3>1. c[1] \in Devices /\ c[1] = None
        BY <2>1, <2>2, <2>4 DEF OneHandle
      <3>. QED
        BY <3>1, ConstantsAssumption
    <2>. QED
      BY <2>1, <2>3, <2>4
  <1>. QED
    BY <1>1, TidyInvariant, PTL

\* The inductive invariant TLC checks on the small instance holds for every
\* number of devices and interfaces and every size of the socket buffers.
THEOREM InvariantHolds == Spec => []IInv
  <1>1. Agree /\ CauseInv /\ TidyInv => IInv
    BY DEF Agree, InStep, IInv
  <1>. QED
    BY <1>1, TidyInvariant, PTL

-----------------------------------------------------------------------------
(* The functions in a queue                                                *)

\* Induction over the natural numbers: a set that has none least is empty.
LEMMA LeastOf ==
    ASSUME NEW T \in SUBSET Nat, T # {} PROVE \E x \in T : \A y \in T : x <= y
  <1>. DEFINE R == OpToRel(<, Nat)
  <1>1. IsWellFoundedOn(R, Nat)
    BY NatLessThanWellFounded
  <1>2. R = {ss \in Nat \X Nat : ss[1] < ss[2]}
    BY Zenon DEF OpToRel
  <1>. HIDE DEF R
  <1>3. PICK x \in T : \A y \in T : <<y, x>> \notin R
    BY <1>1, WFMin
  <1>4. ASSUME NEW y \in T PROVE x <= y
    <2>1. <<y, x>> \in Nat \X Nat /\ <<y, x>>[1] = y /\ <<y, x>>[2] = x
      OBVIOUS
    <2>2. ~(y < x)
      BY <1>2, <1>3, <2>1, Zenon
    <2>. QED
      BY <2>2
  <1>. QED
    BY <1>4

\* One image more, when the functions before it are fs.
OneMore(fs, image) == IF IsFunc(image) THEN Append(fs, image.func) ELSE fs

\* g lists the functions of the first n images, for every n up to m.
Lists(images, m, g) ==
    g = [n \in 0..m |-> IF n = 0 THEN <<>> ELSE OneMore(g[n - 1], images[n])]

LEMMA ListExists ==
    ASSUME NEW images, NEW m \in Nat
    PROVE  \E g : Lists(images, m, g)
  <1>. DEFINE T == {k \in Nat : \A g : ~Lists(images, k, g)}
  <1>1. T = {}
    <2>1. SUFFICES ASSUME T # {} PROVE FALSE
      OBVIOUS
    <2>2. PICK x \in T : \A y \in T : x <= y
      <3>1. T \in SUBSET Nat
        OBVIOUS
      <3>. HIDE DEF T
      <3>. QED
        BY <2>1, <3>1, LeastOf
    <2>3. x \in Nat /\ \A g : ~Lists(images, x, g)
      BY DEF T
    <2>4. CASE x = 0
      <3>. DEFINE g == [n \in 0..0 |-> <<>>]
      <3>1. \A n \in 0..0 : n = 0
        OBVIOUS
      <3>2. Lists(images, 0, g)
        BY <3>1, Zenon DEF Lists
      <3>. QED
        BY <2>3, <2>4, <3>2, Zenon
    <2>5. CASE x # 0
      <3>1. x - 1 \in Nat /\ x - 1 \notin T
        <4>. HIDE DEF T
        <4>. QED
          BY <2>2, <2>3, <2>5
      <3>2. PICK f : Lists(images, x - 1, f)
        BY <3>1, Zenon
      <3>3. f = [n \in 0..(x - 1) |-> IF n = 0 THEN <<>> ELSE OneMore(f[n - 1], images[n])]
        BY <3>2, Zenon DEF Lists
      <3>. DEFINE g == [n \in 0..x |-> IF n \in 0..(x - 1) THEN f[n]
                                       ELSE OneMore(f[x - 1], images[x])]
      <3>4. ASSUME NEW n \in 0..x
            PROVE  g[n] = IF n = 0 THEN <<>> ELSE OneMore(g[n - 1], images[n])
        <4>1. CASE n = 0
          <5>1. n \in 0..(x - 1)
            BY <2>3, <2>5, <4>1
          <5>2. g[n] = f[n]
            BY <5>1, Zenon
          <5>3. f[n] = <<>>
            BY <3>3, <4>1, <5>1, Zenon
          <5>. QED
            BY <4>1, <5>2, <5>3, Zenon
        <4>2. CASE n # 0 /\ n \in 0..(x - 1)
          <5>1. n - 1 \in 0..(x - 1) /\ n - 1 \in 0..x
            BY <2>3, <4>2
          <5>2. g[n] = f[n] /\ g[n - 1] = f[n - 1]
            BY <4>2, <5>1, Zenon
          <5>3. f[n] = OneMore(f[n - 1], images[n])
            BY <3>3, <4>2, Zenon
          <5>. QED
            BY <4>2, <5>2, <5>3, Zenon
        <4>3. CASE n \notin 0..(x - 1)
          <5>1. n = x /\ n - 1 \in 0..(x - 1) /\ n - 1 \in 0..x /\ n # 0
            BY <2>3, <2>5, <4>3
          <5>2. g[n] = OneMore(f[x - 1], images[x])
            BY <4>3, Zenon
          <5>3. g[n - 1] = f[n - 1]
            BY <5>1, Zenon
          <5>. QED
            BY <5>1, <5>2, <5>3, Zenon
        <4>. QED
          BY <4>1, <4>2, <4>3
      <3>5. g = [n \in 0..x |-> g[n]]
        BY Zenon
      <3>. HIDE DEF g
      <3>6. Lists(images, x, g)
        BY <3>4, <3>5, Zenon DEF Lists
      <3>. QED
        BY <2>3, <3>6, Zenon
    <2>. QED
      BY <2>4, <2>5
  <1>2. m \notin T
    BY <1>1, Zenon
  <1>. QED
    BY <1>2

LEMMA ListSteps ==
    ASSUME NEW images, NEW m \in Nat, NEW g, Lists(images, m, g)
    PROVE  g[0] = <<>> /\ \A n \in 1..m : g[n] = OneMore(g[n - 1], images[n])
  <1>1. g = [n \in 0..m |-> IF n = 0 THEN <<>> ELSE OneMore(g[n - 1], images[n])]
    BY Zenon DEF Lists
  <1>2. 0 \in 0..m /\ \A n \in 1..m : n \in 0..m /\ n # 0
    OBVIOUS
  <1>. QED
    BY <1>1, <1>2, Zenon

LEMMA FuncsListed ==
    ASSUME NEW images, Len(images) \in Nat
    PROVE  \E g : Lists(images, Len(images), g) /\ FuncsOf(images) = g[Len(images)]
  <1>. DEFINE Is(g) == g = [n \in 0..Len(images) |->
                              IF n = 0 THEN <<>>
                              ELSE IF IsFunc(images[n]) THEN Append(g[n - 1], images[n].func)
                              ELSE g[n - 1]]
  <1>1. \A g : Is(g) <=> Lists(images, Len(images), g)
    BY Zenon DEF Lists, OneMore
  <1>2. \E g : Is(g)
    BY <1>1, ListExists, Zenon
  <1>3. FuncsOf(images) = (CHOOSE g : Is(g))[Len(images)]
    BY Zenon DEF FuncsOf
  <1>4. Is(CHOOSE g : Is(g))
    BY <1>2, Zenon
  <1>. QED
    BY <1>1, <1>3, <1>4, Zenon

Names == irpc_func \cup {None}

LEMMA ListTypes ==
    ASSUME NEW images \in Seq(Messages), NEW g, NEW m \in 0..Len(images), Lists(images, m, g),
           NEW n \in 0..m
    PROVE  g[n] \in Seq(Names)
  <1>0. m \in Nat /\ Len(images) \in Nat
    OBVIOUS
  <1>1. g[0] = <<>> /\ \A k \in 1..m : g[k] = OneMore(g[k - 1], images[k])
    BY <1>0, ListSteps
  <1>. DEFINE T == {k \in 0..m : g[k] \notin Seq(Names)}
  <1>2. T = {}
    <2>1. SUFFICES ASSUME T # {} PROVE FALSE
      OBVIOUS
    <2>2. PICK x \in T : \A y \in T : x <= y
      <3>1. T \in SUBSET Nat
        BY <1>0
      <3>. HIDE DEF T
      <3>. QED
        BY <2>1, <3>1, LeastOf
    <2>3. x \in 0..m /\ g[x] \notin Seq(Names)
      BY DEF T
    <2>4. x # 0
      <3>1. <<>> \in Seq(Names)
        OBVIOUS
      <3>. QED
        BY <1>1, <2>3, <3>1, Zenon
    <2>5. x - 1 \in 0..m /\ x \in 1..m /\ x \in 1..Len(images) /\ x - 1 \notin T
      <3>. HIDE DEF T
      <3>. QED
        BY <1>0, <2>2, <2>3, <2>4
    <2>6. g[x - 1] \in Seq(Names)
      BY <2>5 DEF T
    <2>7. images[x].func \in Names
      <3>1. images[x] \in Messages
        BY <2>5
      <3>. QED
        BY <3>1 DEF Messages, Names
    <2>8. Append(g[x - 1], images[x].func) \in Seq(Names)
      BY <2>6, <2>7
    <2>. QED
      BY <1>1, <2>3, <2>5, <2>6, <2>8 DEF OneMore
  <1>. QED
    BY <1>2

LEMMA FuncsTypes ==
    ASSUME NEW s \in Seq(Messages) PROVE FuncsOf(s) \in Seq(Names)
  <1>1. Len(s) \in Nat /\ Len(s) \in 0..Len(s)
    OBVIOUS
  <1>2. PICK g : Lists(s, Len(s), g) /\ FuncsOf(s) = g[Len(s)]
    BY <1>1, FuncsListed
  <1>. QED
    BY <1>1, <1>2, ListTypes

\* Two queues that begin alike have the same functions there.
LEMMA ListAlike ==
    ASSUME NEW s, NEW t, NEW m \in Nat, NEW p \in Nat, NEW g, Lists(s, m, g), NEW h, Lists(t, p, h),
           NEW n \in Nat, n <= m, n <= p, \A k \in 1..n : s[k] = t[k]
    PROVE  g[n] = h[n]
  <1>1. /\ g[0] = <<>> /\ \A k \in 1..m : g[k] = OneMore(g[k - 1], s[k])
        /\ h[0] = <<>> /\ \A k \in 1..p : h[k] = OneMore(h[k - 1], t[k])
    BY ListSteps
  <1>. DEFINE T == {k \in 0..n : g[k] # h[k]}
  <1>2. T = {}
    <2>1. SUFFICES ASSUME T # {} PROVE FALSE
      OBVIOUS
    <2>2. PICK x \in T : \A y \in T : x <= y
      <3>1. T \in SUBSET Nat
        OBVIOUS
      <3>. HIDE DEF T
      <3>. QED
        BY <2>1, <3>1, LeastOf
    <2>3. x \in 0..n /\ g[x] # h[x]
      BY DEF T
    <2>4. x # 0
      BY <1>1, <2>3
    <2>5. x - 1 \in 0..n /\ x \in 1..n /\ x \in 1..m /\ x \in 1..p /\ x - 1 \notin T
      <3>. HIDE DEF T
      <3>. QED
        BY <2>2, <2>3, <2>4
    <2>6. g[x - 1] = h[x - 1] /\ s[x] = t[x]
      BY <2>5 DEF T
    <2>7. g[x] = OneMore(g[x - 1], s[x]) /\ h[x] = OneMore(h[x - 1], t[x])
      BY <1>1, <2>5
    <2>. QED
      BY <2>3, <2>6, <2>7, Zenon
  <1>. QED
    BY <1>2

LEMMA FuncsOfNone == FuncsOf(<<>>) = <<>>
  <1>1. Len(<<>>) = 0 /\ Len(<<>>) \in Nat
    OBVIOUS
  <1>2. PICK g : Lists(<<>>, Len(<<>>), g) /\ FuncsOf(<<>>) = g[Len(<<>>)]
    BY <1>1, FuncsListed
  <1>3. g[0] = <<>>
    BY <1>1, <1>2, ListSteps
  <1>. QED
    BY <1>1, <1>2, <1>3

\* A write adds its function at the end.
LEMMA FuncsOfMore ==
    ASSUME NEW s \in Seq(Messages), NEW image \in Messages
    PROVE  FuncsOf(Append(s, image)) = OneMore(FuncsOf(s), image)
  <1>. DEFINE t == Append(s, image)
              n == Len(s)
  <1>1. n \in Nat /\ n + 1 \in 1..(n + 1) /\ n + 1 - 1 = n /\ n <= n + 1 /\ n <= n
    OBVIOUS
  <1>2. Len(t) = n + 1 /\ t[n + 1] = image /\ \A k \in 1..n : s[k] = t[k]
    OBVIOUS
  <1>. HIDE DEF t
  <1>3. PICK g : Lists(s, n, g) /\ FuncsOf(s) = g[n]
    BY <1>1, FuncsListed
  <1>. HIDE DEF n
  <1>4. n + 1 \in Nat /\ Len(t) \in Nat
    BY <1>1, <1>2
  <1>5. PICK h : Lists(t, Len(t), h) /\ FuncsOf(t) = h[Len(t)]
    BY <1>4, FuncsListed
  <1>6. Lists(t, n + 1, h) /\ FuncsOf(t) = h[n + 1]
    BY <1>2, <1>5
  <1>7. h[n + 1] = OneMore(h[n + 1 - 1], t[n + 1])
    BY <1>1, <1>4, <1>6, ListSteps
  <1>8. g[n] = h[n]
    BY <1>1, <1>2, <1>3, <1>4, <1>6, ListAlike
  <1>9. FuncsOf(t) = OneMore(FuncsOf(s), image)
    BY <1>1, <1>2, <1>3, <1>6, <1>7, <1>8, Zenon
  <1>. QED
    BY <1>9 DEF t

LEMMA Associates ==
    ASSUME NEW a \in Seq(Names), NEW b \in Seq(Names), NEW c \in Seq(Names)
    PROVE  (a \o b) \o c = a \o (b \o c)
  BY ConcatAssociative

LEMMA FuncsNext == FuncsOf(c2s)' = FuncsOf(c2s')
  BY Zenon DEF FuncsOf, IsFunc

\* A read takes the function of the first image, if it has one, from the front.
LEMMA FuncsOfRead ==
    ASSUME NEW s \in Seq(Messages), s # <<>>
    PROVE  FuncsOf(s) = (IF IsFunc(Head(s)) THEN <<Head(s).func>> ELSE <<>>) \o FuncsOf(Tail(s))
  <1>. DEFINE t == Tail(s)
              n == Len(t)
              first == IF IsFunc(Head(s)) THEN <<Head(s).func>> ELSE <<>>
  <1>1. /\ n \in Nat /\ Len(s) = n + 1 /\ s[1] = Head(s) /\ Head(s) \in Messages
        /\ t \in Seq(Messages) /\ \A k \in 1..n : t[k] = s[k + 1]
    BY HeadTailProperties
  <1>2. Head(s).func \in Names
    BY <1>1 DEF Messages, Names
  <1>3. first \in Seq(Names)
    BY <1>2
  <1>. HIDE DEF t, n
  <1>4. PICK g : Lists(s, n + 1, g) /\ FuncsOf(s) = g[n + 1]
    <2>1. Len(s) \in Nat
      OBVIOUS
    <2>. QED
      BY <1>1, <2>1, FuncsListed
  <1>5. PICK h : Lists(t, n, h) /\ FuncsOf(t) = h[n]
    BY <1>1, FuncsListed DEF n
  <1>6. /\ g[0] = <<>> /\ \A k \in 1..(n + 1) : g[k] = OneMore(g[k - 1], s[k])
        /\ h[0] = <<>> /\ \A k \in 1..n : h[k] = OneMore(h[k - 1], t[k])
    <2>1. n + 1 \in Nat
      BY <1>1
    <2>. QED
      BY <1>1, <1>4, <1>5, <2>1, ListSteps
  <1>7. \A k \in 0..n : h[k] \in Seq(Names)
    <2>1. n \in 0..Len(t)
      BY <1>1 DEF n
    <2>. QED
      BY <1>1, <1>5, <2>1, ListTypes
  <1>8. g[1] = first
    <2>1. 1 \in 1..(n + 1) /\ 1 - 1 = 0
      BY <1>1
    <2>2. g[1] = OneMore(<<>>, Head(s))
      BY <1>1, <1>6, <2>1
    <2>3. Append(<<>>, Head(s).func) = <<Head(s).func>>
      OBVIOUS
    <2>. QED
      BY <2>2, <2>3, Zenon DEF OneMore
  <1>. HIDE DEF first
  <1>. DEFINE T == {k \in 0..n : g[k + 1] # first \o h[k]}
  <1>9. T = {}
    <2>1. SUFFICES ASSUME T # {} PROVE FALSE
      OBVIOUS
    <2>2. PICK x \in T : \A y \in T : x <= y
      <3>1. T \in SUBSET Nat
        BY <1>1
      <3>. HIDE DEF T
      <3>. QED
        BY <2>1, <3>1, LeastOf
    <2>3. x \in 0..n /\ g[x + 1] # first \o h[x]
      BY DEF T
    <2>4. x # 0
      <3>1. first \o <<>> = first
        BY <1>3, ConcatEmptySeq
      <3>2. 0 + 1 = 1
        OBVIOUS
      <3>. QED
        BY <1>6, <1>8, <2>3, <3>1, <3>2, Zenon
    <2>5. /\ x - 1 \in 0..n /\ x \in 1..n /\ x + 1 \in 1..(n + 1) /\ x + 1 - 1 = x
          /\ x - 1 + 1 = x /\ x - 1 \notin T
      <3>. HIDE DEF T
      <3>. QED
        BY <1>1, <2>2, <2>3, <2>4
    <2>6. g[x] = first \o h[x - 1]
      BY <2>5 DEF T
    <2>7. g[x + 1] = OneMore(g[x], t[x]) /\ h[x] = OneMore(h[x - 1], t[x])
      BY <1>1, <1>6, <2>5
    <2>8. t[x] \in Messages /\ h[x - 1] \in Seq(Names)
      BY <1>1, <1>7, <2>5 DEF n
    <2>9. ASSUME IsFunc(t[x]) PROVE FALSE
      <3>1. t[x].func \in Names
        BY <2>8 DEF Messages, Names
      <3>2. Append(first \o h[x - 1], t[x].func) = first \o Append(h[x - 1], t[x].func)
        <4>1. first \o h[x - 1] \in Seq(Names)
          BY <1>3, <2>8, ConcatProperties
        <4>2. <<t[x].func>> \in Seq(Names)
          BY <3>1
        <4>3. /\ Append(first \o h[x - 1], t[x].func) = (first \o h[x - 1]) \o <<t[x].func>>
              /\ Append(h[x - 1], t[x].func) = h[x - 1] \o <<t[x].func>>
          BY <2>8, <3>1, <4>1, AppendIsConcat
        <4>4. (first \o h[x - 1]) \o <<t[x].func>> = first \o (h[x - 1] \o <<t[x].func>>)
          BY <1>3, <2>8, <4>2, Associates
        <4>. QED
          BY <4>3, <4>4, Zenon
      <3>. QED
        BY <2>3, <2>6, <2>7, <2>9, <3>2, Zenon DEF OneMore
    <2>10. ASSUME ~IsFunc(t[x]) PROVE FALSE
      BY <2>3, <2>6, <2>7, <2>10, Zenon DEF OneMore
    <2>. QED
      BY <2>9, <2>10
  <1>10. FuncsOf(s) = first \o FuncsOf(t)
    <2>1. n \in 0..n /\ n \notin T
      <3>1. n \in 0..n
        BY <1>1
      <3>. QED
        BY <1>9, <3>1, Zenon
    <2>2. g[n + 1] = first \o h[n]
      BY <2>1 DEF T
    <2>. QED
      BY <1>4, <1>5, <2>2
  <1>. QED
    BY <1>10 DEF first, t

\* What a death leaves of a queue leaves the first of its functions.
LEMMA FuncsOfRest ==
    ASSUME NEW s \in Seq(Messages), NEW n \in 0..Len(s)
    PROVE  \E k \in 0..Len(FuncsOf(s)) : FuncsOf(SubSeq(s, 1, n)) = SubSeq(FuncsOf(s), 1, k)
  <1>. DEFINE t == SubSeq(s, 1, n)
              L == Len(s)
  <1>0. L \in Nat /\ n \in Nat /\ n <= L /\ n <= n /\ n \in 0..n /\ L \in 0..L /\ n \in 0..L
    OBVIOUS
  <1>1. t \in Seq(Messages) /\ Len(t) = n /\ \A k \in 1..n : s[k] = t[k]
    <2>1. \A k \in 1..n : s[k] \in Messages /\ 1 + k - 1 = k
      BY <1>0
    <2>2. n - 1 + 1 = n /\ (IF 1 <= n THEN n - 1 + 1 ELSE 0) = n
      BY <1>0
    <2>3. 1 \in Int /\ n \in Int
      BY <1>0
    <2>. QED
      BY <2>1, <2>2, <2>3, SubSeqProperties
  <1>. HIDE DEF t
  <1>2. PICK g : Lists(s, L, g) /\ FuncsOf(s) = g[L]
    BY <1>0, FuncsListed DEF L
  <1>3. PICK h : Lists(t, n, h) /\ FuncsOf(t) = h[n]
    BY <1>0, <1>1, FuncsListed
  <1>4. \A k \in 0..L : g[k] \in Seq(Names)
    BY <1>0, <1>2, ListTypes DEF L
  <1>5. g[n] = h[n]
    BY <1>0, <1>1, <1>2, <1>3, ListAlike
  <1>6. \A k \in 1..L : g[k] = OneMore(g[k - 1], s[k])
    BY <1>0, <1>2, ListSteps
  <1>. HIDE DEF L
  <1>. DEFINE Claim(i) == \E k \in 0..Len(g[i]) : g[n] = SubSeq(g[i], 1, k)
              T == {i \in Nat : n + i <= L /\ ~Claim(n + i)}
  <1>7. T = {}
    <2>1. SUFFICES ASSUME T # {} PROVE FALSE
      OBVIOUS
    <2>2. PICK x \in T : \A y \in T : x <= y
      <3>1. T \in SUBSET Nat
        OBVIOUS
      <3>. HIDE DEF T
      <3>. QED
        BY <2>1, <3>1, LeastOf
    <2>3. x \in Nat /\ n + x <= L /\ ~Claim(n + x)
      BY DEF T
    <2>4. x # 0
      <3>1. g[n] \in Seq(Names)
        BY <1>0, <1>4
      <3>2. Len(g[n]) \in 0..Len(g[n]) /\ g[n] = SubSeq(g[n], 1, Len(g[n]))
        BY <3>1, SubSeqFull
      <3>3. n + 0 = n
        BY <1>0
      <3>. QED
        BY <2>3, <3>2, <3>3, Zenon
    <2>. DEFINE i == n + (x - 1)
    <2>5. /\ x - 1 \in Nat /\ i <= L /\ i \in 0..L /\ n + x = i + 1 /\ i + 1 \in 1..L
          /\ i + 1 - 1 = i /\ i + 1 \in 0..L
      BY <1>0, <2>3, <2>4
    <2>6. Claim(i)
      <3>1. x - 1 \notin T
        <4>. HIDE DEF T
        <4>. QED
          BY <2>2, <2>3, <2>5
      <3>. QED
        BY <2>5, <3>1 DEF T
    <2>. HIDE DEF i
    <2>7. PICK k \in 0..Len(g[i]) : g[n] = SubSeq(g[i], 1, k)
      BY <2>6
    <2>8. g[i] \in Seq(Names) /\ g[i + 1] = OneMore(g[i], s[i + 1])
      BY <1>4, <1>6, <2>5
    <2>9. CASE ~IsFunc(s[i + 1])
      <3>1. g[i + 1] = g[i]
        BY <2>8, <2>9, Zenon DEF OneMore
      <3>. QED
        BY <2>3, <2>5, <2>7, <3>1, Zenon
    <2>10. CASE IsFunc(s[i + 1])
      <3>. DEFINE e == s[i + 1].func
                  u == g[i]
      <3>1. e \in Names
        <4>1. s[i + 1] \in Messages
          BY <2>5 DEF L
        <4>. QED
          BY <4>1 DEF Messages, Names
      <3>2. g[i + 1] = Append(u, e)
        BY <2>8, <2>10, Zenon DEF OneMore
      <3>3. u \in Seq(Names) /\ k \in 0..Len(u) /\ g[n] = SubSeq(u, 1, k)
        BY <2>7, <2>8
      <3>. HIDE DEF e, u
      <3>4. SubSeq(u, 1, k) = SubSeq(Append(u, e), 1, k)
        <4>1. <<e>> \in Seq(Names) /\ Append(u, e) = u \o <<e>>
          BY <3>1, <3>3, AppendIsConcat
        <4>2. CASE k = 0
          <5>1. SubSeq(u, 1, k) = <<>> /\ SubSeq(Append(u, e), 1, k) = <<>>
            BY <4>2, SubSeqEmpty
          <5>. QED
            BY <5>1
        <4>3. CASE k # 0
          <5>1. k \in 1..Len(u)
            BY <3>3, <4>3
          <5>2. \A j \in 1..k : u[j] \in Names /\ Append(u, e)[j] = u[j] /\ 1 + j - 1 = j
            BY <3>1, <3>3, <5>1, AppendProperties
          <5>3. k \in Int /\ 1 \in Int /\ k - 1 + 1 = k
            BY <5>1
          <5>4. /\ SubSeq(u, 1, k) \in Seq(Names) /\ Len(SubSeq(u, 1, k)) = k
                /\ \A j \in 1..k : SubSeq(u, 1, k)[j] = u[j]
            BY <5>1, <5>2, <5>3, SubSeqProperties
          <5>5. /\ SubSeq(Append(u, e), 1, k) \in Seq(Names) /\ Len(SubSeq(Append(u, e), 1, k)) = k
                /\ \A j \in 1..k : SubSeq(Append(u, e), 1, k)[j] = u[j]
            BY <5>1, <5>2, <5>3, SubSeqProperties
          <5>. QED
            BY <5>4, <5>5, SeqEqual
        <4>. QED
          BY <4>2, <4>3
      <3>5. k \in 0..Len(Append(u, e))
        <4>1. Len(Append(u, e)) = Len(u) + 1 /\ Len(u) \in Nat
          BY <3>1, <3>3, AppendProperties
        <4>. QED
          BY <3>3, <4>1
      <3>. QED
        BY <2>3, <2>5, <3>2, <3>3, <3>4, <3>5, Zenon
    <2>. QED
      BY <2>9, <2>10
  <1>8. Claim(L)
    <2>1. L - n \in Nat /\ n + (L - n) = L /\ L <= L
      BY <1>0
    <2>2. L - n \notin T
      BY <1>7, Zenon
    <2>. QED
      BY <2>1, <2>2 DEF T
  <1>. QED
    BY <1>2, <1>3, <1>5, <1>8, Zenon DEF t

-----------------------------------------------------------------------------
(* Step by step                                                            *)

\* The server is in no function but while it is busy or was stopped in one,
\* and a connection is open only at a client that lives.
Ready ==
    /\ spc \in {"func", "done", "sigpipe"} => sfunc = None
    /\ csock = "open" => ClientUp

InStepReady == InStep /\ Ready

LEMMA ReadyInit == Init => Ready
  <1>. SUFFICES ASSUME Init PROVE Ready
    OBVIOUS
  <1>1. sfunc = None /\ cpc = "idle"
    BY Zenon DEF Init
  <1>. QED
    BY <1>1 DEF Ready, ClientUp

LEMMA ReadyStep == InStepReady /\ [Next]_vars => Ready'
  <1>. SUFFICES ASSUME InStepReady, [Next]_vars PROVE Ready'
    OBVIOUS
  <1>0. InStep /\ Ready /\ NoDesync' /\ ProtocolInv
    BY InStepStep DEF InStepReady, InStep
  <1>1. CASE ClientStep
    <2>1. UNCHANGED <<spc, sfunc>>
      BY <1>1 DEF ClientStep, StubStep, ClientCall, ClientArgs, ClientReply, ClientEof,
                  ClientLeaves, ClientDies, server
    <2>2. ASSUME NEW image, NEW pc, pc \in {"idle", "args", "reply"}, ClientWrite(image, pc)
          PROVE  csock' = "open" => ClientUp'
      BY <2>2 DEF ClientWrite, ClientUp
    <2>3. ASSUME NEW f \in irpc_func, ClientCall(f) PROVE csock' = "open" => ClientUp'
      <3>1. (IF Stub[f].args = NoImage THEN AwaitReply(f) ELSE "args") \in {"idle", "args", "reply"}
        BY DEF AwaitReply
      <3>. QED
        BY <2>2, <2>3, <3>1 DEF ClientCall
    <2>4. CASE ClientArgs
      <3>1. AwaitReply(call) \in {"idle", "args", "reply"}
        BY DEF AwaitReply
      <3>. QED
        BY <2>1, <2>2, <2>4, <3>1, <1>0 DEF ClientArgs, Ready
    <2>5. CASE ClientReply
      <3>1. cpc' \in {"idle", "desync"}
        BY <2>5 DEF ClientReply
      <3>. QED
        BY <1>0, <2>1, <3>1 DEF Ready, NoDesync, ClientUp
    <2>6. CASE ClientEof \/ ClientLeaves \/ ClientDies
      BY <1>0, <2>1, <2>6 DEF ClientEof, ClientLeaves, ClientDies, Ready
    <2>. QED
      BY <1>0, <1>1, <2>1, <2>3, <2>4, <2>5, <2>6 DEF ClientStep, StubStep, Ready
  <1>2. CASE ServerStep \/ ServerDies
    <2>1. CASE ReadFunc
      BY <1>0, <2>1 DEF ReadFunc, client, Ready, ClientUp, NoDesync
    <2>2. CASE ReadArgs
      BY <1>0, <2>2 DEF ReadArgs, client, Ready, ClientUp, NoDesync
    <2>3. CASE ServerEnds
      BY <1>0, <2>3, EndsDo DEF client, Ready, ClientUp
    <2>4. CASE UsbCall
      <3>1. PICK f \in irpc_func : Ends(f)
        BY <2>4, HandlerEnds
      <3>2. sfunc' = None /\ UNCHANGED <<cpc, csock>>
        BY <3>1 DEF Ends, Serve, client
      <3>. QED
        BY <1>0, <3>2 DEF Ready, ClientUp
    <2>. QED
      BY <1>2, <2>1, <2>2, <2>3, <2>4 DEF ServerStep, ServerEnds
  <1>3. CASE Hotplug \/ UNCHANGED vars
    <2>1. UNCHANGED <<cpc, csock, spc, sfunc>>
      BY <1>3 DEF Hotplug, Plug, Unplug, vars, client, server
    <2>. QED
      BY <1>0, <2>1 DEF Ready, ClientUp
  <1>. QED
    BY <1>1, <1>2, <1>3 DEF Next

\* The queue, with the function the server is in before it.
Before == IF sfunc = None THEN <<>> ELSE <<sfunc>>

LEMMA MappedTypes ==
    ASSUME InStep
    PROVE  /\ Before \in Seq(Names) /\ c2s \in Seq(Messages) /\ FuncsOf(c2s) \in Seq(Names)
           /\ Before \o FuncsOf(c2s) \in Seq(Names)
  <1>1. c2s \in Seq(Messages) /\ sfunc \in Names
    BY DEF InStep, TypeInv, TypeOK, Names
  <1>2. Before \in Seq(Names)
    BY <1>1 DEF Before
  <1>3. FuncsOf(c2s) \in Seq(Names)
    BY <1>1, FuncsTypes
  <1>. QED
    BY <1>1, <1>2, <1>3, ConcatProperties

\* A client that stops: it waits no more, and the last of its calls may be lost.
LEMMA Leaves ==
    ASSUME InStep, ClientUp, ~ClientUp', cpc' # "reply", cpc' # "args",
           UNCHANGED <<spc, sfunc, s2c, irpc_handle>>,
           \/ FuncsOf(c2s)' = FuncsOf(c2s)
           \/ \E n \in 0..Len(c2s) : c2s' = SubSeq(c2s, 1, n)
    PROVE  Remote!Leave
  <1>1. /\ Before \in Seq(Names) /\ c2s \in Seq(Messages) /\ FuncsOf(c2s) \in Seq(Names)
        /\ Before \o FuncsOf(c2s) \in Seq(Names) /\ Before' = Before
    BY MappedTypes DEF Before
  <1>. DEFINE p == Before
              s == FuncsOf(c2s)
              z == p \o s
  <1>2. PICK k \in 0..Len(s) : FuncsOf(c2s)' = SubSeq(s, 1, k)
    <2>1. CASE FuncsOf(c2s)' = FuncsOf(c2s)
      <3>1. Len(s) \in 0..Len(s) /\ s = SubSeq(s, 1, Len(s))
        BY <1>1, SubSeqFull
      <3>. QED
        BY <2>1, <3>1, Zenon
    <2>2. ASSUME NEW n \in 0..Len(c2s), c2s' = SubSeq(c2s, 1, n)
          PROVE  \E k \in 0..Len(s) : FuncsOf(c2s)' = SubSeq(s, 1, k)
      <3>1. \E k \in 0..Len(s) : FuncsOf(SubSeq(c2s, 1, n)) = SubSeq(s, 1, k)
        BY <1>1, <2>2, FuncsOfRest
      <3>2. FuncsOf(c2s)' = FuncsOf(SubSeq(c2s, 1, n))
        BY <2>2, Zenon DEF FuncsOf, IsFunc
      <3>. QED
        BY <3>1, <3>2, Zenon
    <2>. QED
      BY <2>1, <2>2
  <1>. HIDE DEF p, s
  <1>3. \E n \in 0..Len(z) : p \o SubSeq(s, 1, k) = SubSeq(z, 1, n)
    <2>1. p \in Seq(Names) /\ s \in Seq(Names) /\ z \in Seq(Names)
      BY <1>1 DEF p, s
    <2>. HIDE DEF z
    <2>2. Len(p) + k \in 0..Len(z) /\ Len(z) = Len(p) + Len(s) /\ Len(p) \in Nat /\ Len(s) \in Nat
      <3>1. Len(z) = Len(p) + Len(s)
        BY <2>1, ConcatProperties DEF z
      <3>. QED
        BY <2>1, <3>1
    <2>3. \A i \in 1..(Len(p) + Len(s)) : z[i] = IF i <= Len(p) THEN p[i] ELSE s[i - Len(p)]
      BY <2>1, ConcatProperties DEF z
    <2>4. /\ SubSeq(s, 1, k) \in Seq(Names) /\ Len(SubSeq(s, 1, k)) = k
          /\ \A i \in 1..k : SubSeq(s, 1, k)[i] = s[i]
      <3>1. \A i \in 1..k : s[i] \in Names /\ 1 + i - 1 = i
        BY <2>1, <2>2
      <3>2. k \in Int /\ 1 \in Int /\ k - 1 + 1 = k /\ (IF 1 <= k THEN k - 1 + 1 ELSE 0) = k
        BY <2>2
      <3>. QED
        BY <3>1, <3>2, SubSeqProperties
    <2>. DEFINE t == SubSeq(s, 1, k)
                l == p \o t
                m == Len(p) + k
                r == SubSeq(z, 1, m)
    <2>5. t \in Seq(Names) /\ Len(t) = k /\ \A i \in 1..k : t[i] = s[i]
      BY <2>4
    <2>. HIDE DEF t
    <2>6. /\ l \in Seq(Names) /\ Len(l) = m
          /\ \A i \in 1..m : l[i] = IF i <= Len(p) THEN p[i] ELSE t[i - Len(p)]
      BY <2>1, <2>5, ConcatProperties
    <2>7. r \in Seq(Names) /\ Len(r) = m /\ \A i \in 1..m : r[i] = z[i]
      <3>1. \A i \in 1..m : z[i] \in Names /\ 1 + i - 1 = i
        BY <2>1, <2>2
      <3>2. m \in Int /\ 1 \in Int /\ m - 1 + 1 = m /\ (IF 1 <= m THEN m - 1 + 1 ELSE 0) = m
        BY <2>2
      <3>. HIDE DEF m
      <3>. QED
        BY <3>1, <3>2, SubSeqProperties
    <2>. HIDE DEF l, r
    <2>8. \A i \in 1..m : l[i] = r[i]
      <3>1. ASSUME NEW i \in 1..m PROVE l[i] = r[i]
        <4>1. i \in 1..(Len(p) + Len(s)) /\ (~(i <= Len(p)) => i - Len(p) \in 1..k)
          BY <2>2
        <4>. QED
          BY <2>3, <2>5, <2>6, <2>7, <4>1
      <3>. QED
        BY <3>1
    <2>9. l = r
      BY <2>6, <2>7, <2>8, SeqEqual
    <2>. QED
      BY <2>2, <2>9 DEF l, r, t
  <1>4. \E n \in 0..Len(z) : (Before \o FuncsOf(c2s))' = SubSeq(Before \o FuncsOf(c2s), 1, n)
    BY <1>1, <1>2, <1>3, Zenon DEF p, s
  <1>5. ServerUp' = ServerUp
    BY DEF ServerUp
  <1>6. /\ ClientUp /\ ClientUp' = FALSE
        /\ UNCHANGED IF s2c = <<>> THEN None ELSE Head(s2c).call
        /\ (IF cpc = "reply" \/ (cpc = "args" /\ call \in Answers) THEN call ELSE None)' = None
    BY DEF ClientUp
  <1>7. /\ \E n \in 0..Len((IF sfunc = None THEN <<>> ELSE <<sfunc>>) \o FuncsOf(c2s)) :
              ((IF sfunc = None THEN <<>> ELSE <<sfunc>>) \o FuncsOf(c2s))'
                = SubSeq((IF sfunc = None THEN <<>> ELSE <<sfunc>>) \o FuncsOf(c2s), 1, n)
    BY <1>4, Zenon DEF Before, p, s, z
  <1>. HIDE DEF z
  <1>. QED
    BY <1>5, <1>6, <1>7, Zenon DEF Remote!Leave

\* The variables of the service that are not variables of the processes.
Queued    == Before \o FuncsOf(c2s)
Waiting   == IF cpc = "reply" \/ (cpc = "args" /\ call \in Answers) THEN call ELSE None
Answering == IF s2c = <<>> THEN None ELSE Head(s2c).call

LEMMA Issued ==
    ASSUME NEW f \in irpc_func, ClientUp, ClientUp' = ClientUp, Waiting = None,
           Waiting' = (IF f \in Answers THEN f ELSE None),
           Queued' = (IF ServerUp THEN Append(Queued, f) ELSE Queued),
           ServerUp' = ServerUp, Answering' = Answering, irpc_handle' = irpc_handle
    PROVE  Remote!Issue(f)
  BY Zenon DEF Remote!Issue, Queued, Before, Waiting, Answering

LEMMA Executed ==
    ASSUME NEW f, ServerUp, Queued # <<>>, Head(Queued) = f, Queued' = Tail(Queued),
           Answering' = (IF f \in Answers /\ ClientUp THEN f ELSE Answering),
           irpc_handle' \in CASE f \in Openers -> Devices \cup {None, irpc_handle}
                              [] f = "USB_CLOSE" -> {None}
                              [] OTHER -> {irpc_handle},
           ServerUp' \in (IF f = "USB_EXIT" THEN {FALSE} ELSE IF ClientUp THEN {TRUE} ELSE BOOLEAN),
           ClientUp' = ClientUp, Waiting' = Waiting
    PROVE  Remote!Execute
  <1>. DEFINE p == (IF sfunc = None THEN <<>> ELSE <<sfunc>>) \o FuncsOf(c2s)
              w == IF cpc = "reply" \/ (cpc = "args" /\ call \in Answers) THEN call ELSE None
              a == IF s2c = <<>> THEN None ELSE Head(s2c).call
  <1>1. p # <<>> /\ Head(p) = f /\ p' = Tail(p) /\ w' = w
    BY Zenon DEF Queued, Before, Waiting
  <1>2. a' = IF Head(p) \in Answers /\ ClientUp THEN Head(p) ELSE a
    BY <1>1, Zenon DEF Answering
  <1>3. /\ irpc_handle' \in CASE Head(p) \in {"USB_OPEN", "USB_OPEN_DEVICE_WITH_VID_PID"} ->
                                   Devices \cup {None, irpc_handle}
                              [] Head(p) = "USB_CLOSE" -> {None}
                              [] OTHER -> {irpc_handle}
        /\ ServerUp' \in IF Head(p) = "USB_EXIT" THEN {FALSE}
                         ELSE IF ClientUp THEN {TRUE} ELSE BOOLEAN
    BY <1>1, Zenon DEF Openers
  <1>. QED
    BY <1>1, <1>2, <1>3, Zenon DEF Remote!Execute

LEMMA Returned ==
    ASSUME ClientUp, Answering # None, Answering = Waiting, Waiting' = None, Answering' = None,
           ClientUp' = ClientUp, ServerUp' = ServerUp, Queued' = Queued,
           irpc_handle' = irpc_handle
    PROVE  Remote!Return
  BY Zenon DEF Remote!Return, Queued, Before, Waiting, Answering

LEMMA Failed ==
    ASSUME ServerUp, ServerUp' = FALSE, ClientUp' = ClientUp, Queued' = <<>>,
           Waiting' = Waiting, Answering' \in {Answering, None}, irpc_handle' = irpc_handle
    PROVE  Remote!Fail
  BY Zenon DEF Remote!Fail, Queued, Before, Waiting, Answering

LEMMA Unseen ==
    ASSUME ServerUp' = ServerUp, ClientUp' = ClientUp, Queued' = Queued,
           Waiting' = Waiting, Answering' = Answering, irpc_handle' = irpc_handle
    PROVE  UNCHANGED Remote!vars
  BY Zenon DEF Remote!vars, Queued, Before, Waiting, Answering

\* A call issues its function, or finds the server gone and is killed.
LEMMA CallIssues ==
    ASSUME InStepReady, NEW f \in irpc_func, ClientCall(f)
    PROVE  Remote!Issue(f) \/ Remote!Leave
  <1>1. /\ cpc = "idle" /\ (cpc' # "idle" => call' = f)
        /\ UNCHANGED <<spc, sfunc, s2c, irpc_handle>>
        /\ ClientWrite(FuncImage(f), IF Stub[f].args = NoImage THEN AwaitReply(f) ELSE "args")
    BY DEF ClientCall, server
  <1>2. InStep /\ ClientUp /\ ServerUp' = ServerUp /\ Before' = Before /\ Answering' = Answering
    BY <1>1 DEF ClientUp, ServerUp, Before, Answering, InStepReady
  <1>3. CASE ~ServerUp /\ c2s' = c2s /\ cpc' = "crashed"
    <2>1. FuncsOf(c2s)' = FuncsOf(c2s)
      BY <1>3, FuncsNext, Zenon
    <2>2. ~ClientUp' /\ cpc' # "reply" /\ cpc' # "args"
      BY <1>3 DEF ClientUp
    <2>. QED
      BY <1>1, <1>2, <2>1, <2>2, Leaves
  <1>4. CASE cpc' = (IF Stub[f].args = NoImage THEN AwaitReply(f) ELSE "args")
             /\ c2s' = (IF ServerUp THEN Append(c2s, FuncImage(f)) ELSE c2s)
    <2>1. Waiting = None
      BY <1>1 DEF Waiting
    <2>2. ClientUp' /\ Waiting' = IF f \in Answers THEN f ELSE None
      <3>1. Stub[f].args # NoImage => f \in Answers
        BY Tables DEF Answers
      <3>. QED
        BY <1>1, <1>4, <3>1 DEF Waiting, ClientUp, AwaitReply, Answers
    <2>3. Queued' = IF ServerUp THEN Append(Queued, f) ELSE Queued
      <3>1. CASE ~ServerUp
        <4>1. FuncsOf(c2s)' = FuncsOf(c2s)
          BY <1>4, <3>1, FuncsNext, Zenon
        <4>. QED
          BY <1>2, <3>1, <4>1, Zenon DEF Queued
      <3>2. CASE ServerUp
        <4>1. FuncImage(f) \in Messages /\ IsFunc(FuncImage(f)) /\ FuncImage(f).func = f
          BY FuncImageType DEF FuncImage, IsFunc
        <4>2. Before \in Seq(Names) /\ c2s \in Seq(Messages) /\ FuncsOf(c2s) \in Seq(Names)
              /\ f \in Names /\ Queued \in Seq(Names)
          BY <1>2, MappedTypes DEF Names, Queued
        <4>3. FuncsOf(c2s') = Append(FuncsOf(c2s), f)
          <5>1. FuncsOf(Append(c2s, FuncImage(f))) = OneMore(FuncsOf(c2s), FuncImage(f))
            BY <4>1, <4>2, FuncsOfMore
          <5>. QED
            BY <1>4, <3>2, <4>1, <5>1, Zenon DEF OneMore
        <4>4. Before \o Append(FuncsOf(c2s), f) = Append(Before \o FuncsOf(c2s), f)
          <5>1. <<f>> \in Seq(Names)
            BY <4>2
          <5>2. /\ Append(FuncsOf(c2s), f) = FuncsOf(c2s) \o <<f>>
                /\ Append(Queued, f) = Queued \o <<f>>
            BY <4>2, AppendIsConcat
          <5>3. (Before \o FuncsOf(c2s)) \o <<f>> = Before \o (FuncsOf(c2s) \o <<f>>)
            BY <4>2, <5>1, Associates
          <5>. QED
            BY <5>2, <5>3, Zenon DEF Queued
        <4>. QED
          BY <1>2, <3>2, <4>3, <4>4, FuncsNext, Zenon DEF Queued
      <3>. QED
        BY <3>1, <3>2
    <2>4. Remote!Issue(f)
      <3>1. ClientUp' = ClientUp
        BY <1>2, <2>2 DEF ClientUp
      <3>. QED
        BY <1>1, <1>2, <2>1, <2>2, <2>3, <3>1, Issued
    <2>. QED
      BY <2>4
  <1>. QED
    BY <1>1, <1>3, <1>4 DEF ClientWrite

\* The arguments are no step of the service.
LEMMA ArgsUnseen ==
    ASSUME InStepReady, ClientArgs
    PROVE  UNCHANGED Remote!vars \/ Remote!Leave
  <1>1. /\ cpc = "args" /\ UNCHANGED <<call, spc, sfunc, s2c, irpc_handle>>
    BY DEF ClientArgs, server
  <1>2. /\ InStep /\ ClientUp /\ ServerUp' = ServerUp /\ Before' = Before
        /\ Answering' = Answering /\ TypeInv /\ ProtocolInv
    BY <1>1 DEF ClientUp, ServerUp, Before, Answering, InStepReady, InStep
  <1>3. PICK d \in DeviceArgs(call, devlist, cdev), v \in NumberArgs(call) :
             ClientWrite(ArgsImage(call, d, v), AwaitReply(call))
    BY DEF ClientArgs
  <1>. DEFINE image == ArgsImage(call, d, v)
  <1>4. call \in irpc_func /\ Stub[call].args # NoImage /\ call \in Answers
    BY <1>1, <1>2, Tables DEF ProtocolInv, Phase, Answers
  <1>5. image \in Messages /\ ~IsFunc(image)
    <2>1. image \in Messages
      BY <1>2, <1>4, ArgumentTypes, ArgsImageType DEF TypeInv, TypeOK
    <2>2. image.fmt = Stub[call].args
      BY DEF ArgsImage
    <2>. QED
      BY <1>4, <2>1, <2>2, Tables DEF IsFunc
  <1>6. AwaitReply(call) = "reply"
    BY <1>4 DEF AwaitReply, Answers
  <1>. HIDE DEF image
  <1>7. FuncsOf(c2s') = FuncsOf(c2s)
    <2>1. c2s' = c2s \/ c2s' = Append(c2s, image)
      BY <1>3 DEF ClientWrite, image
    <2>2. FuncsOf(Append(c2s, image)) = OneMore(FuncsOf(c2s), image)
      BY <1>2, <1>5, MappedTypes, FuncsOfMore
    <2>. QED
      BY <1>5, <2>1, <2>2, Zenon DEF OneMore
  <1>8. FuncsOf(c2s)' = FuncsOf(c2s)
    BY <1>7, FuncsNext, Zenon
  <1>9. CASE cpc' = "crashed"
    <2>1. ~ClientUp' /\ cpc' # "reply" /\ cpc' # "args"
      BY <1>9 DEF ClientUp
    <2>. QED
      BY <1>1, <1>2, <1>8, <2>1, Leaves
  <1>10. CASE cpc' = "reply"
    <2>1. ClientUp' = ClientUp /\ Waiting' = Waiting
      BY <1>1, <1>4, <1>10 DEF ClientUp, Waiting
    <2>2. Queued' = Queued
      BY <1>2, <1>8, Zenon DEF Queued
    <2>. QED
      BY <1>1, <1>2, <2>1, <2>2, Unseen
  <1>. QED
    BY <1>3, <1>6, <1>9, <1>10 DEF ClientWrite

LEMMA ReplyReturns ==
    ASSUME InStepReady, ClientReply, NoDesync'
    PROVE  Remote!Return
  <1>1. /\ cpc = "reply" /\ s2c # <<>> /\ s2c' = Tail(s2c) /\ cpc' = "idle"
        /\ UNCHANGED <<spc, sfunc, c2s, irpc_handle>>
    BY DEF ClientReply, server, NoDesync
  <1>2. ClientUp /\ ClientUp' = ClientUp /\ ServerUp' = ServerUp /\ Before' = Before
    BY <1>1 DEF ClientUp, ServerUp, Before
  <1>3. /\ Head(s2c).call = call /\ Tail(s2c) = <<>> /\ call \in irpc_func
    <2>1. ProtocolInv
      BY DEF InStepReady, InStep
    <2>. QED
      BY <1>1, <1>2, <2>1, NothingPending DEF ProtocolInv, OneAnswer, Phase
  <1>4. Answering = call /\ Waiting = call /\ call # None /\ Waiting' = None /\ Answering' = None
    BY <1>1, <1>3, NoneAssumption DEF Answering, Waiting
  <1>5. FuncsOf(c2s)' = FuncsOf(c2s)
    BY <1>1, FuncsNext, Zenon
  <1>6. Queued' = Queued
    BY <1>2, <1>5, Zenon DEF Queued
  <1>. QED
    BY <1>1, <1>2, <1>4, <1>6, Returned

LEMMA EndLeaves ==
    ASSUME InStepReady, ClientEof \/ ClientLeaves \/ ClientDies
    PROVE  Remote!Leave
  <1>1. /\ InStep /\ ClientUp /\ ~ClientUp' /\ cpc' # "reply" /\ cpc' # "args"
        /\ UNCHANGED <<spc, sfunc, s2c, irpc_handle>>
    BY DEF ClientEof, ClientLeaves, ClientDies, server, ClientUp, InStepReady
  <1>2. CASE ClientEof \/ ClientLeaves
    <2>1. c2s' = c2s
      BY <1>2 DEF ClientEof, ClientLeaves
    <2>2. FuncsOf(c2s)' = FuncsOf(c2s)
      BY <2>1, FuncsNext, Zenon
    <2>. QED
      BY <1>1, <2>2, Leaves
  <1>3. CASE ClientDies
    <2>1. \E n \in 0..Len(c2s) : c2s' = SubSeq(c2s, 1, n)
      BY <1>3 DEF ClientDies
    <2>. QED
      BY <1>1, <2>1, Leaves
  <1>. QED
    BY <1>2, <1>3

\* Reading moves a function from the queue to the server, and the arguments
\* nowhere.
LEMMA ReadUnseen ==
    ASSUME InStepReady, ReadFunc \/ ReadArgs, NoDesync'
    PROVE  UNCHANGED Remote!vars
  <1>1. /\ c2s # <<>> /\ c2s' = Tail(c2s) /\ ServerUp /\ ServerUp'
        /\ UNCHANGED <<cpc, call, s2c, irpc_handle>>
    BY DEF ReadFunc, ReadArgs, client, ServerUp, NoDesync
  <1>2. /\ ClientUp' = ClientUp /\ Waiting' = Waiting /\ Answering' = Answering
        /\ ServerUp' = ServerUp
    BY <1>1 DEF ClientUp, Waiting, Answering, ServerUp
  <1>3. /\ ProtocolInv /\ Ready /\ c2s \in Seq(Messages) /\ FuncsOf(c2s) \in Seq(Names)
        /\ Tail(c2s) \in Seq(Messages) /\ FuncsOf(Tail(c2s)) \in Seq(Names)
    <2>1. c2s \in Seq(Messages)
      BY MappedTypes DEF InStepReady
    <2>2. Tail(c2s) \in Seq(Messages)
      BY <1>1, <2>1
    <2>. QED
      BY <2>1, <2>2, FuncsTypes DEF InStepReady, InStep
  <1>4. FuncsOf(c2s) = (IF IsFunc(Head(c2s)) THEN <<Head(c2s).func>> ELSE <<>>) \o FuncsOf(c2s')
    BY <1>1, <1>3, FuncsOfRead
  <1>5. Head(c2s) = c2s[1] /\ 1 \in 1..Len(c2s) /\ 1 - 1 = 0
    BY <1>1, <1>3
  <1>6. <<>> \o FuncsOf(c2s) = FuncsOf(c2s) /\ <<>> \o FuncsOf(c2s') = FuncsOf(c2s')
    BY <1>1, <1>3, ConcatEmptySeq
  <1>7. Before \o FuncsOf(c2s) = Before' \o FuncsOf(c2s')
    <2>1. CASE ReadFunc
      <3>1. sfunc = None /\ sfunc' = Head(c2s).func /\ Head(c2s).fmt = IRPC_INT_FMT
        BY <1>3, <2>1 DEF ReadFunc, Ready, NoDesync
      <3>2. Follows(0) = NoImage
        BY <2>1 DEF ReadFunc, Follows
      <3>3. Head(c2s).func \in irpc_func
        BY <1>1, <1>3, <1>5, <3>2 DEF ProtocolInv, Wire
      <3>4. sfunc' # None
        BY <3>1, <3>3, NoneAssumption
      <3>. QED
        BY <1>4, <1>6, <3>1, <3>4, Zenon DEF Before, IsFunc
    <2>2. CASE ReadArgs
      <3>1. spc = "args" /\ sfunc' = sfunc /\ Head(c2s).fmt = Handler[sfunc].args
        BY <2>2 DEF ReadArgs, NoDesync
      <3>2. sfunc \in irpc_func
        BY <1>3, <3>1 DEF ProtocolInv, Phase, Busy
      <3>3. ~IsFunc(Head(c2s))
        BY <3>1, <3>2, Tables DEF IsFunc
      <3>. QED
        BY <1>4, <1>6, <3>1, <3>3, Zenon DEF Before
    <2>. QED
      BY <2>1, <2>2
  <1>8. Queued' = Queued
    BY <1>7, FuncsNext, Zenon DEF Queued
  <1>. QED
    BY <1>1, <1>2, <1>8, Unseen

LEMMA StopFails ==
    ASSUME InStepReady, ServerEnds
    PROVE  Remote!Fail
  <1>1. /\ ServerUp /\ ServerUp' = FALSE /\ UNCHANGED <<cpc, call, irpc_handle>>
        /\ sfunc' = None /\ c2s' = <<>> /\ s2c' \in {s2c, <<>>}
    BY EndsDo DEF client, ServerUp
  <1>2. /\ ClientUp' = ClientUp /\ Waiting' = Waiting /\ Answering' \in {Answering, None}
        /\ Before' = <<>>
    BY <1>1 DEF ClientUp, Waiting, Answering, Before
  <1>3. FuncsOf(c2s)' = <<>>
    BY <1>1, FuncsNext, FuncsOfNone, Zenon
  <1>4. Queued' = <<>>
    <2>1. Queued' = <<>> \o <<>>
      BY <1>2, <1>3, Zenon DEF Queued
    <2>. QED
      BY <2>1
  <1>. QED
    BY <1>1, <1>2, <1>4, Failed

\* The handler carries out the oldest call.
LEMMA HandlerExecutes ==
    ASSUME InStepReady, UsbCall, TypeOK'
    PROVE  Remote!Execute
  <1>1. ProtocolInv /\ TypeOK /\ Ready
    BY DEF InStepReady, InStep, ProtocolInv
  <1>2. PICK f \in irpc_func : Does(f)
    BY <1>1, HandlerDoes
  <1>3. /\ Ends(f) /\ spc = "exec" /\ sfunc = f /\ Busy /\ ServerUp /\ sfunc' = None
        /\ UNCHANGED <<cpc, call, csock, c2s>>
    BY <1>2 DEF Does, Ends, Serve, client, Busy, ServerUp
  <1>4. ClientUp' = ClientUp /\ Waiting' = Waiting
    BY <1>3 DEF ClientUp, Waiting
  <1>5. Queued # <<>> /\ Head(Queued) = f /\ Queued' = Tail(Queued)
    <2>. DEFINE s == FuncsOf(c2s)
    <2>1. s \in Seq(Names) /\ f \in Names /\ f # None
      BY MappedTypes, NoneAssumption DEF InStepReady, Names
    <2>2. FuncsOf(c2s)' = s
      BY <1>3, FuncsNext, Zenon
    <2>3. Queued = <<f>> \o s
      BY <1>3, <2>1, Zenon DEF Queued, Before
    <2>4. Before' = <<>>
      BY <1>3 DEF Before
    <2>5. Queued' = <<>> \o s
      BY <2>2, <2>4, Zenon DEF Queued
    <2>. HIDE DEF s
    <2>6. <<>> \o s = s /\ <<f>> \in Seq(Names)
      BY <2>1, ConcatEmptySeq
    <2>7. <<f>> \o s # <<>> /\ Head(<<f>> \o s) = f /\ Tail(<<f>> \o s) = s
      BY <2>1
    <2>. QED
      BY <2>3, <2>5, <2>6, <2>7, Zenon
  <1>6. ClientUp => csock = "open" /\ s2c \in Seq(Replies)
    BY <1>1 DEF ProtocolInv, OneAnswer, TypeOK
  <1>7. f \in Answers <=> Answered(f)
    BY DEF Answers, Answered
  <1>8. Answering' = IF f \in Answers /\ ClientUp THEN f ELSE Answering
    <2>1. CASE f \in Answers /\ ClientUp
      <3>1. csock = "open" /\ s2c = <<>> /\ Answered(f)
        BY <1>1, <1>3, <1>6, <1>7, <2>1 DEF ProtocolInv, OneAnswer
      <3>2. PICK ret, d, list : s2c' = Append(s2c, ReplyImage(f, ret, d, list))
        BY <1>3, <3>1 DEF Ends
      <3>3. s2c' # <<>> /\ Head(s2c') = ReplyImage(f, ret, d, list)
        BY <3>1, <3>2
      <3>4. Head(s2c').call = f
        BY <3>3 DEF ReplyImage
      <3>. QED
        BY <2>1, <3>3, <3>4 DEF Answering
    <2>2. CASE ~(f \in Answers /\ ClientUp)
      <3>1. s2c' = s2c
        BY <1>1, <1>3, <1>7, <2>2 DEF Ends, Ready
      <3>2. Answering' = Answering
        BY <3>1 DEF Answering
      <3>. QED
        BY <2>2, <3>2
    <2>. QED
      BY <2>1, <2>2
  <1>9. irpc_handle' \in CASE f \in Openers -> Devices \cup {None, irpc_handle}
                           [] f = "USB_CLOSE" -> {None}
                           [] OTHER -> {irpc_handle}
    <2>1. f = "USB_CLOSE" => irpc_handle' = None
      BY <1>1, <1>2, HandlerTidies DEF Effects
    <2>2. f \notin Changers => irpc_handle' = irpc_handle
      BY <1>2 DEF Does
    <2>3. irpc_handle' \in Devices \cup {None}
      BY DEF TypeOK
    <2>. QED
      BY <2>1, <2>2, <2>3 DEF Changers, Openers
  <1>10. ServerUp' \in (IF f = "USB_EXIT" THEN {FALSE} ELSE IF ClientUp THEN {TRUE} ELSE BOOLEAN)
    <2>1. spc' = "done" <=> f = "USB_EXIT"
      BY <1>2 DEF Does
    <2>2. ServerUp' \in BOOLEAN
      BY DEF ServerUp
    <2>3. spc' \in {"func", "done", "sigpipe"} /\ (ClientUp => spc' # "sigpipe")
      BY <1>3, <1>6 DEF Ends
    <2>4. f = "USB_EXIT" => ServerUp' = FALSE
      BY <2>1 DEF ServerUp
    <2>5. f # "USB_EXIT" /\ ClientUp => ServerUp' = TRUE
      BY <2>1, <2>3 DEF ServerUp
    <2>. QED
      BY <2>2, <2>4, <2>5, Zenon
  <1>. QED
    BY <1>3, <1>4, <1>5, <1>8, <1>9, <1>10, Executed

LEMMA HotplugUnseen ==
    ASSUME Hotplug \/ UNCHANGED vars
    PROVE  UNCHANGED Remote!vars
  <1>1. UNCHANGED <<cpc, call, spc, sfunc, c2s, s2c, irpc_handle>>
    BY DEF Hotplug, Plug, Unplug, vars, client, server
  <1>2. /\ ClientUp' = ClientUp /\ Waiting' = Waiting /\ Answering' = Answering
        /\ Before' = Before /\ ServerUp' = ServerUp
    BY <1>1 DEF ClientUp, Waiting, Answering, Before, ServerUp
  <1>3. FuncsOf(c2s)' = FuncsOf(c2s)
    BY <1>1, FuncsNext, Zenon
  <1>4. Queued' = Queued
    BY <1>2, <1>3, Zenon DEF Queued
  <1>. QED
    BY <1>1, <1>2, <1>4, Unseen

LEMMA PromiseInit == Init => Remote!Init
  <1>. SUFFICES ASSUME Init PROVE Remote!Init
    OBVIOUS
  <1>1. /\ cpc = "idle" /\ spc = "func" /\ sfunc = None /\ c2s = <<>> /\ s2c = <<>>
        /\ irpc_handle = None
    BY Zenon DEF Init
  <1>2. ClientUp = TRUE /\ ServerUp = TRUE
    BY <1>1 DEF ClientUp, ServerUp
  <1>3. (IF sfunc = None THEN <<>> ELSE <<sfunc>>) \o FuncsOf(c2s) = <<>>
    <2>1. FuncsOf(c2s) = <<>>
      BY <1>1, FuncsOfNone, Zenon
    <2>2. (IF sfunc = None THEN <<>> ELSE <<sfunc>>) = <<>>
      BY <1>1
    <2>3. <<>> \o <<>> = <<>>
      OBVIOUS
    <2>. QED
      BY <2>1, <2>2, <2>3, Zenon
  <1>4. (IF cpc = "reply" \/ (cpc = "args" /\ call \in Answers) THEN call ELSE None) = None
    BY <1>1
  <1>. QED
    BY <1>1, <1>2, <1>3, <1>4, Zenon DEF Remote!Init

LEMMA PromiseStep == InStepReady /\ [Next]_vars => [Remote!Next]_(Remote!vars)
  <1>. SUFFICES ASSUME InStepReady, [Next]_vars PROVE Remote!Next \/ UNCHANGED Remote!vars
    OBVIOUS
  <1>0. NoDesync' /\ TypeOK'
    BY InStepStep DEF InStepReady, InStep, TypeInv
  <1>1. ASSUME NEW f \in irpc_func, ClientCall(f) PROVE Remote!Next
    <2>1. Remote!Issue(f) \/ Remote!Leave
      BY <1>1, CallIssues
    <2>. QED
      BY <2>1, Zenon DEF Remote!Next
  <1>2. CASE StubStep \/ ClientLeaves \/ ClientDies
    <2>1. UNCHANGED Remote!vars \/ Remote!Leave \/ Remote!Return
      BY <1>0, <1>2, ArgsUnseen, ReplyReturns, EndLeaves DEF StubStep
    <2>. QED
      BY <2>1, Zenon DEF Remote!Next
  <1>3. CASE ServerStep \/ ServerDies
    <2>1. UNCHANGED Remote!vars \/ Remote!Fail \/ Remote!Execute
      BY <1>0, <1>3, ReadUnseen, StopFails, HandlerExecutes DEF ServerStep, ServerEnds
    <2>. QED
      BY <2>1, Zenon DEF Remote!Next
  <1>4. CASE Hotplug \/ UNCHANGED vars
    BY <1>4, HotplugUnseen
  <1>. QED
    BY <1>1, <1>2, <1>3, <1>4 DEF Next, ClientStep

\* The two processes keep the promise of the service: whatever the program
\* calls, and whenever it or the server stops, calls are carried out in the
\* order they were made, each at most once, each answered one returns with its
\* own result, and only the last calls of a program that died are lost.
THEOREM KeepsThePromise == Spec => ImplementsRemoteCalls
  <1>1. Init => InStepReady
    BY InStepInit, ReadyInit DEF InStepReady
  <1>2. InStepReady /\ [Next]_vars => InStepReady'
    BY InStepStep, ReadyStep DEF InStepReady
  <1>. QED
    BY <1>1, <1>2, PromiseInit, PromiseStep, PTL DEF Spec, ImplementsRemoteCalls, Remote!Spec
=============================================================================
