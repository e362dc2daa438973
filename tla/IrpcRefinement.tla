--------------------------- MODULE IrpcRefinement ---------------------------
(***************************************************************************)
(* Irpc implements RemoteCalls.  A call is pending from its identifier's   *)
(* write to the end of its handler, so its arguments, the server's two     *)
(* reads and the libusb call inside the handler are one step of the        *)
(* service.                                                                *)
(***************************************************************************)
EXTENDS IrpcInv

\* The functions whose identifiers are in a queue of images, in order.
FuncsOf(images) ==
    LET upto[n \in 0..Len(images)] ==
            IF n = 0 THEN <<>>
            ELSE IF IsFunc(images[n]) THEN Append(upto[n - 1], images[n].func)
            ELSE upto[n - 1]
    IN upto[Len(images)]

Answers == {f \in irpc_func : Stub[f].reply # NoImage}

Remote == INSTANCE RemoteCalls WITH
    Functions <- irpc_func,
    Returning <- Answers,
    Openers   <- {"USB_OPEN", "USB_OPEN_DEVICE_WITH_VID_PID"},
    Closer    <- "USB_CLOSE",
    Stopper   <- "USB_EXIT",
    Things    <- Devices,
    alive     <- ClientUp,
    up        <- ServerUp,
    pending   <- (IF sfunc = None THEN <<>> ELSE <<sfunc>>) \o FuncsOf(c2s),
    waiting   <- IF cpc = "reply" \/ (cpc = "args" /\ call \in Answers) THEN call ELSE None,
    result    <- IF s2c = <<>> THEN None ELSE Head(s2c).call,
    held      <- irpc_handle

\* Every behaviour of the two processes is one of the promised service.
ImplementsRemoteCalls == Remote!Spec
=============================================================================
