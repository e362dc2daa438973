------------------------------ MODULE IrpcInv ------------------------------
(***************************************************************************)
(* The inductive invariants behind the safety properties of Irpc.  The     *)
(* properties alone are not inductive: that a reader always maps the       *)
(* format of the next image depends on every image still queued, and that  *)
(* the program's idea of the open device is right depends on no queued     *)
(* call being about to change it.                                          *)
(***************************************************************************)
EXTENDS Irpc

IsFunc(image) == image.fmt = IRPC_INT_FMT
Answered(f)   == Stub[f].reply # NoImage
Busy          == spc \in {"args", "exec"}

\* f is the function the server is in, or one whose identifier is queued.
Pending(f) ==
    \/ Busy /\ sfunc = f
    \/ \E i \in DOMAIN c2s : IsFunc(c2s[i]) /\ c2s[i].func = f

\* The format of the arguments that must follow queue position k, position 0
\* being the image the server read last; NoImage if a function must follow.
Follows(k) ==
    IF k = 0 THEN IF spc = "args" THEN Stub[sfunc].args ELSE NoImage
    ELSE IF IsFunc(c2s[k]) THEN Stub[c2s[k].func].args ELSE NoImage

\* A stub that is between its two images or waits is in a function that has
\* them, and the server is in a function, with its arguments if it has any.
Phase ==
    /\ cpc = "args" => call \in irpc_func /\ Stub[call].args # NoImage
    /\ cpc = "reply" => call \in irpc_func /\ Answered(call)
    /\ Busy => sfunc \in irpc_func
    /\ spc = "args" => Stub[sfunc].args # NoImage
    /\ spc = "exec" /\ Stub[sfunc].args # NoImage => sargs \in Messages

\* The queue to a running server is well formed, and so is what the living
\* client will send next.
Wire ==
    ServerUp =>
        /\ \A i \in 1..Len(c2s) :
              IF Follows(i - 1) = NoImage
              THEN IsFunc(c2s[i]) /\ c2s[i].func \in irpc_func
              ELSE c2s[i].fmt = Follows(i - 1) /\ ~IsFunc(c2s[i])
        /\ ClientUp =>
              Follows(Len(c2s)) = IF cpc = "args" THEN Stub[call].args ELSE NoImage

\* A living client has at most one answered call on its way, the one it is in.
OneAnswer ==
    ClientUp =>
        /\ csock = "open"
        /\ \A i \in 1..Len(c2s) :
              ServerUp /\ IsFunc(c2s[i]) /\ Answered(c2s[i].func) =>
                  /\ c2s[i].func = call /\ cpc # "idle" /\ s2c = <<>>
                  /\ i = Len(c2s) \/ (i = Len(c2s) - 1 /\ Stub[call].args # NoImage)
        /\ Busy /\ Answered(sfunc) =>
              /\ sfunc = call /\ cpc # "idle" /\ s2c = <<>>
              /\ spc = "exec" => c2s = <<>> /\ cpc = "reply"
              /\ spc = "args" => Len(c2s) <= 1
        /\ s2c # <<>> =>
              /\ Len(s2c) = 1 /\ cpc = "reply" /\ c2s = <<>> /\ spc \in {"func", "killed"}
              /\ Head(s2c).call = call /\ Head(s2c).fmt = Handler[call].reply

\* The two processes are in step.
ProtocolInv == TypeOK /\ Phase /\ Wire /\ OneAnswer

-----------------------------------------------------------------------------
Openers  == {"USB_OPEN", "USB_OPEN_DEVICE_WITH_VID_PID"}
Changers == Openers \cup {"USB_CLOSE"}

\* Nothing queued or in progress will change the handle the program relies on.
Held ==
    wanted # None =>
        /\ irpc_handle # None /\ handle = IrpcDevice(irpc_handle)
        /\ \A f \in Changers : ~Pending(f)
        /\ cpc \in {"args", "reply"} => call \notin Openers

\* The reply of a successful open describes the handle the server holds.
Told ==
    ClientUp /\ s2c # <<>> =>
        LET r == Head(s2c) IN
        \/ call = "USB_OPEN" /\ r.ret = "SUCCESS"
        \/ call = "USB_OPEN_DEVICE_WITH_VID_PID" /\ r.dev # Zeroed
        => irpc_handle # None /\ r.dev = IrpcDevice(irpc_handle)

\* The device a waiting stub asked for is the one on its way to the handler.
Asked ==
    cpc = "reply" /\ Stub[call].args = IRPC_DEV_FMT =>
        /\ \A i \in 1..Len(c2s) : ServerUp /\ ~IsFunc(c2s[i]) => c2s[i].dev = cdev
        /\ spc = "exec" /\ sfunc = call => sargs.dev = cdev

\* The identifiers of the plugged devices differ.
Distinct == \A d, e \in attached : Session[d] = Session[e] => d = e

\* The device held is the one the opened entry was filled from, or one that the
\* comparison of identifiers found for it.
Same ==
    /\ wanted # None =>
          wanted = IrpcDevice(irpc_handle) \/ Session[irpc_handle] = AsLong(wanted.session_data)
    /\ ClientUp /\ s2c # <<>> /\ call = "USB_OPEN" /\ Head(s2c).ret = "SUCCESS" =>
          Session[irpc_handle] = AsLong(cdev.session_data)

\* The program's and the server's views of the open device agree.
HandleInv == OneHandle /\ Held /\ Told /\ Asked

\* A call libusb allows finds its context and its handle, and the end of the
\* server is announced by the client's calls.
CauseInv ==
    /\ inited => irpc_ctx
    /\ ClientUp /\ s2c # <<>> /\ call = "USB_INIT" /\ Head(s2c).ret = "SUCCESS" => irpc_ctx
    /\ ~misuse /\ ServerUp => /\ \A f \in ContextFuncs : Pending(f) => irpc_ctx
                              /\ \A f \in HandleFuncs : Pending(f) => wanted # None
    /\ exited /\ cpc \in {"args", "reply"} => misuse
    /\ Pending("USB_EXIT") => exited
    /\ exited /\ ServerUp /\ csock # "reset" => Pending("USB_EXIT")
    /\ csock = "closed" /\ ServerUp => \A f \in irpc_func : Pending(f) => ~Answered(f)
    /\ spc \in {"eof", "sigpipe"} => csock # "open"
    /\ ServerStopsForCause

\* The reply on its way to the stub of f.
Replying(f, ret) == ClientUp /\ s2c # <<>> /\ call = f /\ Head(s2c).ret = ret

Inside(f) == cpc \in {"args", "reply"} /\ call = f

\* Before the exit libusb has the context the program knows of, no list but of
\* a failure the program is about to see, and a handle only if the program
\* knows of it or a call that will close or report it is on its way.
TidySoFar ==
    /\ ctxs = IF inited \/ Replying("USB_INIT", "SUCCESS") THEN 1 ELSE 0
    /\ Inside("USB_INIT") => ~inited
    /\ \/ ~leaked
       \/ \E f \in {"USB_GET_DEVICE_DESCRIPTOR", "USB_OPEN"} : Replying(f, "FAILURE")
    /\ \/ irpc_handle = None \/ wanted # None \/ Pending("USB_CLOSE")
       \/ \E f \in Openers : Inside(f)
    /\ s2c # <<>> /\ call = "USB_OPEN_DEVICE_WITH_VID_PID" /\ Head(s2c).dev = Zeroed =>
          irpc_handle = None

\* Between the call of exit and its handler only closes are carried out.
TidyBeforeExit ==
    /\ ctxs = 1 /\ ~leaked
    /\ irpc_handle = None \/ Pending("USB_CLOSE")
    /\ \A f \in irpc_func : Pending(f) => f \in {"USB_CLOSE", "USB_EXIT"}
    /\ \A i \in 1..Len(c2s) : IsFunc(c2s[i]) /\ c2s[i].func = "USB_EXIT" => i = Len(c2s)
    /\ Busy /\ sfunc = "USB_EXIT" => c2s = <<>>

\* What a program that calls in order, and sees no failure, leaves in libusb.
TidyInv ==
    ~misuse /\ ~failed =>
        /\ ClientUp /\ ServerUp /\ ~exited => TidySoFar
        /\ ServerUp /\ Pending("USB_EXIT") => TidyBeforeExit
        /\ spc = "done" => ctxs = 0 /\ ~leaked /\ irpc_handle = None

\* All of it: what the processes carry through every step.
IInv == ProtocolInv /\ HandleInv /\ CauseInv /\ TidyInv
=============================================================================
