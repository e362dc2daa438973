---------------------------- MODULE DarwinTransfers ----------------------------
(***************************************************************************)
(* How the Darwin backend (darwin_usb.c) brings the end of a transfer from *)
(* the thread of the run loop to the thread that handles events: through a *)
(* pipe of the device handle, one write and one read for each word.  The   *)
(* same pipe tells that the device is gone.                                *)
(***************************************************************************)
EXTENDS Integers, Sequences, SequencesExt

CONSTANTS
    Handles,        \* open handles of one device
    Opener,         \* the first of them, which has the device's event source
    Transfers, On,  \* On[t] is the handle of transfer t
    Control,        \* those that use the device's own event source
    PipeCapacity,   \* words that fit in a pipe
    MaxSubmits      \* bound: submissions in one behaviour

TransfersAssumption ==
    /\ IsFiniteSet(Handles) /\ On \in [Transfers -> Handles] /\ Control \subseteq Transfers
    /\ Transfers \cap {"MESSAGE_DEVICE_GONE", "MESSAGE_ASYNC_IO_COMPLETE", "result",
                       "io_size"} = {}
    /\ "none" \notin Handles

VARIABLES
    io,             \* "kernel", "ended" with its callback to come, or "none"
    pending,
    attached, notified,
    fifo,           \* words in the pipe of each handle
    open_devs, polled,
    towrite,        \* writes the run loop's thread still has to do
    open_devs_lock,
    reader,         \* op_handle_events: at, fds left, handle, words read
    submits

user == <<pending, submits>>
kernel == <<io, attached>>
core == <<open_devs, polled>>
vars == <<kernel, user, notified, fifo, core, towrite, open_devs_lock, reader>>

GONE == "MESSAGE_DEVICE_GONE"
ASYNC == "MESSAGE_ASYNC_IO_COMPLETE"
NotHandling == [at |-> "idle", left |-> {}, h |-> "none", got |-> <<>>]

Init ==
    /\ io = [t \in Transfers |-> "none"]
    /\ pending = [t \in Transfers |-> FALSE]
    /\ attached = TRUE /\ notified = FALSE
    /\ fifo = [h \in Handles |-> <<>>] /\ open_devs = Handles /\ polled = Handles
    /\ towrite = <<>> /\ open_devs_lock = "none" /\ reader = NotHandling /\ submits = 0

-----------------------------------------------------------------------------
(* The user's calls and the kernel *)

\* darwin_submit_transfer: a refusal changes nothing.
Submit(t) ==
    /\ ~pending[t] /\ io[t] = "none" /\ submits < MaxSubmits /\ On[t] \in open_devs
    /\ attached
    /\ submits' = submits + 1
    /\ pending' = [pending EXCEPT ![t] = TRUE]
    /\ io' = [io EXCEPT ![t] = "kernel"]
    /\ UNCHANGED <<attached, notified, fifo, core, towrite, open_devs_lock, reader>>

Ends(ts) == io' = [t \in Transfers |-> IF t \in ts THEN "ended" ELSE io[t]]

InKernel == {t \in Transfers : io[t] = "kernel"}

DeviceAnswers(t) ==
    /\ attached /\ t \in InKernel /\ Ends({t})
    /\ UNCHANGED <<attached, notified, user, fifo, core, towrite, open_devs_lock, reader>>

\* darwin_cancel_transfer: "aborting all transactions" of the pipe; pipe zero
\* is the same for all handles of the device.
SamePipe(t, u) == IF t \in Control THEN u \in Control
                  ELSE On[u] = On[t] /\ u \notin Control

Cancel(t) ==
    /\ pending[t] /\ Ends({u \in InKernel : SamePipe(t, u)})
    /\ UNCHANGED <<attached, notified, user, fifo, core, towrite, open_devs_lock, reader>>

Unplug ==
    /\ attached /\ attached' = FALSE /\ Ends(InKernel)
    /\ UNCHANGED <<notified, user, fifo, core, towrite, open_devs_lock, reader>>

\* darwin_close, with nothing pending and no events being handled.  A write to
\* the closed pipe fails.  Callbacks come no more for interfaces that are
\* released, and none at all when the last handle releases the device; until
\* then its event source stays, and brings those of control transfers.
Close(h) ==
    /\ h \in open_devs /\ reader.at = "idle" /\ open_devs_lock = "none"
    /\ \A t \in Transfers : On[t] = h => ~pending[t]
    /\ open_devs' = open_devs \ {h} /\ polled' = polled \ {h}
    /\ fifo' = [fifo EXCEPT ![h] = <<>>]
    /\ towrite' = IF towrite # <<>> /\ towrite[1].h = h THEN <<>> ELSE towrite
    /\ io' = [t \in Transfers |-> IF (On[t] = h /\ t \notin Control) \/ open_devs = {h}
                                 THEN "none" ELSE io[t]]
    /\ UNCHANGED <<attached, notified, user, open_devs_lock, reader>>

-----------------------------------------------------------------------------
(* The thread of the run loop *)

\* darwin_async_io_callback; of a handle that was closed, which is freed by
\* then, it finds the -1 that darwin_close left, and nothing is written.
AsyncCallback(t) ==
    /\ towrite = <<>> /\ io[t] = "ended" /\ io' = [io EXCEPT ![t] = "none"]
    /\ towrite' = IF On[t] \notin open_devs THEN <<>>
                  ELSE [i \in 1..4 |-> [h |-> On[t],
                                        word |-> <<ASYNC, t, "result", "io_size">>[i]]]
    /\ UNCHANGED <<attached, notified, user, fifo, core, open_devs_lock, reader>>

\* Mutant: one of the handles of the device is told.
DevicesDetachedOne ==
    /\ towrite = <<>> /\ ~attached /\ ~notified /\ open_devs_lock = "none"
    /\ notified' = TRUE /\ open_devs_lock' = "loop" /\ open_devs # {}
    /\ \E h \in open_devs : towrite' = <<[h |-> h, word |-> GONE]>>
    /\ UNCHANGED <<kernel, user, fifo, core, reader>>

\* darwin_devices_detached: "write to each handle's event descriptor", with
\* the lock of the list held.
DevicesDetached ==
    /\ towrite = <<>> /\ ~attached /\ ~notified /\ open_devs_lock = "none"
    /\ notified' = TRUE
    /\ open_devs_lock' = IF open_devs = {} THEN "none" ELSE "loop"
    /\ LET order == SetToSeq(open_devs)
       IN towrite' = [i \in DOMAIN order |-> [h |-> order[i], word |-> GONE]]
    /\ UNCHANGED <<kernel, user, fifo, core, reader>>

\* write: it waits while the pipe is full, as O_NONBLOCK is given to F_SETFD.
WriteWord ==
    /\ towrite # <<>> /\ Len(fifo[Head(towrite).h]) < PipeCapacity
    /\ fifo' = [fifo EXCEPT ![Head(towrite).h] = Append(@, Head(towrite).word)]
    /\ towrite' = Tail(towrite)
    /\ open_devs_lock' = IF open_devs_lock = "loop" /\ Len(towrite) = 1 THEN "none"
                         ELSE open_devs_lock
    /\ UNCHANGED <<kernel, user, notified, core, reader>>

-----------------------------------------------------------------------------
(* The thread that handles events *)

Poll ==
    /\ reader.at = "idle"
    /\ \E h \in polled : fifo[h] # <<>>
    /\ reader' = [at |-> "lock", left |-> {h \in polled : fifo[h] # <<>>}, h |-> "none",
                  got |-> <<>>]
    /\ UNCHANGED <<kernel, user, notified, fifo, core, towrite, open_devs_lock>>

Lock ==
    /\ reader.at = "lock" /\ open_devs_lock = "none" /\ open_devs_lock' = "events"
    /\ reader' = [reader EXCEPT !.at = "fds"]
    /\ UNCHANGED <<kernel, user, notified, fifo, core, towrite>>

\* The handle of the next ready descriptor, until there is none.
NextFd ==
    /\ reader.at = "fds"
    /\ IF reader.left = {} THEN reader' = NotHandling /\ open_devs_lock' = "none"
       ELSE /\ \E h \in reader.left : reader' =
                 [at |-> "read", left |-> reader.left \ {h}, h |-> h, got |-> <<>>]
            /\ UNCHANGED open_devs_lock
    /\ UNCHANGED <<kernel, user, notified, fifo, core, towrite>>

message == Head(reader.got)
Whole == reader.got # <<>> /\ (message = ASYNC => Len(reader.got) = 4)

\* One read: it waits while the pipe is empty.
ReadWord ==
    /\ reader.at = "read" /\ ~Whole /\ fifo[reader.h] # <<>>
    /\ reader' = [reader EXCEPT !.got = Append(@, Head(fifo[reader.h]))]
    /\ fifo' = [fifo EXCEPT ![reader.h] = Tail(@)]
    /\ UNCHANGED <<kernel, user, notified, core, towrite, open_devs_lock>>

Read == reader.at = "read" /\ Whole

\* Mutant: the pipe of a device that is gone is still polled.
DeviceGoneStillPolled ==
    /\ Read /\ message = GONE /\ reader' = [reader EXCEPT !.at = "fds"]
    /\ pending' = [t \in Transfers |-> pending[t] /\ On[t] # reader.h]
    /\ UNCHANGED <<kernel, notified, submits, fifo, core, towrite, open_devs_lock>>

\* The handle's own source is removed from the run loop, its pipe from what
\* is polled, and usbi_handle_disconnect reports what is pending.
DeviceGone ==
    /\ Read /\ message = GONE /\ reader' = [reader EXCEPT !.at = "fds"]
    /\ polled' = polled \ {reader.h}
    /\ io' = [t \in Transfers |-> IF reader.h = Opener /\ t \in Control THEN "none"
                                                                       ELSE io[t]]
    /\ pending' = [t \in Transfers |-> pending[t] /\ On[t] # reader.h]
    /\ UNCHANGED <<attached, notified, submits, fifo, open_devs, towrite,
                   open_devs_lock>>

\* darwin_handle_callback
AsyncIoComplete ==
    /\ Read /\ message = ASYNC /\ reader' = [reader EXCEPT !.at = "fds"]
    /\ pending' = [pending EXCEPT ![reader.got[2]] = FALSE]
    /\ UNCHANGED <<kernel, submits, notified, fifo, core, towrite, open_devs_lock>>

\* "unknown message received from device pipe"
UnknownMessage == Read /\ message \notin {ASYNC, GONE}

op_handle_events == Poll \/ Lock \/ NextFd \/ ReadWord \/ DeviceGone \/ AsyncIoComplete
event_thread_main == DevicesDetached \/ WriteWord \/ \E t \in Transfers : AsyncCallback(t)

Next ==
    \/ \E t \in Transfers : Submit(t) \/ DeviceAnswers(t) \/ Cancel(t)
    \/ Unplug \/ \E h \in Handles : Close(h)
    \/ event_thread_main \/ op_handle_events

Spec == Init /\ [][Next]_vars

-----------------------------------------------------------------------------
\* What op_handle_events takes for a message is one, and completes a transfer
\* that is pending: words of two messages never mix in the pipe, and nothing
\* of a device that is gone is reported a second time.
MessagesWhole ==
    /\ ~UnknownMessage
    /\ Read /\ message = ASYNC => /\ reader.got[2] \in Transfers
                                  /\ pending[reader.got[2]]

\* The thread of the run loop waits for room in a pipe with the lock held that
\* the thread which makes room waits for.
Stuck ==
    /\ open_devs_lock = "loop" /\ Len(fifo[Head(towrite).h]) = PipeCapacity
    /\ reader.at = "lock"

\* "set the pipe to be non-blocking": no two threads wait for each other.
NeverStuck == ~Stuck
=============================================================================
