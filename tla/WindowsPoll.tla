------------------------------ MODULE WindowsPoll ------------------------------
(***************************************************************************)
(* The table of pollable descriptors of the Windows layer (poll_windows.c) *)
(* with its fake pipes.  A slot is looked for without its lock and checked *)
(* again once the lock is held.  A pipe is an event and a counter: poll    *)
(* waits for the event, a write counts up and sets it, a read counts down  *)
(* and resets it at zero; a read of a pipe nobody wrote to waits with the  *)
(* lock of the slot held.                                                  *)
(*                                                                         *)
(* Users create, write to and close descriptors; the event thread polls    *)
(* all that are open and reads those found ready, as libusb's core does.   *)
(* A descriptor is closed only when no call that uses it is in progress.   *)
(***************************************************************************)
EXTENDS Integers

CONSTANTS
    Users, EventThread,
    MAX_FDS,
    MaxFd,              \* bound: descriptors created in one behaviour
    MaxWrites           \* bound: writes in one behaviour

VARIABLES
    is_polling_set,
    poll_fd,            \* descriptor in each slot, 0 when free
    InternalHigh,       \* writes to be read; the event is set when not zero
    owner,              \* the thread blocked with the slot's lock, or "none"
    next_fd, open,      \* descriptors that were handed out and not closed
    th,                 \* where each thread is
    ready,              \* descriptors poll reported and that are to be read
    writes

table == <<poll_fd, InternalHigh>>
vars == <<is_polling_set, table, owner, next_fd, open, th, ready, writes>>

LibThreads == Users \cup {EventThread}
Slots == 1..MAX_FDS
Idle == [at |-> "idle", op |-> "none", fd |-> 0, i |-> 0, left |-> {}, watch |-> {}]

Init ==
    /\ is_polling_set = FALSE
    /\ poll_fd = [i \in Slots |-> 0] /\ InternalHigh = [i \in Slots |-> 0]
    /\ owner = [i \in Slots |-> "none"]
    /\ next_fd = 1 /\ open = {} /\ th = [t \in LibThreads |-> Idle] /\ ready = {}
    /\ writes = 0

-----------------------------------------------------------------------------
(* Calls *)

Calls(t, op, fd, left) ==
    /\ th[t].at = "idle"
    /\ th' = [th EXCEPT ![t] = [at |-> "check", op |-> op, fd |-> fd, i |-> 0,
                                left |-> left, watch |-> {}]]

\* usbi_pipe and usbi_create_fd: a descriptor of the C library comes first.
Create(t) ==
    /\ next_fd <= MaxFd /\ Calls(t, "create", next_fd, {}) /\ next_fd' = next_fd + 1
    /\ UNCHANGED <<is_polling_set, table, owner, open, ready, writes>>

Write(t, fd) ==
    /\ fd \in open /\ writes < MaxWrites /\ writes' = writes + 1
    /\ Calls(t, "write", fd, {})
    /\ UNCHANGED <<is_polling_set, table, owner, next_fd, open, ready>>

InUse(fd) == fd \in ready \/ \E t \in LibThreads :
    \/ th[t].fd = fd \/ fd \in th[t].left
    \/ \E i \in th[t].watch : poll_fd[i] = fd

\* usbi_close and usbi_free_fd
Close(t, fd) ==
    /\ fd \in open /\ ~InUse(fd) /\ Calls(t, "close", fd, {}) /\ open' = open \ {fd}
    /\ UNCHANGED <<is_polling_set, table, owner, next_fd, ready, writes>>

Poll(t) ==
    /\ t = EventThread /\ ready = {} /\ open # {}
    /\ \E fd \in open : Calls(t, "poll", fd, open \ {fd})
    /\ UNCHANGED <<is_polling_set, table, owner, next_fd, open, ready, writes>>

Read(t, fd) ==
    /\ t = EventThread /\ fd \in ready /\ Calls(t, "read", fd, {})
    /\ ready' = ready \ {fd}
    /\ UNCHANGED <<is_polling_set, table, owner, next_fd, open, writes>>

-----------------------------------------------------------------------------
(* CHECK_INIT_POLLING, init_polling, exit_polling *)

CheckInit(t) ==
    /\ th[t].at = "check"
    /\ th' = [th EXCEPT ![t].at = IF is_polling_set THEN "scan" ELSE "init", ![t].i = 1]
    /\ UNCHANGED <<is_polling_set, table, owner, next_fd, open, ready, writes>>

\* Under the spinlock, and visible to others only when it is complete.
InitPolling(t) ==
    /\ th[t].at = "init" /\ th' = [th EXCEPT ![t].at = "scan"]
    /\ is_polling_set' = TRUE
    /\ IF is_polling_set THEN UNCHANGED table
       ELSE poll_fd' = [i \in Slots |-> 0] /\ UNCHANGED InternalHigh
    /\ UNCHANGED <<owner, next_fd, open, ready, writes>>

\* The last libusb_exit: nothing is in progress.
ExitPolling ==
    /\ is_polling_set /\ is_polling_set' = FALSE
    /\ \A t \in LibThreads : th[t].at = "idle"
    /\ poll_fd' = [i \in Slots |-> 0] /\ InternalHigh' = [i \in Slots |-> 0]
    /\ open' = {} /\ ready' = {}
    /\ UNCHANGED <<owner, next_fd, th, writes>>

-----------------------------------------------------------------------------
(* _fd_to_index_and_lock, and the same loop for a free slot *)

Wanted(t) == IF th[t].op = "create" THEN 0 ELSE th[t].fd

Scan(t) ==
    /\ th[t].at = "scan" /\ th[t].i <= MAX_FDS
    /\ IF poll_fd[th[t].i] = Wanted(t)
       THEN th' = [th EXCEPT ![t].at = "enter"]
       ELSE th' = [th EXCEPT ![t].i = @ + 1]
    /\ UNCHANGED <<is_polling_set, table, owner, next_fd, open, ready, writes>>

\* EBADF, or no slot for a new descriptor.
NotFound(t) ==
    /\ th[t].at = "scan" /\ th[t].i > MAX_FDS /\ th' = [th EXCEPT ![t] = Idle]
    /\ UNCHANGED <<is_polling_set, table, owner, next_fd, open, ready, writes>>

Entered(t) == th[t].at = "enter" /\ owner[th[t].i] = "none"

ChangedMeanwhile(t) ==
    /\ Entered(t) /\ poll_fd[th[t].i] # Wanted(t)
    /\ th' = [th EXCEPT ![t].at = "scan", ![t].i = @ + 1]
    /\ UNCHANGED <<is_polling_set, table, owner, next_fd, open, ready, writes>>

\* Mutant: what changed before the lock was taken is overwritten.
CreatedUnchecked(t) ==
    /\ Entered(t) /\ th[t].op = "create"
    /\ poll_fd' = [poll_fd EXCEPT ![th[t].i] = th[t].fd]
    /\ InternalHigh' = [InternalHigh EXCEPT ![th[t].i] = 0]
    /\ open' = open \cup {th[t].fd} /\ th' = [th EXCEPT ![t] = Idle]
    /\ UNCHANGED <<is_polling_set, owner, next_fd, ready, writes>>

Created(t) ==
    /\ Entered(t) /\ th[t].op = "create" /\ poll_fd[th[t].i] = Wanted(t)
    /\ poll_fd' = [poll_fd EXCEPT ![th[t].i] = th[t].fd]
    /\ InternalHigh' = [InternalHigh EXCEPT ![th[t].i] = 0]
    /\ open' = open \cup {th[t].fd} /\ th' = [th EXCEPT ![t] = Idle]
    /\ UNCHANGED <<is_polling_set, owner, next_fd, ready, writes>>

Closed(t) ==
    /\ Entered(t) /\ th[t].op = "close" /\ poll_fd[th[t].i] = Wanted(t)
    /\ poll_fd' = [poll_fd EXCEPT ![th[t].i] = 0]
    /\ InternalHigh' = [InternalHigh EXCEPT ![th[t].i] = 0]
    /\ th' = [th EXCEPT ![t] = Idle]
    /\ UNCHANGED <<is_polling_set, owner, next_fd, open, ready, writes>>

Written(t) ==
    /\ Entered(t) /\ th[t].op = "write" /\ poll_fd[th[t].i] = Wanted(t)
    /\ InternalHigh' = [InternalHigh EXCEPT ![th[t].i] = @ + 1]
    /\ th' = [th EXCEPT ![t] = Idle]
    /\ UNCHANGED <<is_polling_set, poll_fd, owner, next_fd, open, ready, writes>>

\* Mutant: the event stays set when the counter reaches zero.
AfterReadLeftSet(n) == IF n > 1 THEN n - 1 ELSE n

AfterRead(n) == n - 1

ReadDone(t) ==
    /\ Entered(t) /\ th[t].op = "read" /\ poll_fd[th[t].i] = Wanted(t)
    /\ IF InternalHigh[th[t].i] > 0
       THEN /\ InternalHigh' = [InternalHigh EXCEPT ![th[t].i] = AfterRead(@)]
            /\ th' = [th EXCEPT ![t] = Idle] /\ UNCHANGED owner
       ELSE /\ owner' = [owner EXCEPT ![th[t].i] = t]
            /\ th' = [th EXCEPT ![t].at = "blocked"] /\ UNCHANGED InternalHigh
    /\ UNCHANGED <<is_polling_set, poll_fd, next_fd, open, ready, writes>>

-----------------------------------------------------------------------------
(* usbi_poll *)

\* One descriptor: it is ready, or its event is one to wait for.
Polled(t) ==
    /\ Entered(t) /\ th[t].op = "poll" /\ poll_fd[th[t].i] = Wanted(t)
    /\ LET hit == InternalHigh[th[t].i] > 0
           watch == IF hit THEN th[t].watch ELSE th[t].watch \cup {th[t].i}
           found == IF hit THEN ready \cup {th[t].fd} ELSE ready
       IN /\ ready' = found
          /\ IF th[t].left # {}
             THEN \E fd \in th[t].left :
                    th' = [th EXCEPT ![t] = [at |-> "scan", op |-> "poll", fd |-> fd, i |-> 1,
                                             left |-> th[t].left \ {fd}, watch |-> watch]]
             ELSE IF found # {} THEN th' = [th EXCEPT ![t] = Idle]
             ELSE th' = [th EXCEPT ![t] = [at |-> "wait", op |-> "poll", fd |-> 0, i |-> 0,
                                           left |-> {}, watch |-> watch]]
    /\ UNCHANGED <<is_polling_set, table, owner, next_fd, open, writes>>

\* Mutant: all descriptors waited for are reported.
PollReturnsAll(t) ==
    /\ th[t].at = "wait"
    /\ \E i \in th[t].watch : InternalHigh[i] > 0
    /\ ready' = {poll_fd[i] : i \in th[t].watch}
    /\ th' = [th EXCEPT ![t] = Idle]
    /\ UNCHANGED <<is_polling_set, table, owner, next_fd, open, writes>>

\* WaitForMultipleObjects: one of the events is set.
PollReturns(t) ==
    /\ th[t].at = "wait"
    /\ \E i \in th[t].watch : InternalHigh[i] > 0 /\ ready' = {poll_fd[i]}
    /\ th' = [th EXCEPT ![t] = Idle]
    /\ UNCHANGED <<is_polling_set, table, owner, next_fd, open, writes>>

\* WAIT_TIMEOUT: libusb's core bounds every wait for events.
PollTimesOut(t) ==
    /\ th[t].at = "wait" /\ \A i \in th[t].watch : InternalHigh[i] = 0
    /\ th' = [th EXCEPT ![t] = Idle]
    /\ UNCHANGED <<is_polling_set, table, owner, next_fd, open, ready, writes>>

Continue(t) ==
    \/ CheckInit(t) \/ InitPolling(t) \/ Scan(t) \/ NotFound(t) \/ ChangedMeanwhile(t)
    \/ Created(t) \/ Closed(t) \/ Written(t) \/ ReadDone(t) \/ Polled(t) \/ PollReturns(t)
    \/ PollTimesOut(t)

\* Another turn of the event thread.
HandleEvents == Poll(EventThread) \/ \E fd \in ready : Read(EventThread, fd)

Next ==
    \/ \E t \in Users : Create(t) \/ \E fd \in open : Write(t, fd) \/ Close(t, fd)
    \/ HandleEvents \/ ExitPolling
    \/ \E t \in LibThreads : Continue(t)

Spec == Init /\ [][Next]_vars

\* Threads do not stop inside a call, and events are handled again and again.
FairSpec ==
    Spec /\ WF_vars(HandleEvents) /\ \A t \in LibThreads : WF_vars(Continue(t))

-----------------------------------------------------------------------------
TypeOK ==
    /\ is_polling_set \in BOOLEAN
    /\ poll_fd \in [Slots -> 0..MaxFd] /\ InternalHigh \in [Slots -> 0..MaxWrites]
    /\ owner \in [Slots -> LibThreads \cup {"none"}] /\ open \subseteq 1..MaxFd
    /\ \A t \in LibThreads : th[t].i \in 0..(MAX_FDS + 1)
    /\ ready \subseteq 1..MaxFd

\* A descriptor handed out is in one slot until it is closed, however threads
\* race for slots and for the first initialisation; what else is in the table
\* is about to be closed.
OneSlotEach ==
    /\ \A fd \in open : \E i \in Slots : \A j \in Slots : poll_fd[j] = fd <=> j = i
    /\ \A i \in Slots : poll_fd[i] \notin open \cup {0} =>
         \E t \in LibThreads : th[t].op = "close" /\ th[t].fd = poll_fd[i]

\* The event thread reads only pipes that were written to: otherwise it waits
\* with the lock of the slot, and all writers wait for the lock.
ReadNeverBlocks == \A i \in Slots : owner[i] = "none"

\* "If two threads write on the pipe at the same time, we need to process two
\* separate reads": what was written to a pipe is read until nothing is left,
\* unless the pipe is closed.
WritesAreRead == \A i \in Slots : InternalHigh[i] > 0 ~> InternalHigh[i] = 0
=============================================================================
