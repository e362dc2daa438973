------------------------------- MODULE MCWindows -------------------------------
(***************************************************************************)
(* Instances for TLC of the two parts of the Windows layer that stand for  *)
(* POSIX calls: condition variables and pollable pipes.  They share        *)
(* nothing: a behaviour is one of the part that Init chose.                *)
(***************************************************************************)
EXTENDS Integers, FiniteSets

CONSTANTS
    Threads, MaxWaits,                              \* of WindowsCond
    Users, EventThread, MAX_FDS, MaxFd, MaxWrites   \* of WindowsPoll

ASSUME SlotsAssumption == MAX_FDS \in Nat

VARIABLES
    part,
    mutex, waiters, not_waiting, event, pc, timedout, awaited, destroyed, waits,
    is_polling_set, poll_fd, InternalHigh, owner, next_fd, open, th, ready, writes

Cond == INSTANCE WindowsCond
Pipes == INSTANCE WindowsPoll

condOnly == <<mutex, waiters, not_waiting, event, pc, timedout, awaited, destroyed, waits>>
pipesOnly == <<is_polling_set, poll_fd, InternalHigh, owner, next_fd, open, th, ready,
               writes>>
vars == <<part, condOnly, pipesOnly>>

NoCond ==
    /\ mutex = "none" /\ waiters = {} /\ not_waiting = {} /\ event = {} /\ pc = <<>>
    /\ timedout = <<>> /\ awaited = {} /\ destroyed = FALSE /\ waits = 0
NoPipes ==
    /\ is_polling_set = FALSE /\ poll_fd = <<>> /\ InternalHigh = <<>> /\ owner = <<>>
    /\ next_fd = 1 /\ open = {} /\ th = <<>> /\ ready = {} /\ writes = 0

Init ==
    \/ part = "cond" /\ Cond!Init /\ NoPipes
    \/ part = "pipes" /\ Pipes!Init /\ NoCond

OfCond == part = "cond" /\ UNCHANGED <<part, pipesOnly>>
OfPipes == part = "pipes" /\ UNCHANGED <<part, condOnly>>

Next == (OfCond /\ Cond!Next) \/ (OfPipes /\ Pipes!Next)

Spec == Init /\ [][Next]_vars

\* The fairness of the pipes.
FairSpec ==
    /\ Spec
    /\ WF_vars(OfPipes /\ Pipes!HandleEvents)
    /\ \A t \in Users \cup {EventThread} : WF_vars(OfPipes /\ Pipes!Continue(t))

-----------------------------------------------------------------------------
(* The properties of the parts, stated there. *)

\* The lists of the condition variable and the table of descriptors.
TypeOK ==
    CASE part = "cond" -> Cond!WaitersAreListed
      [] part = "pipes" -> Pipes!TypeOK

\* A descriptor handed out is in one slot, whatever races for slots.
OneSlotEach == part = "pipes" => Pipes!OneSlotEach

\* The event thread never waits inside a read with the slot locked.
ReadNeverBlocks == part = "pipes" => Pipes!ReadNeverBlocks

\* Everything written to a pipe that stays open is read.
WritesAreRead ==
    \A i \in Pipes!Slots : part = "pipes" /\ InternalHigh[i] > 0
        ~> part = "cond" \/ InternalHigh[i] = 0

\* A broadcast misses no thread that was waiting when it was called.
BroadcastMissesNone == part = "cond" => Cond!BroadcastMissesNone
=============================================================================
