------------------------------ MODULE WindowsCond ------------------------------
(***************************************************************************)
(* The condition variable of the Windows threads layer (threads_windows.c) *)
(* with the mutex it is used with.  Each thread that ever waited has an    *)
(* entry with an auto-reset event of its own, in one of two lists: waiters *)
(* from before the mutex is released until after it is taken again, or     *)
(* not_waiting.                                                            *)
(***************************************************************************)
EXTENDS Integers, FiniteSets

CONSTANTS Threads, MaxWaits         \* bound: calls of usbi_cond_*wait

VARIABLES
    mutex,                  \* the thread that holds it, or "none"
    waiters, not_waiting,   \* threads whose entry is in each list
    event,                  \* threads whose event is set
    pc,                     \* "run", "wait", "timedwait", "relock"
    timedout,               \* what the wait in progress will return
    awaited,                \* broadcasts that found the thread waiting
    destroyed, waits

vars == <<mutex, waiters, not_waiting, event, pc, timedout, awaited, destroyed, waits>>
cond == <<waiters, not_waiting, event, destroyed>>

\* usbi_cond_init
Init ==
    /\ mutex = "none" /\ waiters = {} /\ not_waiting = {} /\ event = {}
    /\ pc = [t \in Threads |-> "run"] /\ timedout = [t \in Threads |-> FALSE]
    /\ awaited = {} /\ destroyed = FALSE /\ waits = 0

Waiting(t) == pc[t] \in {"wait", "timedwait"}

usbi_mutex_lock(t) ==
    /\ pc[t] = "run" /\ mutex = "none" /\ mutex' = t
    /\ UNCHANGED <<cond, pc, timedout, awaited, waits>>

usbi_mutex_unlock(t) ==
    /\ pc[t] = "run" /\ mutex = t /\ mutex' = "none"
    /\ UNCHANGED <<cond, pc, timedout, awaited, waits>>

\* Mutant: the entry moves to waiters once the mutex was released and only if
\* there was one.
BeginWaitLate(t, kind) ==
    /\ mutex = t /\ pc[t] = "run" /\ ~destroyed /\ waits < MaxWaits
    /\ waits' = waits + 1
    /\ waiters' = IF t \in not_waiting THEN waiters \cup {t} ELSE waiters
    /\ not_waiting' = not_waiting \ {t}
    /\ mutex' = "none" /\ pc' = [pc EXCEPT ![t] = kind]
    /\ UNCHANGED <<event, timedout, awaited, destroyed>>

\* usbi_cond_intwait up to WaitForSingleObject: the thread's entry is found
\* in not_waiting or made, and moves to waiters.
BeginWait(t, kind) ==
    /\ mutex = t /\ pc[t] = "run" /\ ~destroyed /\ waits < MaxWaits
    /\ waits' = waits + 1
    /\ not_waiting' = not_waiting \ {t} /\ waiters' = waiters \cup {t}
    /\ mutex' = "none" /\ pc' = [pc EXCEPT ![t] = kind]
    /\ UNCHANGED <<event, timedout, awaited, destroyed>>

\* The event is set: it resets itself.
Wakes(t) ==
    /\ Waiting(t) /\ t \in event /\ event' = event \ {t}
    /\ pc' = [pc EXCEPT ![t] = "relock"] /\ timedout' = [timedout EXCEPT ![t] = FALSE]
    /\ UNCHANGED <<mutex, waiters, not_waiting, awaited, destroyed, waits>>

TimesOut(t) ==
    /\ pc[t] = "timedwait" /\ t \notin event
    /\ pc' = [pc EXCEPT ![t] = "relock"] /\ timedout' = [timedout EXCEPT ![t] = TRUE]
    /\ UNCHANGED <<mutex, cond, awaited, waits>>

\* The rest of usbi_cond_intwait.
EndWait(t) ==
    /\ pc[t] = "relock" /\ mutex = "none" /\ mutex' = t
    /\ waiters' = waiters \ {t} /\ not_waiting' = not_waiting \cup {t}
    /\ pc' = [pc EXCEPT ![t] = "run"] /\ awaited' = awaited \ {t}
    /\ UNCHANGED <<event, timedout, destroyed, waits>>

usbi_cond_broadcast(t) ==
    /\ mutex = t /\ ~destroyed /\ event' = event \cup waiters
    /\ awaited' = awaited \cup {u \in Threads : Waiting(u)}
    /\ UNCHANGED <<mutex, waiters, not_waiting, pc, timedout, destroyed, waits>>

\* "list_entry" is given the address of the list's own link instead of that
\* of an entry: the handle passed to SetEvent is whatever lies after the
\* condition variable, an event of the program or nothing.
usbi_cond_signal(t) ==
    /\ mutex = t /\ ~destroyed
    /\ \E some \in {{}} \cup {{u} : u \in waiters \cup not_waiting} :
         event' = IF waiters = {} THEN event ELSE event \cup some
    /\ UNCHANGED <<mutex, waiters, not_waiting, pc, timedout, awaited, destroyed, waits>>

\* The entries are freed, their events are not closed.
usbi_cond_destroy(t) ==
    /\ pc[t] = "run" /\ waiters = {} /\ ~destroyed      \* else EBUSY
    /\ destroyed' = TRUE /\ not_waiting' = {}
    /\ UNCHANGED <<mutex, waiters, event, pc, timedout, awaited, waits>>

Step(t) ==
    \/ usbi_mutex_lock(t) \/ usbi_mutex_unlock(t)
    \/ BeginWait(t, "wait") \/ BeginWait(t, "timedwait")
    \/ Wakes(t) \/ TimesOut(t) \/ EndWait(t)
    \/ usbi_cond_broadcast(t) \/ usbi_cond_signal(t) \/ usbi_cond_destroy(t)

Next == \E t \in Threads : Step(t)

Spec == Init /\ [][Next]_vars

-----------------------------------------------------------------------------
\* A thread that has begun to wait has its entry in waiters until it is about
\* to return, and only such threads have.
WaitersAreListed == waiters = {t \in Threads : pc[t] # "run"}

\* usbi_cond_broadcast misses no thread that was waiting when it was called:
\* it is on its way out, or its event is set.
BroadcastMissesNone == \A t \in awaited : Waiting(t) => t \in event
=============================================================================
