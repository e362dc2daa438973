---------------------------- MODULE WindowsProofs ----------------------------
(***************************************************************************)
(* The Windows layer for any number of threads, slots, descriptors and     *)
(* writes.  The table of descriptors: whatever a thread remembers of it    *)
(* between two locks (Sound) still holds when it locks the slot, or the    *)
(* check under the lock finds that it does not.  The condition variable:   *)
(* usbi_cond_broadcast sets the events of the waiters list and knows       *)
(* nothing else of who waits, so what matters is who is listed.            *)
(***************************************************************************)
EXTENDS MCWindows, TLAPS

-----------------------------------------------------------------------------
(* The invariant of the table                                              *)

ThreadStates ==
    [at : {"idle", "check", "init", "scan", "enter", "blocked", "wait"},
     op : {"none", "create", "write", "close", "poll", "read"},
     fd : 0..(next_fd - 1), i : Nat, left : SUBSET open, watch : SUBSET Pipes!Slots]

\* What a thread that creates or closes a descriptor finds in the table, and
\* where it will find it.
Creates(r) == r.op = "create" =>
    r.fd # 0 /\ r.fd \notin open /\ \A i \in Pipes!Slots : poll_fd[i] # r.fd
Closes(r) == r.op = "close" =>
    /\ r.fd # 0 /\ r.fd \notin open
    /\ \E j \in Pipes!Slots :
         /\ poll_fd[j] = r.fd
         /\ r.at \in {"init", "scan"} => r.i <= j
         /\ r.at = "enter" => r.i = j

\* A descriptor in use stays open, and one to be read has been written to.
Uses(t, r) ==
    /\ r.op \in {"write", "read", "poll"} /\ r.at # "wait" => r.fd \in open
    /\ \A i \in r.watch : poll_fd[i] \in open
    /\ r.op \in {"poll", "read"} => t = EventThread
    /\ r.op = "read" =>
         r.fd \notin ready /\ \A i \in Pipes!Slots : poll_fd[i] = r.fd => InternalHigh[i] > 0

\* Thread t may be where r says: idle it remembers nothing, and it looks at
\* slots only once the table was initialised.
Sound(t, r) ==
    /\ r \in ThreadStates
    /\ r.at = "idle" => r = Pipes!Idle
    /\ r.at \in {"init", "scan", "enter"} => r.i > 0
    /\ r.at = "enter" => r.i <= MAX_FDS
    /\ r.at = "wait" => r.op = "poll"
    /\ r.at \in {"scan", "enter"} => is_polling_set
    /\ Creates(r) /\ Closes(r) /\ Uses(t, r)

\* No descriptor is in two slots, those handed out are in one, and those
\* reported ready have something to be read; before init_polling there are none.
Tables ==
    /\ is_polling_set \in BOOLEAN /\ next_fd \in Nat \ {0}
    /\ poll_fd \in [Pipes!Slots -> 0..(next_fd - 1)]
    /\ InternalHigh \in [Pipes!Slots -> Nat]
    /\ owner = [i \in Pipes!Slots |-> "none"]
    /\ open \subseteq 1..(next_fd - 1) /\ ready \subseteq open
    /\ \A i, j \in Pipes!Slots : poll_fd[i] = poll_fd[j] /\ poll_fd[i] # 0 => i = j
    /\ \A fd \in open : \E i \in Pipes!Slots : poll_fd[i] = fd
    /\ \A i \in Pipes!Slots : poll_fd[i] \in ready => InternalHigh[i] > 0
    /\ ~is_polling_set => open = {} /\ \A i \in Pipes!Slots : poll_fd[i] = 0

\* No two threads create, or close, the same descriptor.
Apart == \A t, u \in Pipes!LibThreads :
    t # u /\ th[t].op \in {"create", "close"} /\ th[u].op = th[t].op => th[t].fd # th[u].fd

\* What is in the table and not open is about to be closed.
Leftovers == \A i \in Pipes!Slots : poll_fd[i] \notin open \cup {0} =>
    \E t \in Pipes!LibThreads : th[t].op = "close" /\ th[t].fd = poll_fd[i]

PipesInv ==
    /\ Tables /\ Apart /\ Leftovers
    /\ th \in [Pipes!LibThreads -> ThreadStates]
    /\ \A t \in Pipes!LibThreads : Sound(t, th[t])

LEMMA PipesInit == Pipes!Init => PipesInv
<1> SUFFICES ASSUME Pipes!Init PROVE PipesInv
  OBVIOUS
<1>1. Tables /\ Leftovers
  <2>1. \A i \in Pipes!Slots : poll_fd[i] = 0
    BY DEF Pipes!Init
  <2>2. Leftovers
    BY <2>1 DEF Leftovers
  <2>3. /\ is_polling_set \in BOOLEAN /\ next_fd = 1 /\ open = {} /\ ready = {}
        /\ owner = [i \in Pipes!Slots |-> "none"]
        /\ poll_fd \in [Pipes!Slots -> {0}] /\ InternalHigh \in [Pipes!Slots -> Nat]
    BY DEF Pipes!Init
  <2>4. {0} = 0..(next_fd - 1)
    BY <2>3
  <2> QED BY <2>1, <2>2, <2>3, <2>4 DEF Tables
<1>2. \A t \in Pipes!LibThreads : th[t] = Pipes!Idle
  BY DEF Pipes!Init
<1>3. Pipes!Idle \in ThreadStates
  BY DEF Pipes!Init, Pipes!Idle, ThreadStates
<1>4. th \in [Pipes!LibThreads -> ThreadStates]
  BY <1>3 DEF Pipes!Init
<1>5. Apart /\ \A t \in Pipes!LibThreads : Sound(t, th[t])
  BY <1>2, <1>3 DEF Apart, Sound, Creates, Closes, Uses, Pipes!Idle
<1> QED BY <1>1, <1>4, <1>5 DEF PipesInv

\* A step of one thread that leaves the table alone.
LEMMA ThreadSteps ==
    ASSUME PipesInv, NEW t \in Pipes!LibThreads, NEW r, Sound(t, r),
           th' = [th EXCEPT ![t] = r],
           th[t].op = "close" => r.op = "close" /\ r.fd = th[t].fd,
           r.op \in {"create", "close"} => r.op = th[t].op /\ r.fd = th[t].fd,
           UNCHANGED <<is_polling_set, poll_fd, InternalHigh, owner, next_fd, open, ready>>
    PROVE  PipesInv'
<1>1. Tables'
  BY DEF PipesInv, Tables, Pipes!Slots
<1>2. ThreadStates' = ThreadStates /\ th' \in [Pipes!LibThreads -> ThreadStates]
  BY DEF PipesInv, ThreadStates, Sound, Pipes!Slots
<1>3. /\ th'[t] = r /\ \A u \in Pipes!LibThreads : u # t => th'[u] = th[u]
  BY DEF PipesInv
<1>4. Apart' /\ Leftovers'
  BY <1>3 DEF PipesInv, Apart, Leftovers, Pipes!Slots
<1>5. ASSUME NEW u \in Pipes!LibThreads PROVE Sound(u, th[u])'
  <2>1. Sound(u, th'[u])
    BY <1>3 DEF PipesInv
  <2> QED BY <2>1, <1>2 DEF Sound, Creates, Closes, Uses, Pipes!Slots, Pipes!Idle
<1> QED BY <1>1, <1>2, <1>4, <1>5 DEF PipesInv, Pipes!LibThreads
-----------------------------------------------------------------------------
(* Looking for a slot                                                      *)

\* What a step leaves alone when it only moves its thread.
Still == UNCHANGED <<is_polling_set, poll_fd, InternalHigh, owner, next_fd, open, ready>>

LEMMA CheckInitKeeps ==
    ASSUME PipesInv, NEW t \in Pipes!LibThreads, Pipes!CheckInit(t) PROVE PipesInv'
<1> DEFINE at == IF is_polling_set THEN "scan" ELSE "init"
           r == [th[t] EXCEPT !.at = at, !.i = 1]
<1>1. th' = [th EXCEPT ![t] = r] /\ Still /\ th[t] \in ThreadStates
  BY DEF Pipes!CheckInit, Pipes!table, Still, PipesInv
<1>2. at \in {"init", "scan"} /\ (at = "scan" => is_polling_set)
  OBVIOUS
<1> HIDE DEF at
<1>3. /\ r.at = at /\ r.i = 1 /\ r \in ThreadStates
      /\ r.op = th[t].op /\ r.fd = th[t].fd /\ r.watch = th[t].watch
  BY <1>1, <1>2 DEF ThreadStates
<1> HIDE DEF r
<1>4. Sound(t, r)
  BY <1>2, <1>3 DEF PipesInv, Sound, Creates, Closes, Uses, Pipes!Slots, Pipes!CheckInit
<1> QED BY <1>1, <1>3, <1>4, ThreadSteps DEF Still

LEMMA ScanKeeps ==
    ASSUME PipesInv, NEW t \in Pipes!LibThreads, Pipes!Scan(t) PROVE PipesInv'
<1>1. /\ Still /\ th[t] \in ThreadStates /\ th[t].at = "scan"
      /\ th[t].i \in Nat \ {0} /\ th[t].i <= MAX_FDS
  BY DEF Pipes!Scan, Pipes!table, Still, PipesInv, Sound, ThreadStates
<1>2. CASE poll_fd[th[t].i] = Pipes!Wanted(t)
  <2> DEFINE r == [th[t] EXCEPT !.at = "enter"]
  <2>1. /\ th' = [th EXCEPT ![t] = r]
        /\ r \in ThreadStates /\ r.at = "enter" /\ r.i = th[t].i
        /\ r.op = th[t].op /\ r.fd = th[t].fd /\ r.watch = th[t].watch
    BY <1>1, <1>2 DEF Pipes!Scan, ThreadStates
  <2> HIDE DEF r
  <2>2. Closes(r)
    <3> SUFFICES ASSUME th[t].op = "close" PROVE Closes(r)
      BY <2>1 DEF Closes
    <3>1. poll_fd[th[t].i] = th[t].fd /\ th[t].i \in Pipes!Slots
      BY <1>1, <1>2, SlotsAssumption DEF Pipes!Wanted, Pipes!Slots
    <3> QED BY <2>1, <3>1 DEF PipesInv, Sound, Closes
  <2>3. Sound(t, r)
    BY <1>1, <2>1, <2>2 DEF PipesInv, Sound, Creates, Uses
  <2> QED BY <1>1, <2>1, <2>3, ThreadSteps DEF Still
<1>3. CASE poll_fd[th[t].i] # Pipes!Wanted(t)
  <2> DEFINE r == [th[t] EXCEPT !.i = @ + 1]
  <2>1. /\ th' = [th EXCEPT ![t] = r]
        /\ r \in ThreadStates /\ r.at = "scan" /\ r.i = th[t].i + 1
        /\ r.op = th[t].op /\ r.fd = th[t].fd /\ r.watch = th[t].watch
    BY <1>1, <1>3 DEF Pipes!Scan, ThreadStates
  <2> HIDE DEF r
  <2>2. Closes(r)
    <3> SUFFICES ASSUME th[t].op = "close" PROVE Closes(r)
      BY <2>1 DEF Closes
    <3>1. PICK j \in Pipes!Slots : poll_fd[j] = th[t].fd /\ th[t].i <= j
      BY <1>1 DEF PipesInv, Sound, Closes
    <3>2. j # th[t].i /\ j \in Int
      BY <1>3, <3>1 DEF Pipes!Wanted, Pipes!Slots
    <3>3. r.i <= j
      BY <1>1, <2>1, <3>1, <3>2
    <3> QED BY <2>1, <3>1, <3>3 DEF PipesInv, Sound, Closes
  <2>3. Sound(t, r)
    BY <1>1, <2>1, <2>2 DEF PipesInv, Sound, Creates, Uses
  <2> QED BY <1>1, <2>1, <2>3, ThreadSteps DEF Still
<1> QED BY <1>2, <1>3

LEMMA ChangedMeanwhileKeeps ==
    ASSUME PipesInv, NEW t \in Pipes!LibThreads, Pipes!ChangedMeanwhile(t) PROVE PipesInv'
<1> DEFINE r == [th[t] EXCEPT !.at = "scan", !.i = @ + 1]
<1>1. /\ Still /\ th[t] \in ThreadStates /\ th[t].at = "enter"
      /\ poll_fd[th[t].i] # Pipes!Wanted(t) /\ th' = [th EXCEPT ![t] = r]
  BY DEF Pipes!ChangedMeanwhile, Pipes!Entered, Pipes!table, Still, PipesInv
<1>2. /\ r.at = "scan" /\ r.i = th[t].i + 1
      /\ r.op = th[t].op /\ r.fd = th[t].fd /\ r.watch = th[t].watch
  BY <1>1 DEF ThreadStates
<1>5. r \in ThreadStates
  <2>1. th[t].i + 1 \in Nat
    BY <1>1 DEF ThreadStates
  <2> QED BY <1>1, <2>1 DEF ThreadStates
<1> HIDE DEF r
<1>3. th[t].op # "close"
  BY <1>1 DEF PipesInv, Sound, Closes, Pipes!Wanted
<1>4. Sound(t, r)
  BY <1>1, <1>2, <1>3, <1>5 DEF PipesInv, Sound, Creates, Closes, Uses, ThreadStates
<1> QED BY <1>1, <1>2, <1>4, ThreadSteps DEF Still

\* A thread that has nothing more to do with the table: nothing was found, or
\* the wait is over.
LEMMA IdleIsSound == ASSUME PipesInv, NEW t PROVE Sound(t, Pipes!Idle)
<1>1. Pipes!Idle \in ThreadStates
  BY DEF PipesInv, Tables, ThreadStates, Pipes!Idle
<1> QED BY <1>1 DEF Sound, Creates, Closes, Uses, Pipes!Idle

LEMMA GivesUpKeeps ==
    ASSUME PipesInv, NEW t \in Pipes!LibThreads, Pipes!NotFound(t) \/ Pipes!PollTimesOut(t)
    PROVE  PipesInv'
<1>1. Still /\ th' = [th EXCEPT ![t] = Pipes!Idle]
  BY DEF Pipes!NotFound, Pipes!PollTimesOut, Pipes!table, Still
<1>2. th[t].op # "close"
  <2>1. CASE th[t].at = "scan" /\ th[t].i > MAX_FDS
    <3>1. th[t].i \in Nat /\ \A j \in Pipes!Slots : ~(th[t].i <= j)
      BY <2>1, SlotsAssumption DEF PipesInv, ThreadStates, Pipes!Slots
    <3> QED BY <2>1, <3>1 DEF PipesInv, Sound, Closes
  <2>2. CASE th[t].at = "wait"
    BY <2>2 DEF PipesInv, Sound
  <2> QED BY <2>1, <2>2 DEF Pipes!NotFound, Pipes!PollTimesOut
<1>3. Sound(t, Pipes!Idle) /\ Pipes!Idle.op = "none"
  BY IdleIsSound DEF Pipes!Idle
<1> QED BY <1>1, <1>2, <1>3, ThreadSteps DEF Still
-----------------------------------------------------------------------------
(* Calls                                                                   *)

Call(op, fd, left) ==
    [at |-> "check", op |-> op, fd |-> fd, i |-> 0, left |-> left, watch |-> {}]

LEMMA CallBegins ==
    ASSUME PipesInv, NEW t \in Pipes!LibThreads, NEW op, NEW fd, NEW left,
           Pipes!Calls(t, op, fd, left)
    PROVE  /\ th[t].op = "none" /\ th' = [th EXCEPT ![t] = Call(op, fd, left)]
           /\ th'[t] = Call(op, fd, left)
           /\ \A u \in Pipes!LibThreads : u # t => th'[u] = th[u]
<1>1. th[t] = Pipes!Idle
  BY DEF Pipes!Calls, PipesInv, Sound
<1>2. th' = [th EXCEPT ![t] = Call(op, fd, left)]
  BY DEF Pipes!Calls, Call
<1> QED BY <1>1, <1>2 DEF Pipes!Idle, PipesInv

LEMMA WriteKeeps ==
    ASSUME PipesInv, NEW t \in Pipes!LibThreads, NEW fd \in open, Pipes!Write(t, fd)
    PROVE  PipesInv'
<1>1. Still /\ th[t].op = "none" /\ th' = [th EXCEPT ![t] = Call("write", fd, {})]
  BY CallBegins DEF Pipes!Write, Pipes!table, Still
<1>2. Call("write", fd, {}) \in ThreadStates
  BY DEF Call, ThreadStates, PipesInv, Tables
<1>3. Sound(t, Call("write", fd, {}))
  BY <1>2 DEF Call, Sound, Creates, Closes, Uses
<1> QED BY <1>1, <1>3, ThreadSteps DEF Still, Call

LEMMA CreateKeeps ==
    ASSUME PipesInv, NEW t \in Pipes!LibThreads, Pipes!Create(t) PROVE PipesInv'
<1> DEFINE r == Call("create", next_fd, {})
<1>1. /\ th[t].op = "none" /\ th' = [th EXCEPT ![t] = r] /\ th'[t] = r
      /\ \A u \in Pipes!LibThreads : u # t => th'[u] = th[u]
      /\ next_fd' = next_fd + 1
      /\ UNCHANGED <<is_polling_set, poll_fd, InternalHigh, owner, open, ready>>
  BY CallBegins DEF Pipes!Create, Pipes!table
<1>2. 0..(next_fd - 1) \subseteq 0..(next_fd' - 1) /\ 1..(next_fd - 1) \subseteq 1..(next_fd' - 1)
      /\ next_fd \in 0..(next_fd' - 1) /\ next_fd # 0 /\ next_fd \notin 0..(next_fd - 1)
      /\ next_fd' \in Nat \ {0} /\ next_fd \notin open
  BY <1>1 DEF PipesInv, Tables
<1>3. Tables'
  BY <1>1, <1>2 DEF PipesInv, Tables, Pipes!Slots
<1>4. ThreadStates \subseteq ThreadStates' /\ r \in ThreadStates'
  BY <1>1, <1>2 DEF ThreadStates, Call, Pipes!Slots
<1>5. th' \in [Pipes!LibThreads -> ThreadStates']
  BY <1>1, <1>4 DEF PipesInv
<1>6. Apart' /\ Leftovers'
  <2>1. \A u \in Pipes!LibThreads : th[u].fd # next_fd
    BY <1>2 DEF PipesInv, ThreadStates
  <2>2. r.op = "create" /\ r.fd = next_fd
    BY DEF Call
  <2> QED BY <1>1, <2>1, <2>2 DEF PipesInv, Apart, Leftovers, Pipes!Slots
<1>7. ASSUME NEW u \in Pipes!LibThreads PROVE Sound(u, th[u])'
  <2>1. CASE u = t
    <3>1. \A i \in Pipes!Slots : poll_fd[i] # next_fd
      BY <1>2 DEF PipesInv, Tables
    <3> QED BY <1>1, <1>2, <1>4, <2>1, <3>1 DEF Sound, Creates, Closes, Uses, Call, Pipes!Slots
  <2>2. CASE u # t
    <3>1. Sound(u, th'[u])
      BY <1>1, <2>2 DEF PipesInv
    <3> QED BY <1>1, <1>4, <3>1 DEF Sound, Creates, Closes, Uses, Pipes!Slots, Pipes!Idle
  <2> QED BY <2>1, <2>2
<1> QED BY <1>3, <1>5, <1>6, <1>7 DEF PipesInv, Pipes!LibThreads

LEMMA CloseKeeps ==
    ASSUME PipesInv, NEW t \in Pipes!LibThreads, NEW fd \in open, Pipes!Close(t, fd)
    PROVE  PipesInv'
<1> DEFINE r == Call("close", fd, {})
<1>1. /\ th[t].op = "none" /\ th' = [th EXCEPT ![t] = r] /\ th'[t] = r
      /\ \A u \in Pipes!LibThreads : u # t => th'[u] = th[u]
      /\ open' = open \ {fd} /\ ~Pipes!InUse(fd)
      /\ UNCHANGED <<is_polling_set, poll_fd, InternalHigh, owner, next_fd, ready>>
  BY CallBegins DEF Pipes!Close, Pipes!table
<1>2. /\ fd \notin ready /\ fd # 0 /\ fd \in 0..(next_fd - 1)
      /\ \A u \in Pipes!LibThreads : /\ th[u].fd # fd /\ fd \notin th[u].left
                                     /\ \A i \in th[u].watch : poll_fd[i] # fd
  BY <1>1 DEF PipesInv, Tables, Pipes!InUse
<1>3. Tables'
  BY <1>1, <1>2 DEF PipesInv, Tables, Pipes!Slots
<1>4. r \in ThreadStates'
  BY <1>1, <1>2 DEF ThreadStates, Call, Pipes!Slots
<1>5. \A u \in Pipes!LibThreads : th[u] \in ThreadStates'
  BY <1>1, <1>2 DEF ThreadStates, PipesInv, Pipes!Slots
<1>6. th' \in [Pipes!LibThreads -> ThreadStates']
  BY <1>1, <1>4, <1>5 DEF PipesInv
<1>7. r.op = "close" /\ r.fd = fd
  BY DEF Call
<1>8. Apart' /\ Leftovers'
  BY <1>1, <1>2, <1>7 DEF PipesInv, Apart, Leftovers, Pipes!Slots
<1>9. ASSUME NEW u \in Pipes!LibThreads PROVE Sound(u, th[u])'
  <2>1. CASE u = t
    <3>1. \E j \in Pipes!Slots : poll_fd[j] = fd
      BY DEF PipesInv, Tables
    <3> QED BY <1>1, <1>2, <1>4, <2>1, <3>1 DEF Sound, Creates, Closes, Uses, Call, Pipes!Slots
  <2>2. CASE u # t
    <3>1. Sound(u, th'[u]) /\ th'[u] = th[u]
      BY <1>1, <2>2 DEF PipesInv
    <3>2. th'[u].fd # fd /\ \A i \in th'[u].watch : poll_fd[i] # fd
      BY <1>2, <3>1
    <3> QED BY <1>1, <1>5, <3>1, <3>2 DEF Sound, Creates, Closes, Uses, Pipes!Slots, Pipes!Idle
  <2> QED BY <2>1, <2>2
<1> QED BY <1>3, <1>6, <1>8, <1>9 DEF PipesInv, Pipes!LibThreads

\* A step of the event thread: what it finds ready has been written to.
LEMMA EventThreadSteps ==
    ASSUME PipesInv, EventThread \in Pipes!LibThreads, NEW r, Sound(EventThread, r)',
           th' = [th EXCEPT ![EventThread] = r],
           th[EventThread].op \notin {"create", "close"}, r.op \notin {"create", "close"},
           ready' \subseteq open,
           \A i \in Pipes!Slots : poll_fd[i] \in ready' => InternalHigh[i] > 0,
           UNCHANGED <<is_polling_set, poll_fd, InternalHigh, owner, next_fd, open>>
    PROVE  PipesInv'
<1>1. Tables'
  BY DEF PipesInv, Tables, Pipes!Slots
<1>2. ThreadStates' = ThreadStates /\ th' \in [Pipes!LibThreads -> ThreadStates]
  BY DEF PipesInv, ThreadStates, Sound, Pipes!Slots
<1>3. th'[EventThread] = r /\ \A u \in Pipes!LibThreads : u # EventThread => th'[u] = th[u]
  BY DEF PipesInv
<1>4. Apart' /\ Leftovers'
  BY <1>3 DEF PipesInv, Apart, Leftovers, Pipes!Slots
<1>5. ASSUME NEW u \in Pipes!LibThreads, u # EventThread PROVE Sound(u, th[u])'
  <2>1. Sound(u, th'[u])
    BY <1>3, <1>5 DEF PipesInv
  <2> QED BY <2>1, <1>2, <1>5 DEF Sound, Creates, Closes, Uses, Pipes!Slots, Pipes!Idle
<1>6. Sound(EventThread, th[EventThread])'
  BY <1>3
<1> QED BY <1>1, <1>2, <1>4, <1>5, <1>6 DEF PipesInv, Pipes!LibThreads

LEMMA PollKeeps ==
    ASSUME PipesInv, NEW t \in Pipes!LibThreads, Pipes!Poll(t) PROVE PipesInv'
<1>1. PICK fd \in open : Pipes!Calls(t, "poll", fd, open \ {fd})
  BY DEF Pipes!Poll
<1>2. Still /\ t = EventThread
  BY DEF Pipes!Poll, Pipes!table, Still
<1> DEFINE r == Call("poll", fd, open \ {fd})
<1>3. th[t].op = "none" /\ th' = [th EXCEPT ![t] = r]
  BY <1>1, CallBegins
<1>4. r \in ThreadStates
  BY DEF Call, ThreadStates, PipesInv, Tables
<1>5. Sound(t, r)
  BY <1>2, <1>4 DEF Call, Sound, Creates, Closes, Uses
<1> QED BY <1>2, <1>3, <1>5, ThreadSteps DEF Still, Call

LEMMA ReadKeeps ==
    ASSUME PipesInv, NEW t \in Pipes!LibThreads, NEW fd, Pipes!Read(t, fd) PROVE PipesInv'
<1> DEFINE r == Call("read", fd, {})
<1>1. /\ th[t].op = "none" /\ th' = [th EXCEPT ![t] = r]
      /\ t = EventThread /\ fd \in ready /\ ready' = ready \ {fd}
      /\ UNCHANGED <<is_polling_set, poll_fd, InternalHigh, owner, next_fd, open>>
  BY CallBegins DEF Pipes!Read, Pipes!table
<1>2. r \in ThreadStates' /\ fd \in open
  BY <1>1 DEF Call, ThreadStates, PipesInv, Tables, Pipes!Slots
<1>3. \A i \in Pipes!Slots : poll_fd[i] \in ready => InternalHigh[i] > 0
  BY DEF PipesInv, Tables
<1>4. Sound(t, r)'
  BY <1>1, <1>2, <1>3 DEF Call, Sound, Creates, Closes, Uses, Pipes!Slots
<1>5. ready' \subseteq open /\ r.op = "read"
  BY <1>1 DEF PipesInv, Tables, Call
<1> HIDE DEF r
<1> QED BY <1>1, <1>3, <1>4, <1>5, EventThreadSteps

-----------------------------------------------------------------------------
(* Initialisation and its undoing                                          *)

LEMMA InitPollingKeeps ==
    ASSUME PipesInv, NEW t \in Pipes!LibThreads, Pipes!InitPolling(t) PROVE PipesInv'
<1> DEFINE r == [th[t] EXCEPT !.at = "scan"]
<1>1. /\ th[t].at = "init" /\ th' = [th EXCEPT ![t] = r] /\ is_polling_set' = TRUE
      /\ UNCHANGED <<owner, next_fd, open, ready>>
  BY DEF Pipes!InitPolling
<1>2. UNCHANGED <<poll_fd, InternalHigh>>
  BY DEF Pipes!InitPolling, Pipes!table, PipesInv, Tables
<1>3. /\ r \in ThreadStates /\ r.at = "scan" /\ r.i = th[t].i /\ r.op = th[t].op
      /\ r.fd = th[t].fd /\ r.watch = th[t].watch
  BY DEF PipesInv, ThreadStates
<1> HIDE DEF r
<1>4. Tables'
  BY <1>1, <1>2 DEF PipesInv, Tables, Pipes!Slots
<1>5. ThreadStates' = ThreadStates /\ th' \in [Pipes!LibThreads -> ThreadStates]
  BY <1>1, <1>2, <1>3 DEF PipesInv, ThreadStates, Pipes!Slots
<1>6. th'[t] = r /\ \A u \in Pipes!LibThreads : u # t => th'[u] = th[u]
  BY <1>1 DEF PipesInv
<1>7. Apart' /\ Leftovers'
  BY <1>1, <1>2, <1>3, <1>6 DEF PipesInv, Apart, Leftovers, Pipes!Slots
<1>8. ASSUME NEW u \in Pipes!LibThreads PROVE Sound(u, th[u])'
  <2>1. Sound(u, th[u]) /\ Sound(t, th[t])
    BY DEF PipesInv
  <2>2. CASE u = t
    BY <1>1, <1>2, <1>3, <1>5, <1>6, <2>1, <2>2
       DEF Sound, Creates, Closes, Uses, Pipes!Slots, Pipes!Idle
  <2>3. CASE u # t
    BY <1>1, <1>2, <1>5, <1>6, <2>1, <2>3 DEF Sound, Creates, Closes, Uses, Pipes!Slots, Pipes!Idle
  <2> QED BY <2>2, <2>3
<1> QED BY <1>4, <1>5, <1>7, <1>8 DEF PipesInv, Pipes!LibThreads

LEMMA ExitPollingKeeps == ASSUME PipesInv, Pipes!ExitPolling PROVE PipesInv'
<1>1. /\ is_polling_set' = FALSE /\ open' = {} /\ ready' = {}
      /\ poll_fd' = [i \in Pipes!Slots |-> 0] /\ InternalHigh' = [i \in Pipes!Slots |-> 0]
      /\ UNCHANGED <<owner, next_fd, th>>
      /\ \A t \in Pipes!LibThreads : th[t].at = "idle"
  BY DEF Pipes!ExitPolling
<1>2. Tables'
  <2>1. 0 \in 0..(next_fd' - 1) /\ next_fd' \in Nat \ {0}
    BY <1>1 DEF PipesInv, Tables
  <2>2. \A i \in Pipes!Slots : poll_fd'[i] = 0
    BY <1>1
  <2>3. /\ poll_fd' \in [Pipes!Slots -> 0..(next_fd' - 1)]
        /\ InternalHigh' \in [Pipes!Slots -> Nat]
        /\ owner' = [i \in Pipes!Slots |-> "none"]
    BY <1>1, <2>1 DEF PipesInv, Tables
  <2> QED BY <1>1, <2>1, <2>2, <2>3 DEF Tables, Pipes!Slots
<1>3. \A t \in Pipes!LibThreads : th[t] = Pipes!Idle
  BY <1>1 DEF PipesInv, Sound
<1>4. Pipes!Idle \in ThreadStates'
  BY <1>1 DEF PipesInv, Tables, ThreadStates, Pipes!Idle
<1>5. th' \in [Pipes!LibThreads -> ThreadStates']
  BY <1>1, <1>3, <1>4 DEF PipesInv
<1>6. Apart' /\ Leftovers'
  BY <1>1, <1>3 DEF Apart, Leftovers, Pipes!Idle, Pipes!Slots
<1>7. \A t \in Pipes!LibThreads : Sound(t, th[t])'
  BY <1>1, <1>3, <1>4 DEF Sound, Creates, Closes, Uses, Pipes!Idle
<1> QED BY <1>2, <1>5, <1>6, <1>7 DEF PipesInv, Pipes!LibThreads

-----------------------------------------------------------------------------
(* With the slot locked                                                    *)

\* Where a thread is once it has locked a slot that holds what it looks for.
LEMMA InSlot ==
    ASSUME PipesInv, NEW t \in Pipes!LibThreads, Pipes!Entered(t)
    PROVE  th[t].i \in Pipes!Slots /\ is_polling_set /\ Sound(t, th[t]) /\ th[t] \in ThreadStates
<1> QED BY SlotsAssumption DEF PipesInv, Sound, Pipes!Entered, ThreadStates, Pipes!Slots

LEMMA CreatedKeeps ==
    ASSUME PipesInv, NEW t \in Pipes!LibThreads, Pipes!Created(t) PROVE PipesInv'
<1> DEFINE i == th[t].i
           fd == th[t].fd
<1>1. /\ i \in Pipes!Slots /\ is_polling_set /\ th[t].op = "create" /\ poll_fd[i] = 0
      /\ fd # 0 /\ fd \notin open /\ fd \in 0..(next_fd - 1)
      /\ \A k \in Pipes!Slots : poll_fd[k] # fd
  BY InSlot DEF Pipes!Created, Pipes!Wanted, Sound, Creates, ThreadStates
<1>2. /\ poll_fd' = [poll_fd EXCEPT ![i] = fd] /\ InternalHigh' = [InternalHigh EXCEPT ![i] = 0]
      /\ open' = open \cup {fd} /\ th' = [th EXCEPT ![t] = Pipes!Idle]
      /\ UNCHANGED <<is_polling_set, owner, next_fd, ready>>
  BY DEF Pipes!Created
<1>3. /\ poll_fd'[i] = fd /\ \A k \in Pipes!Slots : k # i => poll_fd'[k] = poll_fd[k]
      /\ \A k \in Pipes!Slots : k # i => InternalHigh'[k] = InternalHigh[k]
      /\ poll_fd' \in [Pipes!Slots -> 0..(next_fd - 1)] /\ InternalHigh' \in [Pipes!Slots -> Nat]
  BY <1>1, <1>2 DEF PipesInv, Tables
<1>4. th'[t] = Pipes!Idle /\ \A u \in Pipes!LibThreads : u # t => th'[u] = th[u]
  BY <1>2 DEF PipesInv
<1> HIDE DEF i, fd
<1>5. fd \in 1..(next_fd - 1)
  BY <1>1 DEF PipesInv, Tables
<1>6. Tables'
  BY <1>1, <1>2, <1>3, <1>5 DEF PipesInv, Tables, Pipes!Slots
<1>7. ThreadStates \subseteq ThreadStates' /\ Pipes!Idle \in ThreadStates
  BY <1>2, IdleIsSound DEF ThreadStates, Pipes!Slots, Sound
<1>8. th' \in [Pipes!LibThreads -> ThreadStates']
  BY <1>2, <1>7 DEF PipesInv
<1>9. Apart' /\ Leftovers'
  BY <1>1, <1>2, <1>3, <1>4 DEF PipesInv, Apart, Leftovers, Pipes!Slots, Pipes!Idle
<1>10. ASSUME NEW u \in Pipes!LibThreads PROVE Sound(u, th[u])'
  <2>1. CASE u = t
    BY <1>4, <1>7, <2>1 DEF Sound, Creates, Closes, Uses, Pipes!Idle
  <2>2. CASE u # t
    <3>1. Sound(u, th'[u]) /\ th'[u] = th[u]
      BY <1>4, <2>2 DEF PipesInv
    <3>2. th'[u].op \in {"create", "close"} => th'[u].fd # fd
      <4>1. th[u].op = "create" => th[u].fd # fd
        BY <1>1, <2>2 DEF PipesInv, Apart, fd
      <4>2. th[u].op = "close" => th[u].fd # fd
        BY <1>1, <3>1 DEF Sound, Closes
      <4> QED BY <3>1, <4>1, <4>2
    <3>3. Creates(th[u])' /\ Closes(th[u])'
      BY <1>1, <1>2, <1>3, <3>1, <3>2 DEF Sound, Creates, Closes, Pipes!Slots
    <3>4. Uses(u, th[u])'
      <4>1. \A k \in th'[u].watch : k \in Pipes!Slots
        BY <3>1 DEF Sound, ThreadStates
      <4>2. 0 \notin open /\ ready \subseteq open
        BY DEF PipesInv, Tables
      <4> QED BY <1>1, <1>2, <1>3, <3>1, <4>1, <4>2 DEF Sound, Uses, Pipes!Slots
    <3> QED BY <1>2, <1>7, <3>1, <3>3, <3>4 DEF Sound, Pipes!Idle
  <2> QED BY <2>1, <2>2
<1> QED BY <1>6, <1>8, <1>9, <1>10 DEF PipesInv, Pipes!LibThreads

LEMMA ClosedKeeps ==
    ASSUME PipesInv, NEW t \in Pipes!LibThreads, Pipes!Closed(t) PROVE PipesInv'
<1> DEFINE i == th[t].i
           fd == th[t].fd
<1>1. /\ i \in Pipes!Slots /\ is_polling_set /\ th[t].op = "close" /\ poll_fd[i] = fd
      /\ fd # 0 /\ fd \notin open
  BY InSlot DEF Pipes!Closed, Pipes!Wanted, Sound, Closes
<1>2. /\ poll_fd' = [poll_fd EXCEPT ![i] = 0] /\ InternalHigh' = [InternalHigh EXCEPT ![i] = 0]
      /\ th' = [th EXCEPT ![t] = Pipes!Idle]
      /\ UNCHANGED <<is_polling_set, owner, next_fd, open, ready>>
  BY DEF Pipes!Closed
<1>3. /\ poll_fd'[i] = 0 /\ \A k \in Pipes!Slots : k # i => poll_fd'[k] = poll_fd[k]
      /\ \A k \in Pipes!Slots : k # i => InternalHigh'[k] = InternalHigh[k]
      /\ poll_fd' \in [Pipes!Slots -> 0..(next_fd - 1)] /\ InternalHigh' \in [Pipes!Slots -> Nat]
  <2>1. 0 \in 0..(next_fd - 1)
    BY DEF PipesInv, Tables
  <2> QED BY <1>1, <1>2, <2>1 DEF PipesInv, Tables
<1>4. th'[t] = Pipes!Idle /\ \A u \in Pipes!LibThreads : u # t => th'[u] = th[u]
  BY <1>2 DEF PipesInv
<1> HIDE DEF i
<1>5. 0 \notin open /\ ready \subseteq open /\ \A k \in Pipes!Slots : k # i => poll_fd[k] # fd
  BY <1>1 DEF PipesInv, Tables
<1>6. Tables'
  BY <1>1, <1>2, <1>3, <1>5 DEF PipesInv, Tables, Pipes!Slots
<1>7. ThreadStates' = ThreadStates /\ Pipes!Idle \in ThreadStates
  BY <1>2, IdleIsSound DEF ThreadStates, Pipes!Slots, Sound
<1>8. th' \in [Pipes!LibThreads -> ThreadStates']
  BY <1>2, <1>7 DEF PipesInv
<1>9. Apart' /\ Leftovers'
  BY <1>1, <1>2, <1>3, <1>4, <1>5 DEF PipesInv, Apart, Leftovers, Pipes!Slots, Pipes!Idle
<1>10. ASSUME NEW u \in Pipes!LibThreads PROVE Sound(u, th[u])'
  <2>1. CASE u = t
    BY <1>4, <1>7, <2>1 DEF Sound, Creates, Closes, Uses, Pipes!Idle
  <2>2. CASE u # t
    <3>1. Sound(u, th'[u]) /\ th'[u] = th[u]
      BY <1>4, <2>2 DEF PipesInv
    <3>2. th'[u].op = "close" => th'[u].fd # fd
      BY <1>1, <2>2, <3>1 DEF PipesInv, Apart
    <3>3. Creates(th[u])' /\ Closes(th[u])'
      BY <1>1, <1>2, <1>3, <3>1, <3>2 DEF Sound, Creates, Closes, Pipes!Slots
    <3>4. Uses(u, th[u])'
      <4>1. \A k \in th'[u].watch : k \in Pipes!Slots
        BY <3>1 DEF Sound, ThreadStates
      <4> QED BY <1>1, <1>2, <1>3, <1>5, <3>1, <4>1 DEF Sound, Uses, Pipes!Slots
    <3> QED BY <1>2, <1>7, <3>1, <3>3, <3>4 DEF Sound, Pipes!Idle
  <2> QED BY <2>1, <2>2
<1> QED BY <1>6, <1>8, <1>9, <1>10 DEF PipesInv, Pipes!LibThreads

LEMMA WrittenKeeps ==
    ASSUME PipesInv, NEW t \in Pipes!LibThreads, Pipes!Written(t) PROVE PipesInv'
<1> DEFINE i == th[t].i
<1>1. /\ i \in Pipes!Slots /\ th[t].op = "write"
      /\ InternalHigh' = [InternalHigh EXCEPT ![i] = @ + 1]
      /\ th' = [th EXCEPT ![t] = Pipes!Idle]
      /\ UNCHANGED <<is_polling_set, poll_fd, owner, next_fd, open, ready>>
  BY InSlot DEF Pipes!Written
<1>2. /\ InternalHigh' \in [Pipes!Slots -> Nat]
      /\ \A k \in Pipes!Slots : InternalHigh[k] > 0 => InternalHigh'[k] > 0
  BY <1>1 DEF PipesInv, Tables
<1>3. th'[t] = Pipes!Idle /\ \A u \in Pipes!LibThreads : u # t => th'[u] = th[u]
  BY <1>1 DEF PipesInv
<1>4. Tables'
  BY <1>1, <1>2 DEF PipesInv, Tables, Pipes!Slots
<1>5. ThreadStates' = ThreadStates /\ Pipes!Idle \in ThreadStates
  BY <1>1, IdleIsSound DEF ThreadStates, Pipes!Slots, Sound
<1>6. th' \in [Pipes!LibThreads -> ThreadStates']
  BY <1>1, <1>5 DEF PipesInv
<1>7. Apart' /\ Leftovers'
  BY <1>1, <1>3 DEF PipesInv, Apart, Leftovers, Pipes!Slots, Pipes!Idle
<1>8. ASSUME NEW u \in Pipes!LibThreads PROVE Sound(u, th[u])'
  <2>1. CASE u = t
    BY <1>3, <1>5, <2>1 DEF Sound, Creates, Closes, Uses, Pipes!Idle
  <2>2. CASE u # t
    <3>1. Sound(u, th'[u]) /\ th'[u] = th[u]
      BY <1>3, <2>2 DEF PipesInv
    <3> QED BY <1>1, <1>2, <1>5, <3>1 DEF Sound, Creates, Closes, Uses, Pipes!Slots, Pipes!Idle
  <2> QED BY <2>1, <2>2
<1> QED BY <1>4, <1>6, <1>7, <1>8 DEF PipesInv, Pipes!LibThreads

\* The slot read was written to, so the thread that reads it does not block.
LEMMA ReadDoneKeeps ==
    ASSUME PipesInv, NEW t \in Pipes!LibThreads, Pipes!ReadDone(t) PROVE PipesInv'
<1> DEFINE i == th[t].i
           fd == th[t].fd
<1>1. /\ i \in Pipes!Slots /\ th[t].op = "read" /\ t = EventThread
      /\ poll_fd[i] = fd /\ fd \notin ready /\ fd # 0 /\ InternalHigh[i] > 0
  <2>1. /\ i \in Pipes!Slots /\ th[t].op = "read" /\ poll_fd[i] = fd /\ Sound(t, th[t])
    BY InSlot DEF Pipes!ReadDone, Pipes!Wanted
  <2>2. fd \in open
    BY <2>1 DEF Sound, Uses, Pipes!ReadDone, Pipes!Entered
  <2> QED BY <2>1, <2>2 DEF Sound, Uses, PipesInv, Tables
<1>2. /\ InternalHigh' = [InternalHigh EXCEPT ![i] = @ - 1]
      /\ th' = [th EXCEPT ![t] = Pipes!Idle]
      /\ UNCHANGED <<is_polling_set, poll_fd, owner, next_fd, open, ready>>
  BY <1>1 DEF Pipes!ReadDone, Pipes!AfterRead
<1>3. /\ InternalHigh' \in [Pipes!Slots -> Nat]
      /\ \A k \in Pipes!Slots : k # i => InternalHigh'[k] = InternalHigh[k]
  BY <1>1, <1>2 DEF PipesInv, Tables
<1>4. th'[t] = Pipes!Idle /\ \A u \in Pipes!LibThreads : u # t => th'[u] = th[u]
  BY <1>2 DEF PipesInv
<1>5. Tables'
  BY <1>1, <1>2, <1>3 DEF PipesInv, Tables, Pipes!Slots
<1>6. ThreadStates' = ThreadStates /\ Pipes!Idle \in ThreadStates
  BY <1>2, IdleIsSound DEF ThreadStates, Pipes!Slots, Sound
<1>7. th' \in [Pipes!LibThreads -> ThreadStates']
  BY <1>2, <1>6 DEF PipesInv
<1>8. Apart' /\ Leftovers'
  BY <1>1, <1>2, <1>4 DEF PipesInv, Apart, Leftovers, Pipes!Slots, Pipes!Idle
<1>9. ASSUME NEW u \in Pipes!LibThreads PROVE Sound(u, th[u])'
  <2>1. CASE u = t
    BY <1>4, <1>6, <2>1 DEF Sound, Creates, Closes, Uses, Pipes!Idle
  <2>2. CASE u # t
    <3>1. Sound(u, th'[u]) /\ th'[u] = th[u]
      BY <1>4, <2>2 DEF PipesInv
    <3>2. th'[u].op # "read"
      BY <1>1, <2>2, <3>1 DEF Sound, Uses
    <3> QED BY <1>2, <1>6, <3>1, <3>2 DEF Sound, Creates, Closes, Uses, Pipes!Slots, Pipes!Idle
  <2> QED BY <2>1, <2>2
<1> QED BY <1>5, <1>7, <1>8, <1>9 DEF PipesInv, Pipes!LibThreads

LEMMA PollReturnsKeeps ==
    ASSUME PipesInv, NEW t \in Pipes!LibThreads, Pipes!PollReturns(t) PROVE PipesInv'
<1>1. PICK i \in th[t].watch : InternalHigh[i] > 0 /\ ready' = {poll_fd[i]}
  BY DEF Pipes!PollReturns
<1>2. /\ th[t].at = "wait" /\ th' = [th EXCEPT ![t] = Pipes!Idle]
      /\ UNCHANGED <<is_polling_set, poll_fd, InternalHigh, owner, next_fd, open>>
  BY DEF Pipes!PollReturns, Pipes!table
<1>3. th[t].op = "poll" /\ t = EventThread /\ poll_fd[i] \in open /\ i \in Pipes!Slots
  BY <1>2 DEF PipesInv, Sound, Uses, ThreadStates
<1>4. \A k \in Pipes!Slots : poll_fd[k] \in ready' => InternalHigh[k] > 0
  BY <1>1, <1>3 DEF PipesInv, Tables
<1>5. Pipes!Idle \in ThreadStates' /\ Pipes!Idle.op = "none"
  BY <1>2, IdleIsSound DEF ThreadStates, Pipes!Slots, Sound, Pipes!Idle
<1>6. Sound(EventThread, Pipes!Idle)'
  BY <1>5 DEF Sound, Creates, Closes, Uses, Pipes!Idle
<1> QED BY <1>1, <1>2, <1>3, <1>4, <1>5, <1>6, EventThreadSteps

\* What poll finds in one slot.
LEMMA PolledKeeps ==
    ASSUME PipesInv, NEW t \in Pipes!LibThreads, Pipes!Polled(t) PROVE PipesInv'
<1> DEFINE i == th[t].i
           hit == InternalHigh[i] > 0
           watch == IF hit THEN th[t].watch ELSE th[t].watch \cup {i}
<1>1. /\ i \in Pipes!Slots /\ th[t].op = "poll" /\ t = EventThread
      /\ poll_fd[i] = th[t].fd /\ th[t].fd \in open /\ is_polling_set
      /\ th[t] \in ThreadStates /\ Sound(t, th[t])
  <2>1. /\ i \in Pipes!Slots /\ th[t].op = "poll" /\ poll_fd[i] = th[t].fd /\ Sound(t, th[t])
        /\ is_polling_set /\ th[t] \in ThreadStates
    BY InSlot DEF Pipes!Polled, Pipes!Wanted
  <2> QED BY <2>1 DEF Sound, Uses, Pipes!Polled, Pipes!Entered
<1>2. /\ ready' = IF hit THEN ready \cup {th[t].fd} ELSE ready
      /\ UNCHANGED <<is_polling_set, poll_fd, InternalHigh, owner, next_fd, open>>
  BY DEF Pipes!Polled, Pipes!table
<1>3. ready' \subseteq open /\ \A k \in Pipes!Slots : poll_fd[k] \in ready' => InternalHigh[k] > 0
  <2>1. ready \subseteq open /\ th[t].fd # 0 /\ ready' \subseteq open
    <3>1. ready \subseteq open /\ open \subseteq 1..(next_fd - 1)
      BY DEF PipesInv, Tables
    <3>2. th[t].fd # 0
      BY <1>1, <3>1
    <3>3. ready' \subseteq ready \cup {th[t].fd}
      BY <1>2
    <3> QED BY <1>1, <3>1, <3>2, <3>3
  <2>2. ASSUME NEW k \in Pipes!Slots, poll_fd[k] \in ready' PROVE InternalHigh[k] > 0
    <3>1. CASE poll_fd[k] \in ready
      BY <3>1 DEF PipesInv, Tables
    <3>2. CASE poll_fd[k] = th[t].fd /\ hit
      BY <1>1, <2>1, <3>2 DEF PipesInv, Tables
    <3> QED BY <1>2, <2>2, <3>1, <3>2
  <2> QED BY <2>1, <2>2
<1>4. watch \subseteq Pipes!Slots /\ \A k \in watch : poll_fd[k] \in open
  BY <1>1 DEF Sound, Uses, ThreadStates
<1>5. ThreadStates' = ThreadStates
  BY <1>2 DEF ThreadStates, Pipes!Slots
<1>6. SUFFICES \E r : /\ th' = [th EXCEPT ![t] = r] /\ r.op \notin {"create", "close"}
                       /\ Sound(EventThread, r)'
  BY <1>1, <1>2, <1>3, EventThreadSteps
<1>7. CASE th[t].left # {}
  <2>1. PICK fd \in th[t].left :
          th' = [th EXCEPT ![t] = [at |-> "scan", op |-> "poll", fd |-> fd, i |-> 1,
                                   left |-> th[t].left \ {fd}, watch |-> watch]]
    BY <1>7 DEF Pipes!Polled
  <2> HIDE DEF watch
  <2>2. PICK r : r = [at |-> "scan", op |-> "poll", fd |-> fd, i |-> 1,
                      left |-> th[t].left \ {fd}, watch |-> watch]
    OBVIOUS
  <2>3. fd \in open /\ fd \in 0..(next_fd - 1) /\ th[t].left \ {fd} \in SUBSET open
    BY <1>1 DEF ThreadStates, PipesInv, Tables
  <2>4. r \in ThreadStates'
    BY <1>4, <1>5, <2>2, <2>3 DEF ThreadStates
  <2>5. Sound(EventThread, r)'
    BY <1>1, <1>2, <1>4, <2>2, <2>3, <2>4 DEF Sound, Creates, Closes, Uses
  <2>6. th' = [th EXCEPT ![t] = r] /\ r.op = "poll"
    BY <2>1, <2>2
  <2> QED BY <2>5, <2>6
<1>8. CASE th[t].left = {} /\ ready' # {}
  <2>1. th' = [th EXCEPT ![t] = Pipes!Idle]
    BY <1>2, <1>8 DEF Pipes!Polled
  <2>2. Pipes!Idle \in ThreadStates' /\ Pipes!Idle.op = "none"
    BY <1>5, IdleIsSound DEF Sound, Pipes!Idle
  <2>3. Sound(EventThread, Pipes!Idle)'
    BY <2>2 DEF Sound, Creates, Closes, Uses, Pipes!Idle
  <2> QED BY <2>1, <2>2, <2>3
<1>9. CASE th[t].left = {} /\ ready' = {}
  <2>1. th' = [th EXCEPT ![t] = [at |-> "wait", op |-> "poll", fd |-> 0, i |-> 0,
                                 left |-> {}, watch |-> watch]]
    BY <1>2, <1>9 DEF Pipes!Polled
  <2> HIDE DEF watch
  <2>2. PICK r : r = [at |-> "wait", op |-> "poll", fd |-> 0, i |-> 0, left |-> {},
                      watch |-> watch]
    OBVIOUS
  <2>3. r \in ThreadStates'
    <3>1. 0 \in 0..(next_fd - 1)
      BY DEF PipesInv, Tables
    <3> QED BY <1>4, <1>5, <2>2, <3>1 DEF ThreadStates
  <2>4. Sound(EventThread, r)'
    BY <1>1, <1>2, <1>4, <2>2, <2>3 DEF Sound, Creates, Closes, Uses
  <2>5. th' = [th EXCEPT ![t] = r] /\ r.op = "poll"
    BY <2>1, <2>2
  <2> QED BY <2>4, <2>5
<1> QED BY <1>7, <1>8, <1>9

LEMMA PipesKeep == ASSUME PipesInv, Pipes!Next PROVE PipesInv'
<1>1. ASSUME NEW t \in Pipes!LibThreads, Pipes!Continue(t) PROVE PipesInv'
  BY <1>1, CheckInitKeeps, InitPollingKeeps, ScanKeeps, GivesUpKeeps, ChangedMeanwhileKeeps,
     CreatedKeeps, ClosedKeeps, WrittenKeeps, ReadDoneKeeps, PolledKeeps, PollReturnsKeeps
     DEF Pipes!Continue
<1>2. ASSUME NEW t \in Users,
             Pipes!Create(t) \/ \E fd \in open : Pipes!Write(t, fd) \/ Pipes!Close(t, fd)
      PROVE  PipesInv'
  BY <1>2, CreateKeeps, WriteKeeps, CloseKeeps DEF Pipes!LibThreads
<1>3. CASE Pipes!HandleEvents
  BY <1>3, PollKeeps, ReadKeeps DEF Pipes!HandleEvents, Pipes!LibThreads
<1> QED BY <1>1, <1>2, <1>3, ExitPollingKeeps DEF Pipes!Next

-----------------------------------------------------------------------------
(* The condition variable                                                  *)

\* A broadcast is forgotten when the thread it found leaves its wait: a later
\* wait of that thread starts with no broadcast to answer.
CondInv ==
    /\ pc \in [Threads -> {"run", "wait", "timedwait", "relock"}]
    /\ Cond!WaitersAreListed
    /\ awaited \subseteq waiters
    /\ Cond!BroadcastMissesNone

LEMMA CondInit == Cond!Init => CondInv
BY DEF Cond!Init, CondInv, Cond!WaitersAreListed, Cond!BroadcastMissesNone

LEMMA BeginWaitKeeps ==
    ASSUME CondInv, NEW t \in Threads, NEW kind \in {"wait", "timedwait"}, Cond!BeginWait(t, kind)
    PROVE  CondInv'
<1>1. /\ pc[t] = "run" /\ pc' = [pc EXCEPT ![t] = kind] /\ waiters' = waiters \cup {t}
      /\ event' = event /\ awaited' = awaited
    BY DEF Cond!BeginWait
<1>2. t \notin awaited
    BY <1>1 DEF CondInv, Cond!WaitersAreListed
<1>3. pc' \in [Threads -> {"run", "wait", "timedwait", "relock"}] /\ Cond!WaitersAreListed'
    BY <1>1 DEF CondInv, Cond!WaitersAreListed
<1>4. Cond!BroadcastMissesNone'
    BY <1>1, <1>2 DEF CondInv, Cond!BroadcastMissesNone, Cond!Waiting, Cond!WaitersAreListed
<1> QED BY <1>1, <1>3, <1>4 DEF CondInv

\* A thread that leaves WaitForSingleObject answers no broadcast any more,
\* and keeps its entry in waiters.
LEMMA LeavesKeeps ==
    ASSUME CondInv, NEW t \in Threads, Cond!Wakes(t) \/ Cond!TimesOut(t)
    PROVE  CondInv'
<1>1. /\ pc[t] # "run" /\ pc' = [pc EXCEPT ![t] = "relock"]
      /\ waiters' = waiters /\ awaited' = awaited /\ event \ {t} \subseteq event'
    BY DEF Cond!Wakes, Cond!TimesOut, Cond!Waiting, Cond!cond
<1>2. pc' \in [Threads -> {"run", "wait", "timedwait", "relock"}] /\ Cond!WaitersAreListed'
    BY <1>1 DEF CondInv, Cond!WaitersAreListed
<1>3. Cond!BroadcastMissesNone'
    BY <1>1 DEF CondInv, Cond!BroadcastMissesNone, Cond!Waiting, Cond!WaitersAreListed
<1> QED BY <1>1, <1>2, <1>3 DEF CondInv

LEMMA EndWaitKeeps == ASSUME CondInv, NEW t \in Threads, Cond!EndWait(t) PROVE CondInv'
<1>1. /\ pc' = [pc EXCEPT ![t] = "run"] /\ waiters' = waiters \ {t}
      /\ awaited' = awaited \ {t} /\ event' = event
    BY DEF Cond!EndWait
<1>2. pc' \in [Threads -> {"run", "wait", "timedwait", "relock"}] /\ Cond!WaitersAreListed'
    BY <1>1 DEF CondInv, Cond!WaitersAreListed
<1>3. Cond!BroadcastMissesNone'
    BY <1>1 DEF CondInv, Cond!BroadcastMissesNone, Cond!Waiting, Cond!WaitersAreListed
<1> QED BY <1>1, <1>2, <1>3 DEF CondInv

LEMMA BroadcastKeeps ==
    ASSUME CondInv, NEW t \in Threads, Cond!usbi_cond_broadcast(t)
    PROVE  CondInv'
<1>1. /\ pc' = pc /\ waiters' = waiters /\ event' = event \cup waiters
      /\ awaited' = awaited \cup {u \in Threads : Cond!Waiting(u)}
    BY DEF Cond!usbi_cond_broadcast
<1>2. {u \in Threads : Cond!Waiting(u)} \subseteq waiters
    BY DEF CondInv, Cond!WaitersAreListed, Cond!Waiting
<1> QED BY <1>1, <1>2 DEF CondInv, Cond!WaitersAreListed, Cond!BroadcastMissesNone, Cond!Waiting

\* The others set events at most, and change neither pc nor waiters.
LEMMA OthersKeep ==
    ASSUME CondInv, NEW t \in Threads,
           \/ Cond!usbi_mutex_lock(t) \/ Cond!usbi_mutex_unlock(t)
           \/ Cond!usbi_cond_signal(t) \/ Cond!usbi_cond_destroy(t)
    PROVE  CondInv'
<1>1. pc' = pc /\ waiters' = waiters /\ awaited' = awaited /\ event \subseteq event'
    BY DEF Cond!usbi_mutex_lock, Cond!usbi_mutex_unlock, Cond!usbi_cond_signal,
           Cond!usbi_cond_destroy, Cond!cond
<1> QED BY <1>1 DEF CondInv, Cond!WaitersAreListed, Cond!BroadcastMissesNone, Cond!Waiting

LEMMA CondKeeps == ASSUME CondInv, Cond!Next PROVE CondInv'
<1>1. ASSUME NEW t \in Threads, Cond!Step(t) PROVE CondInv'
  BY <1>1, BeginWaitKeeps, LeavesKeeps, EndWaitKeeps, BroadcastKeeps, OthersKeep DEF Cond!Step
<1> QED BY <1>1 DEF Cond!Next

-----------------------------------------------------------------------------
(* Both                                                                    *)

WindowsInv == (part = "pipes" => PipesInv) /\ (part = "cond" => CondInv)

LEMMA WindowsInvariant == Spec => []WindowsInv
<1>1. Init => WindowsInv
  BY PipesInit, CondInit DEF Init, WindowsInv
<1>2. WindowsInv /\ [Next]_vars => WindowsInv'
  <2> SUFFICES ASSUME WindowsInv, [Next]_vars PROVE WindowsInv'
    OBVIOUS
  <2>1. CASE OfCond /\ Cond!Next
    BY <2>1, CondKeeps DEF OfCond, WindowsInv
  <2>2. CASE OfPipes /\ Pipes!Next
    BY <2>2, PipesKeep DEF OfPipes, WindowsInv
  <2>3. CASE UNCHANGED vars
    <3>1. UNCHANGED <<part, mutex, waiters, not_waiting, event, pc, timedout, awaited, destroyed,
                      waits, is_polling_set, poll_fd, InternalHigh, owner, next_fd, open, th,
                      ready, writes>>
      BY <2>3 DEF vars, condOnly, pipesOnly
    <3>2. CondInv => CondInv'
      BY <3>1 DEF CondInv, Cond!WaitersAreListed, Cond!BroadcastMissesNone, Cond!Waiting
    <3>3. PipesInv => PipesInv'
      BY <3>1 DEF PipesInv, Tables, Apart, Leftovers, Sound, Creates, Closes, Uses, ThreadStates,
                  Pipes!Slots, Pipes!LibThreads, Pipes!Idle
    <3> QED BY <3>1, <3>2, <3>3 DEF WindowsInv
  <2> QED BY <2>1, <2>2, <2>3 DEF Next
<1> QED BY <1>1, <1>2, PTL DEF Spec

\* A descriptor that was handed out is in one slot of poll_fd, however many
\* threads race for slots, for the first initialisation, and to close others.
THEOREM DescriptorsInOneSlot == Spec => []OneSlotEach
<1>1. WindowsInv => OneSlotEach
  <2> SUFFICES ASSUME PipesInv PROVE Pipes!OneSlotEach
    BY DEF WindowsInv, OneSlotEach
  <2>1. ASSUME NEW fd \in open
        PROVE  \E i \in Pipes!Slots : \A j \in Pipes!Slots : poll_fd[j] = fd <=> j = i
    <3>1. fd # 0 /\ \E i \in Pipes!Slots : poll_fd[i] = fd
      BY DEF PipesInv, Tables
    <3> QED BY <3>1 DEF PipesInv, Tables
  <2> QED BY <2>1 DEF PipesInv, Leftovers, Pipes!OneSlotEach
<1> QED BY <1>1, WindowsInvariant, PTL

\* The event thread reads only pipes that were written to, so it never waits
\* inside a read with the slot's lock held.
THEOREM ReadsNeverBlock == Spec => []ReadNeverBlocks
<1>1. WindowsInv => ReadNeverBlocks
  BY DEF WindowsInv, ReadNeverBlocks, Pipes!ReadNeverBlocks, PipesInv, Tables
<1> QED BY <1>1, WindowsInvariant, PTL

\* usbi_cond_broadcast reaches every thread that was waiting when it was
\* called, whichever threads wait, time out or come back in between.
THEOREM BroadcastsReachAll == Spec => []BroadcastMissesNone
<1>1. WindowsInv => BroadcastMissesNone
  BY DEF WindowsInv, BroadcastMissesNone, CondInv
<1> QED BY <1>1, WindowsInvariant, PTL
===============================================================================
