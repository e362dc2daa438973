------------------------------ MODULE DarwinProofs ------------------------------
(***************************************************************************)
(* The Darwin backend, for any number of handles, transfers, interfaces    *)
(* and configurations, and calls nested to any depth.                      *)
(***************************************************************************)
EXTENDS MCDarwin, FiniteSetTheorems, FunctionTheorems, SequenceTheorems, WellFoundedInduction, TLAPS

-----------------------------------------------------------------------------
(* Pipes: the invariant                                                    *)

GONE == "MESSAGE_DEVICE_GONE"
ASYNC == "MESSAGE_ASYNC_IO_COMPLETE"
Words == {GONE, ASYNC, "result", "io_size"} \cup Transfers

\* The words in a pipe are messages one after the other: what each word must
\* be followed and preceded by says so without a count of the messages.
FitsAt(s, i) ==
    /\ s[i] = ASYNC => /\ i + 3 \in DOMAIN s /\ s[i + 1] \in Transfers
                       /\ s[i + 2] = "result" /\ s[i + 3] = "io_size"
    /\ s[i] \in Transfers => i - 1 \in DOMAIN s /\ s[i - 1] = ASYNC
    /\ s[i] = "result" => i - 1 \in DOMAIN s /\ s[i - 1] \in Transfers
    /\ s[i] = "io_size" => i - 1 \in DOMAIN s /\ s[i - 1] = "result"
Messages(s) == \A i \in DOMAIN s : FitsAt(s, i)

\* The words for a handle: the ones of a message that were read, those in its
\* pipe, and the rest of a message that is being written.
Got(h) == IF reader.at = "read" /\ reader.h = h THEN reader.got ELSE <<>>
WordsOf(s) == [i \in DOMAIN s |-> s[i].word]
Rest(h) == IF towrite # <<>> /\ towrite[1].h = h /\ towrite[1].word # GONE
           THEN WordsOf(towrite) ELSE <<>>
Stream(h) == Got(h) \o fifo[h] \o Rest(h)

PipesTyped ==
    /\ io \in [Transfers -> {"none", "kernel", "ended"}] /\ pending \in [Transfers -> BOOLEAN]
    /\ fifo \in [Handles -> Seq(Words)] /\ towrite \in Seq([h : Handles, word : Words])
    /\ open_devs \subseteq Handles /\ polled \subseteq Handles
    /\ reader \in [at : {"idle", "lock", "fds", "read"}, left : SUBSET Handles,
                   h : Handles \cup {"none"}, got : Seq(Words)]

\* What the event handler has read is no more than one message, and the pipes
\* it still has to look at are polled.
Reading ==
    /\ reader.left \subseteq polled /\ (reader.at = "idle" => reader.left = {})
    /\ reader.at = "read" =>
         /\ reader.h \in polled \ reader.left /\ Len(reader.got) <= 4
         /\ reader.got # <<>> /\ reader.got[1] # ASYNC => Len(reader.got) = 1

\* The thread of the run loop writes one message of four words to one handle,
\* or one of a single word to each.
Writing ==
    \/ \A i \in DOMAIN towrite : towrite[i].word = GONE
    \/ \A i \in DOMAIN towrite : towrite[i].word # GONE /\ towrite[i].h = towrite[1].h

\* A transfer that is in the kernel or has a message in a pipe that is polled
\* is pending; it has one message, which ended it.
Carried(h) ==
    /\ \A i \in DOMAIN Stream(h) : Stream(h)[i] \in Transfers =>
         /\ On[Stream(h)[i]] = h /\ io[Stream(h)[i]] = "none" /\ pending[Stream(h)[i]]
    /\ \A i, j \in DOMAIN Stream(h) :
         Stream(h)[i] \in Transfers /\ Stream(h)[i] = Stream(h)[j] => i = j

PipesInv ==
    /\ PipesTyped /\ Reading /\ Writing
    /\ \A h \in Handles : Messages(Stream(h))
    /\ \A h \in polled : Carried(h)
    /\ \A t \in Transfers : io[t] # "none" /\ On[t] \in polled => pending[t]

-----------------------------------------------------------------------------
(* The device: the invariant                                               *)

Frames == [f : {"claim", "set"}, h : DeviceHandles, n : Interfaces \cup Configs \cup {0},
           at : {"look", "configured", "start", "reclaim"}, todo : SUBSET Interfaces]
Sources == {"null", "live", "freed", "twice"}

IfacesTyped ==
    /\ interface \in [DeviceHandles -> [Interfaces -> {"null", "object", "open"}]]
    /\ endpoints \in [DeviceHandles -> [Interfaces -> BOOLEAN]]
    /\ source \in [DeviceHandles -> [Interfaces -> Sources]]

DeviceTyped ==
    /\ stack \in Seq(Frames) /\ claimed \in [DeviceHandles -> SUBSET Interfaces]
    /\ \A k \in DOMAIN stack : stack[k].f = "claim" => stack[k].n \in Interfaces
    /\ nested \in BOOLEAN /\ IfacesTyped

OpenWhole == \A h \in DeviceHandles, i \in Interfaces :
    interface[h][i] = "open" => source[h][i] = "live" /\ endpoints[h][i]

\* The calls in progress are of one handle.  Claims and changes of the
\* configuration alternate: a change claims what the handle has claimed, each
\* interface once, and a claim sets the first configuration.  Only what was not
\* claimed is claimed from outside.
Shaped ==
    /\ \A k \in DOMAIN stack : stack[k].h = stack[1].h
    /\ \A k \in DOMAIN stack : k < Len(stack) =>
         /\ stack[k].at = IF stack[k].f = "set" THEN "reclaim" ELSE "configured"
         /\ stack[k].f # stack[k + 1].f
         /\ stack[k].f = "set" => stack[k + 1].n \in claimed[stack[k].h] \ stack[k].todo
         /\ stack[k].f = "claim" => stack[k + 1].n = first_config
    /\ \A k \in DOMAIN stack : stack[k].f = "set" => stack[k].todo \subseteq claimed[stack[k].h]
    /\ stack # <<>> /\ stack[1].f = "claim" => stack[1].n \notin claimed[stack[1].h]

\* A change of the configuration holds, or the first configuration was set
\* since, which takes an interface that the other one lacks.
Resets(k) == stack[k].f = "set" /\ stack[k].at = "reclaim"
Lacks(k) == ~(claimed[stack[k].h] \subseteq Device!Present(stack[k].n))
Followed ==
    \A k \in DOMAIN stack : Resets(k) =>
        /\ configured = stack[k].n \/ (configured = first_config /\ Lacks(k))
        /\ k + 2 <= Len(stack) => Lacks(k)

\* As long as no claim made to restore an interface has set the configuration:
\* endpoints are of what is there and claimed, and of nothing that is still to
\* be claimed again.
Endpointed == \A h \in DeviceHandles, i \in Interfaces :
    endpoints[h][i] => interface[h][i] # "null" /\ i \in claimed[h]
Awaited ==
    /\ \A k \in DOMAIN stack : stack[k].f = "claim" /\ k > 1 =>
         stack[k].at = "look" /\ k = Len(stack) /\ ~endpoints[stack[k].h][stack[k].n]
    /\ \A k \in DOMAIN stack : stack[k].f = "set" =>
         \A i \in stack[k].todo : ~endpoints[stack[k].h][i]

DeviceInv ==
    /\ DeviceTyped /\ OpenWhole /\ Shaped /\ Followed
    /\ ~nested => Endpointed /\ Awaited

DarwinInv == (part = "pipes" => PipesInv) /\ (part = "device" => DeviceInv)

-----------------------------------------------------------------------------
(* The device: steps                                                       *)

\* The stack of calls after a call, a return and a step of the call on top.
LEMMA Caller ==
    ASSUME DeviceTyped, stack # <<>>
    PROVE  /\ Device!Caller \in Seq(Frames) /\ Len(Device!Caller) = Len(stack) - 1
           /\ \A k \in 1..(Len(stack) - 1) : Device!Caller[k] = stack[k]
           /\ Len(stack) \in Nat \ {0} /\ Device!Top = stack[Len(stack)] /\ Device!Top \in Frames
           /\ DOMAIN stack = 1..Len(stack)
           /\ Device!Caller = <<>> <=> Len(stack) = 1
<1>1. stack \in Seq(Frames) /\ Len(stack) \in Nat \ {0} /\ DOMAIN stack = 1..Len(stack)
  BY DEF DeviceTyped, IfacesTyped
<1>2. /\ Device!Caller \in Seq(Frames) /\ Len(Device!Caller) = Len(stack) - 1
      /\ \A k \in 1..(Len(stack) - 1) : Device!Caller[k] = stack[k]
  BY <1>1 DEF Device!Caller
<1>3. Device!Top = stack[Len(stack)] /\ Device!Top \in Frames
  BY <1>1 DEF Device!Top
<1>4. Device!Caller = <<>> <=> Len(stack) = 1
  BY <1>1, <1>2
<1> QED BY <1>1, <1>2, <1>3, <1>4

LEMMA Replaced ==
    ASSUME NEW s \in Seq(Frames), NEW w \in Frames
    PROVE  /\ Append(s, w) \in Seq(Frames) /\ Len(Append(s, w)) = Len(s) + 1
           /\ Append(s, w)[Len(s) + 1] = w
           /\ \A k \in 1..Len(s) : Append(s, w)[k] = s[k]
           /\ Len(s) \in Nat
OBVIOUS

\* The frame on top of a call that calls another.
LEMMA Pushed ==
    ASSUME DeviceTyped, stack # <<>>, NEW at \in {"configured", "reclaim"},
           NEW todo \in SUBSET Interfaces, NEW frame \in Frames,
           Device!CallOf(frame, at, todo)
    PROVE  /\ stack' \in Seq(Frames) /\ Len(stack') = Len(stack) + 1
           /\ DOMAIN stack' = 1..(Len(stack) + 1) /\ stack'[Len(stack) + 1] = frame
           /\ \A k \in 1..(Len(stack) - 1) : stack'[k] = stack[k]
           /\ \A k \in 1..Len(stack) : /\ stack'[k].f = stack[k].f /\ stack'[k].h = stack[k].h
                                       /\ stack'[k].n = stack[k].n
           /\ stack'[Len(stack)].at = at /\ stack'[Len(stack)].todo = todo
<1> DEFINE w == Device!Waiting(at, todo)
<1>1. stack' = Append(Append(Device!Caller, w), frame)
  BY DEF Device!CallOf
<1>2. /\ Device!Caller \in Seq(Frames) /\ Len(Device!Caller) = Len(stack) - 1
      /\ \A k \in 1..(Len(stack) - 1) : Device!Caller[k] = stack[k]
      /\ Len(stack) \in Nat \ {0} /\ Device!Top = stack[Len(stack)] /\ Device!Top \in Frames
  BY Caller
<1>3. /\ w \in Frames /\ w.f = Device!Top.f /\ w.h = Device!Top.h /\ w.n = Device!Top.n
      /\ w.at = at /\ w.todo = todo
  BY <1>2 DEF Device!Waiting, Frames
<1> HIDE DEF w
<1> DEFINE s == Append(Device!Caller, w)
<1>4. /\ s \in Seq(Frames) /\ Len(s) = Len(Device!Caller) + 1 /\ s[Len(Device!Caller) + 1] = w
      /\ \A k \in 1..Len(Device!Caller) : s[k] = Device!Caller[k]
  BY <1>2, <1>3, Replaced
<1> HIDE DEF s
<1>5. /\ stack' \in Seq(Frames) /\ Len(stack') = Len(s) + 1 /\ stack'[Len(s) + 1] = frame
      /\ \A k \in 1..Len(s) : stack'[k] = s[k]
  <2>1. stack' = Append(s, frame)
    BY <1>1 DEF s
  <2> QED BY <1>4, <2>1, Replaced
<1>6. /\ Len(stack') = Len(stack) + 1 /\ stack'[Len(stack) + 1] = frame
      /\ stack'[Len(stack)] = w
      /\ \A k \in 1..(Len(stack) - 1) : stack'[k] = stack[k]
  BY <1>2, <1>4, <1>5
<1> QED BY <1>2, <1>3, <1>5, <1>6

\* darwin_release_interface: an interface that goes takes its endpoints along.
LEMMA ReleasedKeeps ==
    ASSUME DeviceTyped, NEW h \in DeviceHandles, NEW is \in SUBSET Interfaces,
           Device!Released(h, is)
    PROVE  /\ IfacesTyped' /\ (OpenWhole => OpenWhole')
           /\ \A g \in DeviceHandles, i \in Interfaces : endpoints'[g][i] =>
                /\ endpoints[g][i]
                /\ interface[g][i] # "null" => interface'[g][i] # "null" /\ ~(g = h /\ i \in is)
<1> DEFINE there == {i \in is : interface[h][i] # "null"}
<1>1. /\ endpoints' = [endpoints EXCEPT ![h] = [i \in Interfaces |->
                          IF i \in there THEN FALSE ELSE endpoints[h][i]]]
      /\ interface' = [interface EXCEPT ![h] = [i \in Interfaces |->
                          IF i \in there THEN "null" ELSE interface[h][i]]]
      /\ source' = [source EXCEPT ![h] = [i \in Interfaces |->
                       IF i \in there THEN Device!CFRelease(source[h][i]) ELSE source[h][i]]]
  BY DEF Device!Released, DeviceTyped, IfacesTyped
<1>2. ASSUME NEW g \in DeviceHandles, NEW i \in Interfaces
      PROVE  /\ interface'[g][i] = IF g = h /\ i \in there THEN "null" ELSE interface[g][i]
             /\ endpoints'[g][i] = IF g = h /\ i \in there THEN FALSE ELSE endpoints[g][i]
             /\ ~(g = h /\ i \in there) => source'[g][i] = source[g][i]
  BY <1>1 DEF DeviceTyped, IfacesTyped
<1>3. interface' \in [DeviceHandles -> [Interfaces -> {"null", "object", "open"}]]
  <2>1. [i \in Interfaces |-> IF i \in there THEN "null" ELSE interface[h][i]]
          \in [Interfaces -> {"null", "object", "open"}]
    BY DEF DeviceTyped, IfacesTyped
  <2> QED BY <1>1, <2>1 DEF DeviceTyped, IfacesTyped
<1>4. endpoints' \in [DeviceHandles -> [Interfaces -> BOOLEAN]]
  <2>1. ASSUME NEW i \in Interfaces
        PROVE  (IF i \in there THEN FALSE ELSE endpoints[h][i]) \in BOOLEAN
    <3>1. endpoints[h][i] \in BOOLEAN
      BY DEF DeviceTyped, IfacesTyped
    <3> QED BY <3>1, Zenon
  <2>2. [i \in Interfaces |-> IF i \in there THEN FALSE ELSE endpoints[h][i]]
          \in [Interfaces -> BOOLEAN]
    BY <2>1, Zenon
  <2>3. endpoints \in [DeviceHandles -> [Interfaces -> BOOLEAN]]
    BY DEF DeviceTyped, IfacesTyped
  <2> HIDE DEF there
  <2> QED BY <1>1, <2>2, <2>3
<1>5. source' \in [DeviceHandles -> [Interfaces -> Sources]]
  <2>1. \A x \in Sources : Device!CFRelease(x) \in Sources
    BY DEF Sources, Device!CFRelease
  <2>2. [i \in Interfaces |-> IF i \in there THEN Device!CFRelease(source[h][i]) ELSE source[h][i]]
          \in [Interfaces -> Sources]
    BY <2>1 DEF DeviceTyped, IfacesTyped
  <2> QED BY <1>1, <2>2 DEF DeviceTyped, IfacesTyped
<1>6. ASSUME OpenWhole PROVE OpenWhole'
  <2> SUFFICES ASSUME NEW g \in DeviceHandles, NEW i \in Interfaces, interface'[g][i] = "open"
               PROVE  source'[g][i] = "live" /\ endpoints'[g][i]
    BY DEF OpenWhole
  <2>1. ~(g = h /\ i \in there) /\ interface[g][i] = "open"
    BY <1>2
  <2>2. source'[g][i] = source[g][i] /\ endpoints'[g][i] = endpoints[g][i]
    BY <1>2, <2>1
  <2>3. source[g][i] = "live" /\ endpoints[g][i]
    BY <1>6, <2>1 DEF OpenWhole
  <2> QED BY <2>2, <2>3, Zenon
<1>7. ASSUME NEW g \in DeviceHandles, NEW i \in Interfaces, endpoints'[g][i]
      PROVE  /\ endpoints[g][i]
             /\ interface[g][i] # "null" => interface'[g][i] # "null" /\ ~(g = h /\ i \in is)
  <2>1. ~(g = h /\ i \in there)
    <3>1. g = h /\ i \in there => endpoints'[g][i] = FALSE
      BY <1>2
    <3> QED BY <1>7, <3>1, Zenon
  <2>2. endpoints'[g][i] = endpoints[g][i] /\ interface'[g][i] = interface[g][i]
    BY <1>2, <2>1
  <2>3. endpoints[g][i]
    BY <1>7, <2>2, Zenon
  <2>4. interface[g][i] # "null" => ~(g = h /\ i \in is)
    BY <2>1
  <2> QED BY <2>2, <2>3, <2>4
<1> QED BY <1>3, <1>4, <1>5, <1>6, <1>7 DEF IfacesTyped

LEMMA DeviceInit == Device!Init => DeviceInv
<1> SUFFICES ASSUME Device!Init PROVE DeviceInv
  OBVIOUS
<1>1. /\ stack = <<>> /\ claimed = [h \in DeviceHandles |-> {}]
      /\ interface = Device!PerInterface("null") /\ endpoints = Device!PerInterface(FALSE)
      /\ source = Device!PerInterface("null") /\ nested = FALSE
  BY DEF Device!Init
<1>2. DeviceTyped
  <2>1. endpoints \in [DeviceHandles -> [Interfaces -> BOOLEAN]]
    BY <1>1, Zenon DEF Device!PerInterface
  <2>2. nested \in BOOLEAN
    BY <1>1
  <2> QED BY <1>1, <2>1, <2>2 DEF DeviceTyped, IfacesTyped, Device!PerInterface, Sources
<1>3. OpenWhole /\ Endpointed
  BY <1>1 DEF OpenWhole, Endpointed, Device!PerInterface
<1>4. Shaped /\ Followed /\ Awaited
  BY <1>1 DEF Shaped, Followed, Awaited
<1> QED BY <1>2, <1>3, <1>4 DEF DeviceInv

\* Calls that do nothing to the interfaces, and none is in progress.
LEMMA QuietKeeps ==
    ASSUME DeviceInv, UNCHANGED <<claimed, interface, endpoints, source, stack, nested>>,
           stack = <<>> \/ UNCHANGED configured
    PROVE  DeviceInv'
<1>1. DeviceTyped' /\ OpenWhole' /\ Shaped' /\ (~nested' => Endpointed' /\ Awaited')
  BY DEF DeviceInv, DeviceTyped, IfacesTyped, OpenWhole, Shaped, Endpointed, Awaited
<1>2. Followed'
  BY DEF DeviceInv, Followed, Resets, Lacks, Device!Present
<1> QED BY <1>1, <1>2 DEF DeviceInv

\* Calls that release interfaces and no longer claim some of them.
LEMMA ReleaseKeeps ==
    ASSUME DeviceInv, NEW h \in DeviceHandles, NEW is \in SUBSET claimed[h], Device!Released(h, is),
           claimed' = [claimed EXCEPT ![h] = @ \ is] \/ UNCHANGED claimed,
           stack = <<>>, UNCHANGED <<stack, nested>>
    PROVE  DeviceInv'
<1>1. is \in SUBSET Interfaces /\ DeviceTyped /\ OpenWhole
  BY DEF DeviceInv, DeviceTyped, IfacesTyped
<1>2. /\ IfacesTyped' /\ OpenWhole'
      /\ \A g \in DeviceHandles, i \in Interfaces : endpoints'[g][i] =>
           /\ endpoints[g][i]
           /\ interface[g][i] # "null" => interface'[g][i] # "null" /\ ~(g = h /\ i \in is)
  BY <1>1, ReleasedKeeps
<1>3. claimed' \in [DeviceHandles -> SUBSET Interfaces]
  BY <1>1 DEF DeviceTyped, IfacesTyped
<1>4. DeviceTyped' /\ Shaped' /\ Followed' /\ Awaited'
  BY <1>1, <1>2, <1>3 DEF DeviceTyped, IfacesTyped, Shaped, Followed, Awaited
<1>5. ASSUME ~nested' PROVE Endpointed'
  <2> SUFFICES ASSUME NEW g \in DeviceHandles, NEW i \in Interfaces, endpoints'[g][i]
               PROVE  interface'[g][i] # "null" /\ i \in claimed'[g]
    BY DEF Endpointed
  <2>1. interface[g][i] # "null" /\ i \in claimed[g]
    BY <1>2, <1>5 DEF DeviceInv, Endpointed
  <2>2. interface'[g][i] # "null" /\ ~(g = h /\ i \in is)
    BY <1>2, <2>1
  <2>3. i \in claimed'[g]
    BY <1>1, <2>1, <2>2 DEF DeviceTyped
  <2> QED BY <2>2, <2>3
<1> QED BY <1>2, <1>4, <1>5 DEF DeviceInv

LEMMA OutsideKeeps ==
    ASSUME DeviceInv, NEW h \in DeviceHandles,
           \/ Device!darwin_open(h) \/ Device!darwin_close(h) \/ Device!darwin_reset_device(h)
           \/ \E i \in Interfaces : \/ Device!darwin_release_interface(h, i)
                                    \/ Device!darwin_set_interface_altsetting(h, i)
    PROVE  DeviceInv'
<1>1. CASE Device!darwin_open(h) \/ Device!darwin_reset_device(h)
  <2>1. UNCHANGED <<claimed, interface, endpoints, source, stack, nested>> /\ stack = <<>>
    BY <1>1 DEF Device!darwin_open, Device!darwin_reset_device, Device!ifaces, Device!calls,
                Device!Idle
  <2> QED BY <2>1, QuietKeeps
<1>2. CASE Device!darwin_close(h)
  <2> DEFINE is == claimed[h]
  <2>1. /\ Device!Released(h, is) /\ claimed' = [claimed EXCEPT ![h] = {}] /\ stack = <<>>
        /\ UNCHANGED <<stack, nested>>
    BY <1>2 DEF Device!darwin_close, Device!calls, Device!Idle
  <2>2. claimed' = [claimed EXCEPT ![h] = @ \ is] /\ is \in SUBSET claimed[h]
    BY <2>1 DEF DeviceInv, DeviceTyped, IfacesTyped
  <2> HIDE DEF is
  <2> QED BY <2>1, <2>2, ReleaseKeeps
<1>3. ASSUME NEW i \in Interfaces, Device!darwin_release_interface(h, i) PROVE DeviceInv'
  <2> DEFINE is == {i}
  <2>1. /\ Device!Released(h, is) /\ stack = <<>>
        /\ claimed' = [claimed EXCEPT ![h] = @ \ is] \/ UNCHANGED claimed
        /\ is \in SUBSET claimed[h] /\ UNCHANGED <<stack, nested>>
    BY <1>3 DEF Device!darwin_release_interface, Device!calls, Device!Idle
  <2> HIDE DEF is
  <2> QED BY <2>1, ReleaseKeeps
<1>4. ASSUME NEW i \in Interfaces, Device!darwin_set_interface_altsetting(h, i) PROVE DeviceInv'
  <2>1. /\ stack = <<>> /\ i \in claimed[h] /\ interface[h][i] # "null"
        /\ UNCHANGED <<stack, nested, claimed>>
        /\ \/ Device!Released(h, {i})
           \/ endpoints' = [endpoints EXCEPT ![h][i] = TRUE] /\ UNCHANGED <<interface, source>>
    BY <1>4 DEF Device!darwin_set_interface_altsetting, Device!Idle, Device!calls
  <2>2. CASE Device!Released(h, {i})
    <3> DEFINE is == {i}
    <3>1. Device!Released(h, is) /\ is \in SUBSET claimed[h]
      BY <2>1, <2>2
    <3> HIDE DEF is
    <3> QED BY <2>1, <3>1, ReleaseKeeps
  <2>3. CASE endpoints' = [endpoints EXCEPT ![h][i] = TRUE] /\ UNCHANGED <<interface, source>>
    <3>1. endpoints \in [DeviceHandles -> [Interfaces -> BOOLEAN]]
      BY DEF DeviceInv, DeviceTyped, IfacesTyped
    <3>2. \A g \in DeviceHandles, j \in Interfaces :
             endpoints'[g][j] = IF g = h /\ j = i THEN TRUE ELSE endpoints[g][j]
      BY <2>3, <3>1
    <3>3. endpoints' \in [DeviceHandles -> [Interfaces -> BOOLEAN]]
      <4>1. [endpoints[h] EXCEPT ![i] = TRUE] \in [Interfaces -> BOOLEAN]
        <5>1. endpoints[h] \in [Interfaces -> BOOLEAN]
          BY <3>1
        <5> QED BY <5>1, Zenon
      <4> QED BY <2>3, <3>1, <4>1, Zenon
    <3>4. DeviceTyped' /\ Shaped' /\ Followed' /\ Awaited'
      BY <2>1, <2>3, <3>3 DEF DeviceInv, DeviceTyped, IfacesTyped, Shaped, Followed, Awaited
    <3>5. OpenWhole'
      <4> SUFFICES ASSUME NEW g \in DeviceHandles, NEW j \in Interfaces, interface'[g][j] = "open"
                   PROVE  source'[g][j] = "live" /\ endpoints'[g][j]
        BY DEF OpenWhole
      <4>1. source[g][j] = "live" /\ endpoints[g][j]
        BY <2>3 DEF DeviceInv, OpenWhole
      <4>2. endpoints'[g][j] = TRUE \/ endpoints'[g][j] = endpoints[g][j]
        BY <3>2
      <4> QED BY <2>3, <4>1, <4>2, Zenon
    <3>6. ASSUME ~nested' PROVE Endpointed'
      <4> SUFFICES ASSUME NEW g \in DeviceHandles, NEW j \in Interfaces, endpoints'[g][j]
                   PROVE  interface'[g][j] # "null" /\ j \in claimed'[g]
        BY DEF Endpointed
      <4>1. (g = h /\ j = i) \/ endpoints[g][j]
        <5>1. ~(g = h /\ j = i) => endpoints'[g][j] = endpoints[g][j]
          BY <3>2
        <5> QED BY <5>1, Zenon
      <4> QED BY <2>1, <2>3, <3>6, <4>1 DEF DeviceInv, Endpointed
    <3> QED BY <3>4, <3>5, <3>6 DEF DeviceInv
  <2> QED BY <2>1, <2>2, <2>3
<1> QED BY <1>1, <1>2, <1>3, <1>4

\* A call returns, and what it did to the interfaces is right: only a claim
\* that succeeds adds endpoints.
LEMMA ReturnKeeps ==
    ASSUME DeviceInv, stack # <<>>, NEW r, Device!Return(r), IfacesTyped', OpenWhole',
           UNCHANGED configured,
           ~nested => \A g \in DeviceHandles, i \in Interfaces : endpoints'[g][i] =>
               /\ interface'[g][i] # "null"
               /\ \/ endpoints[g][i]
                  \/ /\ Device!Top.f = "claim" /\ r = "SUCCESS"
                     /\ g = Device!Top.h /\ i = Device!Top.n
    PROVE  DeviceInv'
<1>1. /\ stack' = Device!Caller /\ nested' = nested
      /\ claimed' = IF Device!Caller = <<>> /\ Device!Top.f = "claim" /\ r = "SUCCESS"
                    THEN [claimed EXCEPT ![Device!Top.h] = @ \cup {Device!Top.n}] ELSE claimed
  BY DEF Device!Return
<1>2. /\ stack' \in Seq(Frames) /\ Len(stack') = Len(stack) - 1 /\ DOMAIN stack' = 1..(Len(stack) - 1)
      /\ \A k \in DOMAIN stack' : k \in DOMAIN stack /\ k < Len(stack) /\ stack'[k] = stack[k]
      /\ Len(stack) \in Nat \ {0} /\ Device!Top = stack[Len(stack)] /\ Device!Top \in Frames
      /\ DOMAIN stack = 1..Len(stack) /\ (Device!Caller = <<>> <=> Len(stack) = 1)
  BY <1>1, Caller DEF DeviceInv
<1>3. /\ Device!Top.h \in DeviceHandles
      /\ Device!Top.f = "claim" => Device!Top.n \in Interfaces
  BY <1>2 DEF DeviceInv, DeviceTyped, Frames
<1>4. claimed \in [DeviceHandles -> SUBSET Interfaces]
  BY DEF DeviceInv, DeviceTyped
<1>5. /\ claimed' \in [DeviceHandles -> SUBSET Interfaces]
      /\ \A g \in DeviceHandles : claimed[g] \subseteq claimed'[g]
      /\ stack' # <<>> => claimed' = claimed
  BY <1>1, <1>3, <1>4
<1>6. DeviceTyped'
  <2>1. \A k \in DOMAIN stack' : stack'[k].f = "claim" => stack'[k].n \in Interfaces
    BY <1>2 DEF DeviceInv, DeviceTyped
  <2>2. nested' \in BOOLEAN
    BY <1>1 DEF DeviceInv, DeviceTyped
  <2> QED BY <1>2, <1>5, <2>1, <2>2 DEF DeviceTyped
<1>7. Shaped'
  <2>1. CASE stack' = <<>>
    BY <2>1 DEF Shaped
  <2>2. CASE stack' # <<>>
    <3>1. claimed' = claimed /\ stack'[1] = stack[1] /\ 1 \in DOMAIN stack
      BY <1>2, <1>5, <2>2
    <3>2. \A k \in DOMAIN stack' : k < Len(stack') => k + 1 \in DOMAIN stack' /\ k < Len(stack)
      BY <1>2
    <3> QED BY <1>2, <3>1, <3>2 DEF DeviceInv, Shaped
  <2> QED BY <2>1, <2>2
<1>8. Followed'
  <2> SUFFICES ASSUME NEW k \in DOMAIN stack', Resets(k)'
               PROVE  /\ configured = stack'[k].n \/ (configured = first_config /\ Lacks(k)')
                      /\ k + 2 <= Len(stack') => Lacks(k)'
    BY DEF Followed
  <2>1. k \in DOMAIN stack /\ stack'[k] = stack[k] /\ claimed' = claimed
    BY <1>2, <1>5
  <2>2. Resets(k) /\ (Lacks(k)' <=> Lacks(k))
    BY <2>1 DEF Resets, Lacks, Device!Present
  <2>3. k + 2 <= Len(stack') => k + 2 <= Len(stack)
    BY <1>2
  <2> QED BY <2>1, <2>2, <2>3 DEF DeviceInv, Followed
<1>9. ASSUME ~nested' PROVE Endpointed' /\ Awaited'
  <2>1. ~nested /\ Endpointed /\ Awaited /\ Shaped
    BY <1>1, <1>9 DEF DeviceInv
  <2>2. ASSUME Len(stack) # 1, Device!Top.f = "claim"
        PROVE  \E k \in DOMAIN stack' :
                  /\ k + 1 = Len(stack) /\ stack[k].f = "set" /\ stack[k].h = Device!Top.h
                  /\ Device!Top.n \in claimed[Device!Top.h] \ stack[k].todo
    <3> DEFINE k == Len(stack) - 1
    <3>1. k \in DOMAIN stack' /\ k + 1 = Len(stack) /\ k \in DOMAIN stack /\ k < Len(stack)
          /\ 1 \in DOMAIN stack /\ k + 1 \in DOMAIN stack
      BY <1>2, <2>2
    <3> HIDE DEF k
    <3>2. stack[k].f # Device!Top.f /\ stack[k] \in Frames /\ stack[k].h = Device!Top.h
      BY <1>2, <2>1, <3>1 DEF Shaped, DeviceInv, DeviceTyped
    <3>3. stack[k].f = "set"
      BY <2>2, <3>2 DEF Frames
    <3> QED BY <1>2, <2>1, <3>1, <3>2, <3>3 DEF Shaped
  <2>3. Endpointed'
    <3> SUFFICES ASSUME NEW g \in DeviceHandles, NEW i \in Interfaces, endpoints'[g][i]
                 PROVE  interface'[g][i] # "null" /\ i \in claimed'[g]
      BY DEF Endpointed
    <3>1. CASE endpoints[g][i]
      BY <1>5, <2>1, <3>1 DEF Endpointed
    <3>2. CASE /\ Device!Top.f = "claim" /\ r = "SUCCESS" /\ g = Device!Top.h /\ i = Device!Top.n
      <4>1. CASE Len(stack) = 1
        BY <1>1, <1>2, <1>3, <1>4, <2>1, <3>2, <4>1
      <4>2. CASE Len(stack) # 1
        BY <1>5, <2>1, <2>2, <3>2, <4>2
      <4> QED BY <4>1, <4>2
    <3> QED BY <2>1, <3>1, <3>2
  <2>4. ASSUME NEW k \in DOMAIN stack', stack'[k].f = "claim", k > 1 PROVE FALSE
    BY <1>2, <2>1, <2>4 DEF Awaited
  <2>5. ASSUME NEW k \in DOMAIN stack', stack'[k].f = "set", NEW i \in stack'[k].todo,
               endpoints'[stack'[k].h][i]
        PROVE  FALSE
    <3>1. k \in DOMAIN stack /\ k < Len(stack) /\ stack'[k] = stack[k] /\ stack[k] \in Frames
      BY <1>2 DEF DeviceInv, DeviceTyped
    <3>2. stack[k].h \in DeviceHandles /\ i \in Interfaces /\ ~endpoints[stack[k].h][i]
      BY <2>1, <2>5, <3>1 DEF Awaited, Frames
    <3>3. Device!Top.f = "claim" /\ stack[k].h = Device!Top.h /\ i = Device!Top.n
      BY <2>1, <2>5, <3>1, <3>2
    <3>4. PICK m \in DOMAIN stack' : m + 1 = Len(stack) /\ Device!Top.n \notin stack[m].todo
      BY <1>2, <2>2, <3>1, <3>3
    <3>5. k = m
      <4>1. k + 1 \in DOMAIN stack /\ stack[k].f # stack[k + 1].f /\ k + 1 > 1
        BY <1>2, <2>1, <3>1 DEF Shaped
      <4>2. stack[k + 1] \in Frames
        BY <4>1 DEF DeviceInv, DeviceTyped
      <4>3. stack[k + 1].f = "claim"
        BY <2>5, <3>1, <4>1, <4>2 DEF Frames
      <4>4. k + 1 = Len(stack)
        BY <2>1, <4>1, <4>3 DEF Awaited
      <4> QED BY <1>2, <3>4, <4>4
    <3> QED BY <2>5, <3>1, <3>3, <3>4, <3>5
  <2> QED BY <2>3, <2>4, <2>5 DEF Awaited
<1> QED BY <1>6, <1>7, <1>8, <1>9 DEF DeviceInv

\* A call returns that did nothing to the interfaces.
LEMMA FailsKeeps ==
    ASSUME DeviceInv, Device!ClaimFails \/ Device!Configured PROVE DeviceInv'
<1>1. PICK r : /\ stack # <<>> /\ Device!Return(r)
               /\ UNCHANGED <<configured, interface, endpoints, source>>
  BY DEF Device!ClaimFails, Device!Configured, Device!In, Device!Idle, Device!ifaces
<1>2. IfacesTyped' /\ OpenWhole'
  BY <1>1 DEF DeviceInv, DeviceTyped, IfacesTyped, OpenWhole
<1>3. ~nested => \A g \in DeviceHandles, i \in Interfaces : endpoints'[g][i] =>
         interface'[g][i] # "null" /\ endpoints[g][i]
  BY <1>1 DEF DeviceInv, Endpointed
<1> QED BY <1>1, <1>2, <1>3, ReturnKeeps

\* A claim that came as far as QueryInterface.
LEMMA ClaimingKeeps ==
    ASSUME DeviceInv,
           \/ Device!QueryFails \/ Device!OpenFails \/ Device!EndpointsUnknown
           \/ Device!NoSource \/ Device!ClaimSucceeds
    PROVE  DeviceInv'
<1>1. PICK r : /\ Device!Return(r) /\ stack # <<>> /\ Device!Top.f = "claim" /\ UNCHANGED configured
               /\ \/ /\ interface' = Device!Put(interface, "null") \/ interface' = Device!Put(interface, "object")
                     /\ UNCHANGED <<endpoints, source>>
                  \/ /\ interface' = Device!Put(interface, "null")
                     /\ endpoints' = Device!Put(endpoints, FALSE)
                     /\ \E x : /\ source' = Device!Put(source, x)
                               /\ x \in {Device!CFRelease(source[Device!Top.h][Device!Top.n]), "null"}
                  \/ /\ r = "SUCCESS" /\ interface' = Device!Put(interface, "open")
                     /\ endpoints' = Device!Put(endpoints, TRUE)
                     /\ source' = Device!Put(source, "live")
  <2>1. CASE Device!QueryFails
    BY <2>1 DEF Device!QueryFails, Device!Claimable, Device!In, Device!Idle
  <2>2. CASE Device!OpenFails
    BY <2>2 DEF Device!OpenFails, Device!Claimable, Device!In, Device!Idle
  <2>3. CASE Device!EndpointsUnknown
    BY <2>3 DEF Device!EndpointsUnknown, Device!CanOpen, Device!Claimable, Device!In, Device!Idle
  <2>4. CASE Device!NoSource
    BY <2>4 DEF Device!NoSource, Device!CanOpen, Device!Claimable, Device!In, Device!Idle
  <2>5. CASE Device!ClaimSucceeds
    BY <2>5 DEF Device!ClaimSucceeds, Device!CanOpen, Device!Claimable, Device!In, Device!Idle
  <2> QED BY <2>1, <2>2, <2>3, <2>4, <2>5
<1> DEFINE h == Device!Top.h
           n == Device!Top.n
           Here(g, i) == g = h /\ i = n
<1>2. /\ DeviceTyped /\ Device!Top \in Frames /\ h \in DeviceHandles /\ n \in Interfaces
      /\ Len(stack) \in Nat \ {0} /\ Device!Top = stack[Len(stack)] /\ DOMAIN stack = 1..Len(stack)
  <2>1. /\ DeviceTyped /\ Device!Top \in Frames /\ Len(stack) \in Nat \ {0}
        /\ Device!Top = stack[Len(stack)] /\ DOMAIN stack = 1..Len(stack)
    BY <1>1, Caller DEF DeviceInv
  <2>2. n \in Interfaces
    BY <1>1, <2>1 DEF DeviceTyped
  <2> QED BY <2>1, <2>2 DEF Frames
<1>3. /\ interface \in [DeviceHandles -> [Interfaces -> {"null", "object", "open"}]]
      /\ endpoints \in [DeviceHandles -> [Interfaces -> BOOLEAN]]
      /\ source \in [DeviceHandles -> [Interfaces -> Sources]]
  BY <1>2 DEF DeviceTyped, IfacesTyped
<1>4. ASSUME NEW x \in {"null", "object", "open"}, interface' = Device!Put(interface, x)
      PROVE  /\ interface' \in [DeviceHandles -> [Interfaces -> {"null", "object", "open"}]]
             /\ \A g \in DeviceHandles, i \in Interfaces : interface'[g][i] =
                  IF Here(g, i) THEN x ELSE interface[g][i]
  BY <1>2, <1>3, <1>4 DEF Device!Put
<1>5. ASSUME NEW x \in Sources, source' = Device!Put(source, x)
      PROVE  /\ source' \in [DeviceHandles -> [Interfaces -> Sources]]
             /\ \A g \in DeviceHandles, i \in Interfaces : source'[g][i] =
                  IF Here(g, i) THEN x ELSE source[g][i]
  BY <1>2, <1>3, <1>5 DEF Device!Put
<1>6. ASSUME NEW x \in BOOLEAN, endpoints' = Device!Put(endpoints, x)
      PROVE  /\ endpoints' \in [DeviceHandles -> [Interfaces -> BOOLEAN]]
             /\ \A g \in DeviceHandles, i \in Interfaces : endpoints'[g][i] =
                  IF Here(g, i) THEN x ELSE endpoints[g][i]
  <2>1. endpoints' = [endpoints EXCEPT ![h][n] = x]
    BY <1>6 DEF Device!Put
  <2> HIDE DEF h, n
  <2>2. \A g \in DeviceHandles, i \in Interfaces : endpoints'[g][i] = IF Here(g, i) THEN x ELSE endpoints[g][i]
    BY <1>2, <1>3, <2>1
  <2>3. [endpoints[h] EXCEPT ![n] = x] \in [Interfaces -> BOOLEAN]
    <3>1. endpoints[h] \in [Interfaces -> BOOLEAN]
      BY <1>2, <1>3
    <3> QED BY <3>1, Zenon
  <2>4. endpoints' \in [DeviceHandles -> [Interfaces -> BOOLEAN]]
    BY <1>3, <2>1, <2>3, Zenon
  <2> QED BY <2>2, <2>4, Zenon
<1>7. /\ Device!CFRelease(source[h][n]) \in Sources /\ "null" \in Sources /\ "live" \in Sources
      /\ ~nested => ~endpoints[h][n]
  <2>1. source[h][n] \in Sources
    BY <1>2, <1>3
  <2>2. ~nested => ~endpoints[h][n]
    <3>1. CASE Len(stack) = 1
      BY <1>1, <1>2, <3>1 DEF DeviceInv, Shaped, Endpointed
    <3>2. CASE Len(stack) # 1
      <4>1. Len(stack) \in DOMAIN stack /\ Len(stack) > 1
        BY <1>2, <3>2
      <4> QED BY <1>1, <1>2, <4>1 DEF DeviceInv, Awaited
    <3> QED BY <3>1, <3>2
  <2> QED BY <2>1, <2>2 DEF Sources, Device!CFRelease
<1> DEFINE Becomes(x, old, new) == \A g \in DeviceHandles, i \in Interfaces :
             new[g][i] = IF Here(g, i) THEN x ELSE old[g][i]
           Outcome(I, E, S) ==
             \/ I \in {"null", "object"} /\ E = endpoints[h][n] /\ S = source[h][n]
             \/ I = "null" /\ E = FALSE
             \/ I = "open" /\ E = TRUE /\ S = "live" /\ r = "SUCCESS"
<1>8. /\ IfacesTyped'
      /\ \E I, E, S : /\ Becomes(I, interface, interface') /\ Becomes(E, endpoints, endpoints')
                      /\ Becomes(S, source, source') /\ Outcome(I, E, S)
  <2> HIDE DEF h, n
  <2>1. CASE /\ interface' = Device!Put(interface, "null") \/ interface' = Device!Put(interface, "object")
             /\ UNCHANGED <<endpoints, source>>
    <3>1. PICK I \in {"null", "object"} : interface' = Device!Put(interface, I)
      BY <2>1
    <3>2. I \in {"null", "object", "open"}
      BY <3>1
    <3>3. Becomes(I, interface, interface') /\ IfacesTyped'
      BY <1>3, <1>4, <2>1, <3>1, <3>2 DEF IfacesTyped
    <3>4. Becomes(endpoints[h][n], endpoints, endpoints') /\ Becomes(source[h][n], source, source')
      BY <2>1
    <3> QED BY <3>1, <3>3, <3>4
  <2>2. CASE /\ interface' = Device!Put(interface, "null")
             /\ endpoints' = Device!Put(endpoints, FALSE)
             /\ \E x : /\ source' = Device!Put(source, x)
                       /\ x \in {Device!CFRelease(source[Device!Top.h][Device!Top.n]), "null"}
    <3>1. PICK x \in Sources : source' = Device!Put(source, x)
      BY <1>7, <2>2 DEF h, n
    <3>2. Becomes("null", interface, interface') /\ Becomes(FALSE, endpoints, endpoints')
          /\ Becomes(x, source, source') /\ IfacesTyped'
      <4>1. "null" \in {"null", "object", "open"} /\ FALSE \in BOOLEAN
        OBVIOUS
      <4>2. IfacesTyped'
        BY <1>4, <1>5, <1>6, <2>2, <3>1, <4>1, Zenon DEF IfacesTyped
      <4>3. Becomes("null", interface, interface')
        BY <1>4, <2>2, <4>1, Zenon
      <4>4. Becomes(FALSE, endpoints, endpoints')
        BY <1>6, <2>2, <4>1, Zenon
      <4>5. Becomes(x, source, source')
        BY <1>5, <3>1, Zenon
      <4> QED BY <4>2, <4>3, <4>4, <4>5
    <3>3. Outcome("null", FALSE, x)
      OBVIOUS
    <3> HIDE DEF Outcome, Becomes
    <3> QED BY <3>2, <3>3, Zenon
  <2>3. CASE /\ r = "SUCCESS" /\ interface' = Device!Put(interface, "open")
             /\ endpoints' = Device!Put(endpoints, TRUE) /\ source' = Device!Put(source, "live")
    <3>1. "open" \in {"null", "object", "open"} /\ TRUE \in BOOLEAN /\ "live" \in Sources
      BY <1>7
    <3>2. IfacesTyped'
      BY <1>4, <1>5, <1>6, <2>3, <3>1, Zenon DEF IfacesTyped
    <3>3. Becomes("open", interface, interface')
      BY <1>4, <2>3, <3>1, Zenon
    <3>4. Becomes(TRUE, endpoints, endpoints')
      BY <1>6, <2>3, <3>1, Zenon
    <3>5. Becomes("live", source, source')
      BY <1>5, <2>3, <3>1, Zenon
    <3> QED BY <2>3, <3>2, <3>3, <3>4, <3>5
  <2> QED BY <1>1, <2>1, <2>2, <2>3
<1>9. PICK I, E, S :
        /\ Becomes(I, interface, interface') /\ Becomes(E, endpoints, endpoints')
        /\ Becomes(S, source, source') /\ Outcome(I, E, S)
  BY <1>8
<1>10. OpenWhole'
  <2> SUFFICES ASSUME NEW g \in DeviceHandles, NEW i \in Interfaces, interface'[g][i] = "open"
               PROVE  source'[g][i] = "live" /\ endpoints'[g][i]
    BY DEF OpenWhole
  <2>1. CASE Here(g, i)
    <3>1. I = "open" /\ endpoints'[g][i] = E /\ source'[g][i] = S
      BY <1>9, <2>1
    <3>2. E = TRUE /\ S = "live"
      BY <1>9, <3>1
    <3> QED BY <3>1, <3>2, Zenon
  <2>2. CASE ~Here(g, i)
    <3>1. /\ interface[g][i] = "open" /\ endpoints'[g][i] = endpoints[g][i]
          /\ source'[g][i] = source[g][i]
      BY <1>9, <2>2
    <3>2. source[g][i] = "live" /\ endpoints[g][i]
      BY <3>1 DEF DeviceInv, OpenWhole
    <3> QED BY <3>1, <3>2, Zenon
  <2> QED BY <2>1, <2>2
<1>11. ASSUME ~nested, NEW g \in DeviceHandles, NEW i \in Interfaces, endpoints'[g][i]
       PROVE  /\ interface'[g][i] # "null"
              /\ endpoints[g][i] \/ (r = "SUCCESS" /\ Here(g, i))
  <2>1. CASE Here(g, i)
    <3>1. endpoints'[g][i] = E /\ interface'[g][i] = I
      BY <1>9, <2>1
    <3>2. E # FALSE /\ E # endpoints[h][n]
      <4>1. E
        BY <1>11, <3>1, Zenon
      <4> QED BY <1>7, <1>11, <4>1, Zenon
    <3>3. I = "open" /\ r = "SUCCESS"
      BY <1>9, <3>2
    <3> QED BY <2>1, <3>1, <3>3
  <2>2. CASE ~Here(g, i)
    <3>1. endpoints'[g][i] = endpoints[g][i] /\ interface'[g][i] = interface[g][i]
      BY <1>9, <2>2
    <3>2. endpoints[g][i]
      BY <1>11, <3>1, Zenon
    <3>3. interface[g][i] # "null"
      BY <1>11, <3>2 DEF DeviceInv, Endpointed
    <3> QED BY <3>1, <3>2, <3>3
  <2> QED BY <2>1, <2>2
<1>12. IfacesTyped'
  BY <1>8
<1> QED BY <1>1, <1>10, <1>11, <1>12, ReturnKeeps

LEMMA SetFailsKeeps == ASSUME DeviceInv, Device!SetConfigurationFails PROVE DeviceInv'
<1> DEFINE h == Device!Top.h
<1>1. /\ stack # <<>> /\ Device!Return("OTHER") /\ Device!Released(h, claimed[h])
      /\ UNCHANGED configured
  BY DEF Device!SetConfigurationFails, Device!In, Device!Idle
<1>2. h \in DeviceHandles /\ DeviceTyped /\ claimed[h] \in SUBSET Interfaces
  <2>1. Device!Top \in Frames
    BY <1>1, Caller DEF DeviceInv
  <2> QED BY <2>1 DEF Frames, DeviceInv, DeviceTyped
<1> HIDE DEF h
<1>3. /\ IfacesTyped' /\ (OpenWhole => OpenWhole')
      /\ \A g \in DeviceHandles, i \in Interfaces : endpoints'[g][i] =>
           /\ endpoints[g][i] /\ (interface[g][i] # "null" => interface'[g][i] # "null")
  BY <1>1, <1>2, ReleasedKeeps
<1>4. ~nested => \A g \in DeviceHandles, i \in Interfaces : endpoints'[g][i] =>
         interface'[g][i] # "null" /\ endpoints[g][i]
  BY <1>3 DEF DeviceInv, Endpointed
<1>5. OpenWhole'
  BY <1>3 DEF DeviceInv
<1> QED BY <1>1, <1>3, <1>4, <1>5, ReturnKeeps

\* The device has another configuration from now on; what was claimed is to be
\* claimed again.
LEMMA SetKeeps == ASSUME DeviceInv, Device!SetConfiguration PROVE DeviceInv'
<1> DEFINE h == Device!Top.h
           w == Device!Waiting("reclaim", claimed[h])
           L == Len(stack)
<1>1. /\ stack # <<>> /\ Device!Top.f = "set" /\ Device!Top.at = "start"
      /\ configured' = Device!Top.n /\ Device!Released(h, claimed[h])
      /\ stack' = Append(Device!Caller, w) /\ UNCHANGED <<claimed, nested>>
  BY DEF Device!SetConfiguration, Device!In, Device!Idle
<1>2. /\ Device!Caller \in Seq(Frames) /\ Len(Device!Caller) = L - 1
      /\ \A k \in 1..(L - 1) : Device!Caller[k] = stack[k]
      /\ L \in Nat \ {0} /\ Device!Top = stack[L] /\ Device!Top \in Frames
      /\ DOMAIN stack = 1..L /\ DeviceTyped
  BY <1>1, Caller DEF DeviceInv
<1>3. h \in DeviceHandles /\ claimed[h] \in SUBSET Interfaces
  BY <1>2 DEF Frames, DeviceTyped
<1>4. /\ w \in Frames /\ w.f = "set" /\ w.n = Device!Top.n /\ w.at = "reclaim"
      /\ w.h = h /\ w.todo = claimed[h]
  BY <1>1, <1>2, <1>3 DEF Device!Waiting, Frames
<1> HIDE DEF w
<1>5. /\ stack' \in Seq(Frames) /\ Len(stack') = L /\ stack'[L] = w
      /\ \A k \in 1..(L - 1) : stack'[k] = stack[k]
      /\ DOMAIN stack' = 1..L
  BY <1>1, <1>2, <1>4, Replaced
<1> HIDE DEF L, h
<1>6. /\ IfacesTyped' /\ (OpenWhole => OpenWhole')
      /\ \A g \in DeviceHandles, i \in Interfaces : endpoints'[g][i] =>
           /\ endpoints[g][i]
           /\ interface[g][i] # "null" => interface'[g][i] # "null" /\ ~(g = h /\ i \in claimed[h])
  BY <1>1, <1>2, <1>3, ReleasedKeeps
<1>7. /\ \A k \in 1..L : k # L => k \in 1..(L - 1)
      /\ \A k \in 1..L : /\ stack'[k].f = stack[k].f /\ stack'[k].h = stack[k].h
                         /\ stack'[k].n = stack[k].n
      /\ \A k \in 1..L : k < L => stack'[k] = stack[k] /\ k + 1 \in 1..L
      /\ 1 \in 1..L /\ L \in 1..L
  BY <1>1, <1>2, <1>4, <1>5 DEF h
<1>8. DeviceTyped'
  <2>1. \A k \in DOMAIN stack' : stack'[k].f = "claim" => stack'[k].n \in Interfaces
    BY <1>2, <1>5, <1>7 DEF DeviceTyped
  <2> QED BY <1>1, <1>2, <1>5, <1>6, <2>1 DEF DeviceTyped
<1>9. OpenWhole'
  BY <1>6 DEF DeviceInv
<1>10. Shaped'
  <2>1. \A k \in DOMAIN stack' : stack'[k].h = stack'[1].h
    BY <1>2, <1>5, <1>7 DEF DeviceInv, Shaped
  <2>2. ASSUME NEW k \in DOMAIN stack', k < Len(stack')
        PROVE  /\ stack'[k].at = IF stack'[k].f = "set" THEN "reclaim" ELSE "configured"
               /\ stack'[k].f # stack'[k + 1].f
               /\ stack'[k].f = "set" =>
                    stack'[k + 1].n \in claimed'[stack'[k].h] \ stack'[k].todo
               /\ stack'[k].f = "claim" => stack'[k + 1].n = first_config
    <3>1. k \in DOMAIN stack /\ k < Len(stack) /\ stack'[k] = stack[k] /\ k + 1 \in 1..L
      BY <1>2, <1>5, <1>7, <2>2 DEF L
    <3>2. stack'[k + 1].f = stack[k + 1].f /\ stack'[k + 1].n = stack[k + 1].n
      BY <1>7, <3>1
    <3> QED BY <1>1, <3>1, <3>2 DEF DeviceInv, Shaped
  <2>3. ASSUME NEW k \in DOMAIN stack', stack'[k].f = "set"
        PROVE  stack'[k].todo \subseteq claimed'[stack'[k].h]
    <3>1. CASE k = L
      <4>1. stack'[k].todo = claimed[h] /\ stack'[k].h = h
        BY <1>4, <1>5, <3>1
      <4> QED BY <1>1, <4>1
    <3>2. CASE k # L
      <4>1. stack'[k] = stack[k] /\ k \in DOMAIN stack
        BY <1>2, <1>5, <1>7, <3>2
      <4> QED BY <1>1, <2>3, <4>1 DEF DeviceInv, Shaped
    <3> QED BY <3>1, <3>2
  <2>4. stack'[1].f = "claim" => stack'[1].n \notin claimed'[stack'[1].h]
    BY <1>1, <1>7 DEF DeviceInv, Shaped
  <2> QED BY <2>1, <2>2, <2>3, <2>4 DEF Shaped
<1>11. Followed'
  <2> SUFFICES ASSUME NEW k \in DOMAIN stack', Resets(k)'
               PROVE  /\ configured' = stack'[k].n \/ (configured' = first_config /\ Lacks(k)')
                      /\ k + 2 <= Len(stack') => Lacks(k)'
    BY DEF Followed
  <2>1. CASE k = L
    BY <1>1, <1>2, <1>4, <1>5, <2>1
  <2>2. CASE k # L
    <3>1. k \in 1..L /\ k < L /\ stack'[k] = stack[k] /\ k \in DOMAIN stack /\ k + 1 \in DOMAIN stack
          /\ stack[k].f = "set"
      BY <1>2, <1>5, <1>7, <2>2 DEF Resets
    <3>2. k + 2 <= L
      <4>1. stack[k + 1].f # "set"
        BY <3>1 DEF DeviceInv, Shaped, L
      <4>2. k + 1 # L
        BY <1>1, <1>2, <4>1
      <4> QED BY <1>2, <3>1, <4>2
    <3>3. Resets(k) /\ (Lacks(k)' <=> Lacks(k))
      BY <1>1, <3>1 DEF Resets, Lacks, Device!Present
    <3>4. Lacks(k)
      BY <3>1, <3>2, <3>3 DEF DeviceInv, Followed, L
    <3>5. configured' = first_config
      <4> DEFINE m == L - 1
      <4>1. m \in DOMAIN stack /\ m < L /\ m + 1 = L /\ m + 1 \in DOMAIN stack
        BY <1>2, <3>1
      <4> HIDE DEF m
      <4>2. stack[m].f # "set" /\ stack[m] \in Frames
        BY <1>1, <1>2, <4>1 DEF DeviceInv, Shaped, L, DeviceTyped
      <4>3. stack[m].f = "claim"
        BY <4>2 DEF Frames
      <4> QED BY <1>1, <1>2, <4>1, <4>3 DEF DeviceInv, Shaped, L
    <3> QED BY <3>3, <3>4, <3>5
  <2> QED BY <2>1, <2>2
<1>12. ASSUME ~nested' PROVE Endpointed' /\ Awaited'
  <2>1. Endpointed /\ Awaited
    BY <1>1, <1>12 DEF DeviceInv
  <2>2. Endpointed'
    BY <1>1, <1>6, <2>1 DEF Endpointed
  <2>3. ASSUME NEW k \in DOMAIN stack', stack'[k].f = "claim", k > 1 PROVE FALSE
    <3>1. k \in DOMAIN stack /\ k # L /\ stack[k].f = "claim"
      BY <1>1, <1>2, <1>4, <1>5, <1>7, <2>3
    <3> QED BY <2>1, <2>3, <3>1 DEF Awaited, L
  <2>4. ASSUME NEW k \in DOMAIN stack', stack'[k].f = "set", NEW i \in stack'[k].todo,
               endpoints'[stack'[k].h][i]
        PROVE  FALSE
    <3>1. k \in DOMAIN stack /\ stack'[k].h = stack[k].h /\ stack[k].h \in DeviceHandles
      <4>1. k \in DOMAIN stack /\ stack'[k].h = stack[k].h
        BY <1>2, <1>5, <1>7
      <4>2. stack[k] \in Frames
        BY <1>2, <4>1 DEF DeviceTyped
      <4> QED BY <4>1, <4>2 DEF Frames
    <3>2. i \in Interfaces
      <4>1. stack'[k] \in Frames
        BY <1>5
      <4> QED BY <2>4, <4>1 DEF Frames
    <3>3. CASE k = L
      <4>1. stack'[k].h = h /\ i \in claimed[h]
        BY <1>4, <1>5, <2>4, <3>3
      <4>2. endpoints[h][i] /\ interface[h][i] # "null"
        BY <1>3, <1>6, <2>1, <2>4, <3>2, <4>1 DEF Endpointed
      <4> QED BY <1>3, <1>6, <2>4, <3>2, <4>1, <4>2
    <3>4. CASE k # L
      <4>1. stack'[k] = stack[k]
        BY <1>5, <1>7, <3>4
      <4>2. endpoints[stack[k].h][i]
        BY <1>6, <2>4, <3>1, <3>2
      <4> QED BY <2>1, <2>4, <3>1, <4>1, <4>2 DEF Awaited
    <3> QED BY <3>3, <3>4
  <2> QED BY <2>2, <2>3, <2>4 DEF Awaited
<1> QED BY <1>8, <1>9, <1>10, <1>11, <1>12 DEF DeviceInv

\* darwin_claim_interface sets the first configuration.
LEMMA ConfiguresKeeps == ASSUME DeviceInv, Device!ClaimConfigures PROVE DeviceInv'
<1> DEFINE frame == Device!SetFrame(Device!Top.h, first_config)
           L == Len(stack)
<1>1. /\ stack # <<>> /\ Device!Top.f = "claim" /\ Device!Top.at = "look"
      /\ Device!Top.n \notin Device!Present(configured)
      /\ Device!CallOf(frame, "configured", {}) /\ nested' = (nested \/ L > 1)
      /\ UNCHANGED <<configured, claimed, interface, endpoints, source>>
  BY DEF Device!ClaimConfigures, Device!In, Device!Idle, Device!ifaces, Device!Exists
<1>2. /\ L \in Nat \ {0} /\ Device!Top = stack[L] /\ Device!Top \in Frames
      /\ DOMAIN stack = 1..L /\ DeviceTyped /\ Device!Top.h \in DeviceHandles
  BY <1>1, Caller DEF DeviceInv, Frames
<1>3. /\ frame \in Frames /\ frame.f = "set" /\ frame.at = "start" /\ frame.todo = {}
      /\ frame.h = Device!Top.h /\ frame.n = first_config
  BY <1>2, DeviceAssumption DEF Device!SetFrame, Frames, Device!InterfacesAssumption
<1> HIDE DEF frame
<1>4. /\ stack' \in Seq(Frames) /\ Len(stack') = L + 1 /\ DOMAIN stack' = 1..(L + 1)
      /\ stack'[L + 1] = frame
      /\ \A k \in 1..(L - 1) : stack'[k] = stack[k]
      /\ \A k \in 1..L : /\ stack'[k].f = stack[k].f /\ stack'[k].h = stack[k].h
                         /\ stack'[k].n = stack[k].n
      /\ stack'[L].at = "configured"
  <2>1. {} \in SUBSET Interfaces
    OBVIOUS
  <2> QED BY <1>1, <1>2, <1>3, <2>1, Pushed
<1> HIDE DEF L
<1>5. /\ \A k \in 1..(L + 1) : k = L + 1 \/ k = L \/ (k \in 1..(L - 1) /\ k < L)
      /\ \A k \in 1..L : k \in 1..(L + 1) /\ k + 1 \in 1..(L + 1)
      /\ 1 \in 1..L /\ L \in 1..L /\ \A k \in 1..(L - 1) : k \in 1..L /\ k + 1 \in 1..L
  BY <1>2
<1>6. stack[L].f = "claim" /\ stack[L].h = Device!Top.h
  BY <1>1, <1>2
<1>7. DeviceTyped'
  <2>1. ASSUME NEW k \in DOMAIN stack', stack'[k].f = "claim" PROVE stack'[k].n \in Interfaces
    <3>1. k \in 1..L
      BY <1>3, <1>4, <1>5, <2>1
    <3> QED BY <1>2, <1>4, <2>1, <3>1 DEF DeviceTyped
  <2>2. nested' \in BOOLEAN
    BY <1>1
  <2> QED BY <1>1, <1>2, <1>4, <2>1, <2>2 DEF DeviceTyped, IfacesTyped
<1>8. OpenWhole'
  BY <1>1 DEF DeviceInv, OpenWhole
<1>9. Shaped'
  <2>1. \A k \in DOMAIN stack' : stack'[k].h = stack'[1].h
    BY <1>2, <1>3, <1>4, <1>5, <1>6 DEF DeviceInv, Shaped
  <2>2. ASSUME NEW k \in DOMAIN stack', k < Len(stack')
        PROVE  /\ stack'[k].at = IF stack'[k].f = "set" THEN "reclaim" ELSE "configured"
               /\ stack'[k].f # stack'[k + 1].f
               /\ stack'[k].f = "set" =>
                    stack'[k + 1].n \in claimed'[stack'[k].h] \ stack'[k].todo
               /\ stack'[k].f = "claim" => stack'[k + 1].n = first_config
    <3>1. CASE k = L
      BY <1>3, <1>4, <1>5, <1>6, <3>1
    <3>2. CASE k \in 1..(L - 1) /\ k < L
      <4>1. stack'[k] = stack[k] /\ k \in DOMAIN stack /\ k + 1 \in 1..L
        BY <1>2, <1>4, <1>5, <3>2
      <4>2. stack'[k + 1].f = stack[k + 1].f /\ stack'[k + 1].n = stack[k + 1].n
        BY <1>4, <4>1
      <4> QED BY <1>1, <3>2, <4>1, <4>2 DEF DeviceInv, Shaped, L
    <3> QED BY <1>2, <1>4, <1>5, <2>2, <3>1, <3>2
  <2>3. ASSUME NEW k \in DOMAIN stack', stack'[k].f = "set"
        PROVE  stack'[k].todo \subseteq claimed'[stack'[k].h]
    <3>1. CASE k = L + 1
      BY <1>3, <1>4, <3>1
    <3>2. CASE k \in 1..(L - 1)
      BY <1>1, <1>2, <1>4, <1>5, <2>3, <3>2 DEF DeviceInv, Shaped
    <3>3. k # L
      BY <1>4, <1>5, <1>6, <2>3
    <3> QED BY <1>4, <1>5, <3>1, <3>2, <3>3
  <2>4. stack'[1].f = "claim" => stack'[1].n \notin claimed'[stack'[1].h]
    BY <1>1, <1>4, <1>5 DEF DeviceInv, Shaped
  <2> QED BY <2>1, <2>2, <2>3, <2>4 DEF Shaped
<1>10. Followed'
  <2> SUFFICES ASSUME NEW k \in DOMAIN stack', Resets(k)'
               PROVE  /\ configured' = stack'[k].n \/ (configured' = first_config /\ Lacks(k)')
                      /\ k + 2 <= Len(stack') => Lacks(k)'
    BY DEF Followed
  <2>1. k \in 1..(L - 1) /\ k < L
    <3>1. stack'[k].f = "set" /\ stack'[k].at = "reclaim"
      BY DEF Resets
    <3>2. k # L + 1 /\ k # L
      BY <1>3, <1>4, <1>5, <1>6, <3>1
    <3> QED BY <1>4, <1>5, <3>2
  <2>2. stack'[k] = stack[k] /\ k \in DOMAIN stack /\ k + 1 \in DOMAIN stack
    BY <1>2, <1>4, <1>5, <2>1
  <2>3. Resets(k) /\ (Lacks(k)' <=> Lacks(k))
    BY <1>1, <2>2 DEF Resets, Lacks, Device!Present
  <2>4. /\ configured = stack[k].n \/ (configured = first_config /\ Lacks(k))
        /\ k + 2 <= L => Lacks(k)
    BY <2>2, <2>3 DEF DeviceInv, Followed, L
  <2>5. ASSUME k + 2 <= Len(stack') PROVE Lacks(k)
    <3>1. CASE k + 2 <= L
      BY <2>4, <3>1
    <3>2. CASE k + 1 = L
      <4>1. Device!Top.n \in claimed[stack[k].h]
        BY <1>2, <2>1, <2>2, <2>3, <3>2 DEF DeviceInv, Shaped, L, Resets
      <4>2. configured = stack[k].n => Device!Top.n \notin Device!Present(stack[k].n)
        BY <1>1
      <4> QED BY <2>4, <4>1, <4>2 DEF Lacks
    <3> QED BY <1>2, <1>4, <2>1, <2>5, <3>1, <3>2
  <2> QED BY <1>1, <2>2, <2>3, <2>4, <2>5
<1>11. ASSUME ~nested' PROVE Endpointed' /\ Awaited'
  <2>1. ~nested /\ L = 1
    <3>1. ~nested /\ ~(L > 1)
      BY <1>1, <1>11, Zenon
    <3> QED BY <1>2, <3>1
  <2>2. Endpointed'
    BY <1>1, <2>1 DEF DeviceInv, Endpointed
  <2>3. /\ DOMAIN stack' = 1..2 /\ stack'[1].f = "claim" /\ stack'[2].f = "set" /\ stack'[2].todo = {}
    BY <1>3, <1>4, <1>5, <1>6, <2>1
  <2>4. \A k \in 1..2 : k = 1 \/ k = 2
    OBVIOUS
  <2> QED BY <2>2, <2>3, <2>4 DEF Awaited
<1> QED BY <1>7, <1>8, <1>9, <1>10, <1>11 DEF DeviceInv

\* darwin_set_configuration claims the next interface again.
LEMMA ReclaimKeeps == ASSUME DeviceInv, Device!Reclaim PROVE DeviceInv'
<1> DEFINE i == CHOOSE i \in Device!Top.todo : \A j \in Device!Top.todo : i <= j
           frame == Device!ClaimFrame(Device!Top.h, i)
           rest == Device!Top.todo \ {i}
           L == Len(stack)
<1>1. /\ stack # <<>> /\ Device!Top.f = "set" /\ Device!Top.at = "reclaim" /\ Device!Top.todo # {}
      /\ Device!CallOf(frame, "reclaim", rest)
      /\ UNCHANGED <<configured, claimed, interface, endpoints, source, nested>>
  BY DEF Device!Reclaim, Device!In, Device!Idle, Device!ifaces
<1>2. /\ L \in Nat \ {0} /\ Device!Top = stack[L] /\ Device!Top \in Frames
      /\ DOMAIN stack = 1..L /\ DeviceTyped /\ Device!Top.h \in DeviceHandles
      /\ Device!Top.todo \in SUBSET Interfaces
  BY <1>1, Caller DEF DeviceInv, Frames
<1>3. i \in Device!Top.todo
  <2>1. Device!Top.todo \subseteq Nat
    <3>1. Interfaces \subseteq Nat
      BY DeviceAssumption, Zenon DEF Device!InterfacesAssumption
    <3> QED BY <1>2, <3>1, Zenon
  <2> DEFINE R == OpToRel(<, Nat)
  <2>2. IsWellFoundedOn(R, Nat)
    BY NatLessThanWellFounded, Zenon
  <2>3. R = {ss \in Nat \X Nat : ss[1] < ss[2]}
    BY Zenon DEF OpToRel
  <2> HIDE DEF R
  <2>4. PICK x \in Device!Top.todo : \A y \in Device!Top.todo : <<y, x>> \notin R
    BY <1>1, <2>1, <2>2, WFMin
  <2>5. ASSUME NEW y \in Device!Top.todo PROVE x <= y
    <3>1. <<y, x>> \in Nat \X Nat /\ <<y, x>>[1] = y /\ <<y, x>>[2] = x
      BY <2>1
    <3>2. ~(y < x)
      BY <2>3, <2>4, <3>1, Zenon
    <3> QED BY <2>1, <3>2
  <2> QED BY <2>5
<1> HIDE DEF i
<1>4. /\ frame \in Frames /\ frame.f = "claim" /\ frame.at = "look" /\ frame.n = i
      /\ frame.h = Device!Top.h /\ i \in Interfaces
      /\ rest \in SUBSET Interfaces /\ rest \subseteq Device!Top.todo /\ i \notin rest
  BY <1>2, <1>3 DEF Device!ClaimFrame, Frames
<1> HIDE DEF frame, rest
<1>5. /\ stack' \in Seq(Frames) /\ Len(stack') = L + 1 /\ DOMAIN stack' = 1..(L + 1)
      /\ stack'[L + 1] = frame
      /\ \A k \in 1..(L - 1) : stack'[k] = stack[k]
      /\ \A k \in 1..L : /\ stack'[k].f = stack[k].f /\ stack'[k].h = stack[k].h
                         /\ stack'[k].n = stack[k].n
      /\ stack'[L].at = "reclaim" /\ stack'[L].todo = rest
  BY <1>1, <1>2, <1>4, Pushed
<1> HIDE DEF L
<1>6. /\ \A k \in 1..(L + 1) : k = L + 1 \/ k = L \/ (k \in 1..(L - 1) /\ k < L)
      /\ \A k \in 1..L : k \in 1..(L + 1) /\ k + 1 \in 1..(L + 1)
      /\ 1 \in 1..L /\ L \in 1..L /\ \A k \in 1..(L - 1) : k \in 1..L /\ k + 1 \in 1..L
  BY <1>2
<1>7. /\ stack[L].f = "set" /\ stack[L].h = Device!Top.h /\ Device!Top.todo \subseteq claimed[stack[L].h]
      /\ stack[L].todo = Device!Top.todo
  BY <1>1, <1>2, <1>6 DEF DeviceInv, Shaped
<1>8. DeviceTyped'
  <2>1. ASSUME NEW k \in DOMAIN stack', stack'[k].f = "claim" PROVE stack'[k].n \in Interfaces
    <3>1. CASE k \in 1..L
      BY <1>2, <1>5, <2>1, <3>1 DEF DeviceTyped
    <3>2. CASE k = L + 1
      BY <1>4, <1>5, <3>2
    <3> QED BY <1>5, <1>6, <3>1, <3>2
  <2> QED BY <1>1, <1>2, <1>5, <2>1 DEF DeviceTyped, IfacesTyped
<1>9. OpenWhole'
  BY <1>1 DEF DeviceInv, OpenWhole
<1>10. Shaped'
  <2>1. \A k \in DOMAIN stack' : stack'[k].h = stack'[1].h
    BY <1>2, <1>4, <1>5, <1>6, <1>7 DEF DeviceInv, Shaped
  <2>2. ASSUME NEW k \in DOMAIN stack', k < Len(stack')
        PROVE  /\ stack'[k].at = IF stack'[k].f = "set" THEN "reclaim" ELSE "configured"
               /\ stack'[k].f # stack'[k + 1].f
               /\ stack'[k].f = "set" =>
                    stack'[k + 1].n \in claimed'[stack'[k].h] \ stack'[k].todo
               /\ stack'[k].f = "claim" => stack'[k + 1].n = first_config
    <3>1. CASE k = L
      <4>1. i \in claimed'[stack'[L].h] \ stack'[L].todo
        BY <1>1, <1>3, <1>4, <1>5, <1>6, <1>7
      <4> QED BY <1>4, <1>5, <1>6, <1>7, <3>1, <4>1
    <3>2. CASE k \in 1..(L - 1) /\ k < L
      <4>1. stack'[k] = stack[k] /\ k \in DOMAIN stack /\ k + 1 \in 1..L
        BY <1>2, <1>5, <1>6, <3>2
      <4>2. stack'[k + 1].f = stack[k + 1].f /\ stack'[k + 1].n = stack[k + 1].n
        BY <1>5, <4>1
      <4> QED BY <1>1, <3>2, <4>1, <4>2 DEF DeviceInv, Shaped, L
    <3> QED BY <1>2, <1>5, <1>6, <2>2, <3>1, <3>2
  <2>3. ASSUME NEW k \in DOMAIN stack', stack'[k].f = "set"
        PROVE  stack'[k].todo \subseteq claimed'[stack'[k].h]
    <3>1. k # L + 1
      BY <1>4, <1>5, <2>3
    <3>2. CASE k \in 1..(L - 1)
      BY <1>1, <1>2, <1>5, <1>6, <2>3, <3>2 DEF DeviceInv, Shaped
    <3>3. CASE k = L
      BY <1>1, <1>4, <1>5, <1>6, <1>7, <3>3
    <3> QED BY <1>5, <1>6, <3>1, <3>2, <3>3
  <2>4. stack'[1].f = "claim" => stack'[1].n \notin claimed'[stack'[1].h]
    BY <1>1, <1>5, <1>6 DEF DeviceInv, Shaped
  <2> QED BY <2>1, <2>2, <2>3, <2>4 DEF Shaped
<1>11. Followed'
  <2> SUFFICES ASSUME NEW k \in DOMAIN stack', Resets(k)'
               PROVE  /\ configured' = stack'[k].n \/ (configured' = first_config /\ Lacks(k)')
                      /\ k + 2 <= Len(stack') => Lacks(k)'
    BY DEF Followed
  <2>1. k # L + 1
    BY <1>4, <1>5 DEF Resets
  <2>2. k \in DOMAIN stack
    BY <1>2, <1>5, <1>6, <2>1
  <2>3. /\ stack'[k].n = stack[k].n /\ stack'[k].h = stack[k].h /\ Resets(k)
        /\ k = L \/ (k < L /\ k + 1 \in DOMAIN stack /\ k + 1 \in 1..L)
    <3>1. CASE k = L
      BY <1>1, <1>2, <1>5, <1>6, <3>1 DEF Resets
    <3>2. CASE k \in 1..(L - 1) /\ k < L
      BY <1>2, <1>5, <1>6, <3>2 DEF Resets
    <3> QED BY <1>5, <1>6, <2>1, <3>1, <3>2
  <2>4. Lacks(k)' <=> Lacks(k)
    BY <1>1, <2>3 DEF Lacks, Device!Present
  <2>5. /\ configured = stack[k].n \/ (configured = first_config /\ Lacks(k))
        /\ k + 2 <= L => Lacks(k)
    BY <2>2, <2>3 DEF DeviceInv, Followed, L
  <2>6. k + 2 <= Len(stack') => k + 2 <= L
    <3>1. ASSUME k + 1 = L PROVE FALSE
      <4>1. stack[k].f # stack[L].f
        BY <2>2, <2>3, <3>1 DEF DeviceInv, Shaped, L
      <4> QED BY <1>7, <2>3, <4>1 DEF Resets
    <3> QED BY <1>2, <1>5, <2>3, <3>1
  <2> QED BY <1>1, <2>3, <2>4, <2>5, <2>6
<1>12. ASSUME ~nested' PROVE Endpointed' /\ Awaited'
  <2>1. Endpointed /\ Awaited
    BY <1>1, <1>12 DEF DeviceInv
  <2>2. Endpointed'
    BY <1>1, <2>1 DEF Endpointed
  <2>3. ASSUME NEW k \in DOMAIN stack', stack'[k].f = "claim", k > 1
        PROVE  /\ stack'[k].at = "look" /\ k = Len(stack')
               /\ ~endpoints'[stack'[k].h][stack'[k].n]
    <3>1. CASE k = L + 1
      <4>1. ~endpoints[stack[L].h][i]
        BY <1>2, <1>3, <1>6, <1>7, <2>1 DEF Awaited
      <4> QED BY <1>1, <1>4, <1>5, <1>7, <3>1, <4>1
    <3>2. CASE k \in 1..L
      <4>1. k = L
        BY <1>2, <1>5, <2>1, <2>3, <3>2 DEF Awaited, L
      <4> QED BY <1>5, <1>7, <2>3, <3>2, <4>1
    <3> QED BY <1>5, <1>6, <3>1, <3>2
  <2>4. ASSUME NEW k \in DOMAIN stack', stack'[k].f = "set", NEW j \in stack'[k].todo
        PROVE  ~endpoints'[stack'[k].h][j]
    <3>1. k \in 1..L
      BY <1>4, <1>5, <1>6, <2>4
    <3>2. j \in stack[k].todo
      <4>1. CASE k = L
        BY <1>4, <1>5, <1>7, <2>4, <4>1
      <4>2. CASE k \in 1..(L - 1)
        BY <1>5, <2>4, <4>2
      <4> QED BY <1>2, <3>1, <4>1, <4>2
    <3> QED BY <1>1, <1>2, <1>5, <2>1, <2>4, <3>1, <3>2 DEF Awaited
  <2> QED BY <2>2, <2>3, <2>4 DEF Awaited
<1> QED BY <1>8, <1>9, <1>10, <1>11, <1>12 DEF DeviceInv

LEMMA BeginKeeps == ASSUME DeviceInv, NEW h \in DeviceHandles, Device!Begin(h) PROVE DeviceInv'
<1>1. PICK frame : /\ stack' = <<frame>>
                   /\ \/ \E i \in Interfaces \ claimed[h] : frame = Device!ClaimFrame(h, i)
                      \/ \E c \in Configs \cup {0} : frame = Device!SetFrame(h, c)
  BY DEF Device!Begin
<1>2. /\ stack = <<>>
      /\ UNCHANGED <<configured, claimed, interface, endpoints, source, nested>>
  BY DEF Device!Begin, Device!Idle, Device!ifaces
<1>3. /\ frame \in Frames /\ frame.at \in {"look", "start"} /\ frame.todo = {}
      /\ frame.f = "claim" => frame.n \in Interfaces /\ frame.n \notin claimed[frame.h]
  BY <1>1 DEF Frames, Device!ClaimFrame, Device!SetFrame
<1>4. /\ stack' \in Seq(Frames) /\ DOMAIN stack' = {1} /\ stack'[1] = frame /\ Len(stack') = 1
  BY <1>1, <1>3
<1>5. DeviceTyped'
  BY <1>2, <1>3, <1>4 DEF DeviceInv, DeviceTyped, IfacesTyped
<1>6. OpenWhole' /\ (~nested' => Endpointed')
  BY <1>2 DEF DeviceInv, OpenWhole, Endpointed
<1>7. Shaped'
  BY <1>2, <1>3, <1>4 DEF Shaped
<1>8. Followed'
  BY <1>3, <1>4 DEF Followed, Resets
<1>9. Awaited'
  BY <1>3, <1>4 DEF Awaited
<1> QED BY <1>5, <1>6, <1>7, <1>8, <1>9 DEF DeviceInv

LEMMA DeviceKeeps == ASSUME DeviceInv, Device!Next PROVE DeviceInv'
<1>1. ASSUME NEW h \in DeviceHandles,
             \/ Device!darwin_open(h) \/ Device!darwin_close(h) \/ Device!darwin_reset_device(h)
             \/ Device!Begin(h)
             \/ \E i \in Interfaces : \/ Device!darwin_release_interface(h, i)
                                      \/ Device!darwin_set_interface_altsetting(h, i)
      PROVE  DeviceInv'
  BY <1>1, OutsideKeeps, BeginKeeps
<1>2. CASE Device!ClaimConfigures \/ Device!ClaimFails \/ Device!Configured \/ Device!Reclaim
  BY <1>2, ConfiguresKeeps, FailsKeeps, ReclaimKeeps
<1>3. CASE \/ Device!QueryFails \/ Device!OpenFails \/ Device!EndpointsUnknown \/ Device!NoSource
           \/ Device!ClaimSucceeds
  BY <1>3, ClaimingKeeps
<1>4. CASE Device!SetConfiguration \/ Device!SetConfigurationFails
  BY <1>4, SetKeeps, SetFailsKeeps
<1>5. CASE Device!Scan
  <2>1. stack = <<>> /\ UNCHANGED <<claimed, interface, endpoints, source, stack, nested>>
    BY <1>5 DEF Device!Scan, Device!Idle, Device!ifaces, Device!calls
  <2> QED BY <2>1, QuietKeeps
<1> QED BY <1>1, <1>2, <1>3, <1>4, <1>5 DEF Device!Next

-----------------------------------------------------------------------------
(* Pipes: streams of messages                                              *)

LEMMA WordsDiffer ==
    /\ GONE \notin Transfers /\ ASYNC \notin Transfers /\ "result" \notin Transfers
    /\ "io_size" \notin Transfers /\ GONE = Pipes!GONE /\ ASYNC = Pipes!ASYNC
BY PipesAssumption DEF Pipes!TransfersAssumption, GONE, ASYNC, Pipes!GONE, Pipes!ASYNC

\* A stream begins with a message, which ends where another can begin.
LEMMA FirstWord ==
    ASSUME NEW s \in Seq(Words), Messages(s), s # <<>>
    PROVE  /\ s[1] \in {ASYNC, GONE}
           /\ s[1] = ASYNC => Len(s) >= 4 /\ s[2] \in Transfers /\ s[4] = "io_size"
<1>1. 1 \in DOMAIN s /\ s[1] \in Words /\ 0 \notin DOMAIN s /\ DOMAIN s = 1..Len(s)
  OBVIOUS
<1>2. FitsAt(s, 1) /\ 1 - 1 = 0 /\ 1 + 1 = 2 /\ 1 + 3 = 4
  BY <1>1 DEF Messages
<1>3. s[1] \in {ASYNC, GONE}
  BY <1>1, <1>2 DEF FitsAt, Words
<1>4. s[1] = ASYNC => 4 \in DOMAIN s /\ s[2] \in Transfers /\ s[4] = "io_size"
  BY <1>2, Zenon DEF FitsAt
<1> QED BY <1>1, <1>3, <1>4

LEMMA MessageDropped ==
    ASSUME NEW s \in Seq(Words), NEW t \in Seq(Words), NEW n \in {1, 4}, Messages(s),
           Len(s) = Len(t) + n, \A i \in 1..Len(t) : t[i] = s[i + n],
           s[1] = IF n = 1 THEN GONE ELSE ASYNC
    PROVE  Messages(t)
<1>1. s[n] \in {GONE, "io_size"}
  <2>1. s # <<>>
    OBVIOUS
  <2> QED BY <2>1, FirstWord
<1>2. s[n] # ASYNC /\ s[n] # "result" /\ s[n] \notin Transfers
  BY <1>1, WordsDiffer DEF GONE, ASYNC
<1> SUFFICES ASSUME NEW i \in 1..Len(t) PROVE FitsAt(t, i)
  BY DEF Messages
<1>3. PICK j \in 1..Len(s) : j = i + n
  OBVIOUS
<1>4. FitsAt(s, j) /\ t[i] = s[j]
  BY <1>3 DEF Messages
<1>5. j + 3 \in 1..Len(s) => /\ i + 3 \in 1..Len(t) /\ t[i + 1] = s[j + 1]
                             /\ t[i + 2] = s[j + 2] /\ t[i + 3] = s[j + 3]
  <2> SUFFICES ASSUME j + 3 \in 1..Len(s)
               PROVE  /\ i + 3 \in 1..Len(t) /\ t[i + 1] = s[j + 1]
                      /\ t[i + 2] = s[j + 2] /\ t[i + 3] = s[j + 3]
    OBVIOUS
  <2>1. i + 1 \in 1..Len(t) /\ i + 2 \in 1..Len(t) /\ i + 3 \in 1..Len(t)
    BY <1>3
  <2>2. (i + 1) + n = j + 1 /\ (i + 2) + n = j + 2 /\ (i + 3) + n = j + 3
    BY <1>3
  <2>3. t[i + 1] = s[(i + 1) + n] /\ t[i + 2] = s[(i + 2) + n] /\ t[i + 3] = s[(i + 3) + n]
    BY <2>1
  <2> QED BY <2>1, <2>2, <2>3
<1>6. i # 1 => i - 1 \in 1..Len(t) /\ t[i - 1] = s[j - 1]
  <2> SUFFICES ASSUME i # 1 PROVE i - 1 \in 1..Len(t) /\ t[i - 1] = s[j - 1]
    OBVIOUS
  <2>1. i - 1 \in 1..Len(t) /\ (i - 1) + n = j - 1
    BY <1>3
  <2>2. t[i - 1] = s[(i - 1) + n]
    BY <2>1
  <2> QED BY <2>1, <2>2
<1>7. i = 1 => s[j - 1] = s[n]
  <2>1. i = 1 => j - 1 = n
    BY <1>3
  <2> QED BY <2>1
<1>8. DOMAIN s = 1..Len(s) /\ DOMAIN t = 1..Len(t)
  OBVIOUS
<1> QED BY <1>2, <1>4, <1>5, <1>6, <1>7, <1>8 DEF FitsAt

LEMMA GoneAppended ==
    ASSUME NEW s \in Seq(Words), Messages(s)
    PROVE  /\ Append(s, GONE) \in Seq(Words) /\ Messages(Append(s, GONE))
           /\ \A i \in DOMAIN Append(s, GONE) : Append(s, GONE)[i] \in Transfers =>
                i \in DOMAIN s /\ Append(s, GONE)[i] = s[i]
<1> DEFINE t == Append(s, GONE)
<1>1. /\ t \in Seq(Words) /\ Len(s) \in Nat /\ DOMAIN t = 1..(Len(s) + 1) /\ t[Len(s) + 1] = GONE
      /\ DOMAIN s = 1..Len(s) /\ \A i \in 1..Len(s) : t[i] = s[i]
  BY DEF Words
<1> HIDE DEF t
<1>2. GONE \notin {ASYNC, "result", "io_size"} /\ GONE \notin Transfers
  BY WordsDiffer DEF GONE, ASYNC
<1>3. Messages(t)
  <2> SUFFICES ASSUME NEW i \in DOMAIN t PROVE FitsAt(t, i)
    BY DEF Messages
  <2>1. CASE i = Len(s) + 1
    <3>1. t[i] = GONE
      BY <1>1, <2>1
    <3> QED BY <1>2, <3>1 DEF FitsAt
  <2>2. CASE i \in 1..Len(s)
    <3>1. FitsAt(s, i) /\ t[i] = s[i]
      BY <1>1, <2>2 DEF Messages
    <3>2. i - 1 \in DOMAIN s => i - 1 \in DOMAIN t /\ t[i - 1] = s[i - 1]
      BY <1>1
    <3>3. i + 3 \in DOMAIN s => /\ i + 3 \in DOMAIN t /\ t[i + 1] = s[i + 1]
                                /\ t[i + 2] = s[i + 2] /\ t[i + 3] = s[i + 3]
      <4>1. i + 3 \in 1..Len(s) => i + 1 \in 1..Len(s) /\ i + 2 \in 1..Len(s)
        BY <1>1, <2>2
      <4> QED BY <1>1, <4>1
    <3> QED BY <3>1, <3>2, <3>3 DEF FitsAt
  <2> QED BY <1>1, <2>1, <2>2
<1>4. \A i \in DOMAIN t : t[i] \in Transfers => i \in DOMAIN s /\ t[i] = s[i]
  BY <1>1, <1>2
<1> QED BY <1>1, <1>3, <1>4 DEF t

LEMMA EndAppended ==
    ASSUME NEW s \in Seq(Words), Messages(s), NEW x \in Transfers, NEW t \in Seq(Words),
           Len(t) = Len(s) + 4, \A i \in 1..Len(s) : t[i] = s[i],
           t[Len(s) + 1] = ASYNC, t[Len(s) + 2] = x, t[Len(s) + 3] = "result",
           t[Len(s) + 4] = "io_size"
    PROVE  /\ Messages(t)
           /\ \A i \in DOMAIN t : t[i] \in Transfers =>
                (i \in DOMAIN s /\ t[i] = s[i]) \/ (i = Len(s) + 2 /\ t[i] = x)
<1> DEFINE n == Len(s)
<1>1. n \in Nat /\ DOMAIN s = 1..n /\ DOMAIN t = 1..(n + 4)
  OBVIOUS
<1>2. /\ ASYNC \notin Transfers /\ "result" \notin Transfers /\ "io_size" \notin Transfers
      /\ ASYNC # "result" /\ ASYNC # "io_size" /\ x \notin {ASYNC, "result", "io_size"}
  BY WordsDiffer DEF ASYNC
<1> HIDE DEF n
<1>3. \A i \in 1..(n + 4) : i \in 1..n \/ i = n + 1 \/ i = n + 2 \/ i = n + 3 \/ i = n + 4
  BY <1>1
<1>4. /\ \A i \in 1..n : t[i] = s[i]
      /\ t[n + 1] = ASYNC /\ t[n + 2] = x /\ t[n + 3] = "result" /\ t[n + 4] = "io_size"
  BY DEF n
<1>5. Messages(t)
  <2> SUFFICES ASSUME NEW i \in 1..(n + 4) PROVE FitsAt(t, i)
    BY <1>1 DEF Messages
  <2>1. CASE i \in 1..n
    <3>1. FitsAt(s, i) /\ t[i] = s[i]
      BY <1>1, <1>4, <2>1 DEF Messages
    <3>2. i - 1 \in DOMAIN s => i - 1 \in DOMAIN t /\ t[i - 1] = s[i - 1]
      BY <1>1, <1>4
    <3>3. i + 3 \in DOMAIN s => /\ i + 3 \in DOMAIN t /\ t[i + 1] = s[i + 1]
                                /\ t[i + 2] = s[i + 2] /\ t[i + 3] = s[i + 3]
      <4>1. i + 3 \in 1..n => i + 1 \in 1..n /\ i + 2 \in 1..n /\ i + 3 \in 1..(n + 4)
        BY <1>1, <2>1
      <4> QED BY <1>1, <1>4, <4>1
    <3> QED BY <3>1, <3>2, <3>3 DEF FitsAt
  <2>2. CASE i = n + 1
    <3>1. i + 1 = n + 2 /\ i + 2 = n + 3 /\ i + 3 = n + 4 /\ n + 4 \in DOMAIN t
      BY <1>1, <2>2
    <3> QED BY <1>2, <1>4, <2>2, <3>1, Zenon DEF FitsAt
  <2>3. CASE i = n + 2
    <3>1. i - 1 = n + 1 /\ n + 1 \in DOMAIN t
      BY <1>1, <2>3
    <3> QED BY <1>2, <1>4, <2>3, <3>1, Zenon DEF FitsAt
  <2>4. CASE i = n + 3
    <3>1. i - 1 = n + 2 /\ n + 2 \in DOMAIN t /\ "result" # "io_size"
      BY <1>1, <2>4
    <3> QED BY <1>2, <1>4, <2>4, <3>1, Zenon DEF FitsAt
  <2>5. CASE i = n + 4
    <3>1. i - 1 = n + 3 /\ n + 3 \in DOMAIN t /\ "result" # "io_size"
      BY <1>1, <2>5
    <3> QED BY <1>2, <1>4, <2>5, <3>1, Zenon DEF FitsAt
  <2> QED BY <1>3, <2>1, <2>2, <2>3, <2>4, <2>5
<1>6. \A i \in DOMAIN t : t[i] \in Transfers => (i \in 1..n /\ t[i] = s[i]) \/ (i = n + 2 /\ t[i] = x)
  BY <1>1, <1>2, <1>3, <1>4
<1> QED BY <1>1, <1>5, <1>6 DEF n

\* A word goes from one part of a stream to the part before it.
LEMMA WordMoves ==
    ASSUME NEW a \in Seq(Words), NEW b \in Seq(Words), b # <<>>
    PROVE  Append(a, Head(b)) \o Tail(b) = a \o b
<1> DEFINE s == Append(a, Head(b)) \o Tail(b)
           t == a \o b
<1>1. Len(a) \in Nat /\ Len(b) \in Nat \ {0} /\ Len(Tail(b)) = Len(b) - 1 /\ Head(b) = b[1]
  OBVIOUS
<1>2. Append(a, Head(b)) \in Seq(Words) /\ Tail(b) \in Seq(Words)
  OBVIOUS
<1>3. s \in Seq(Words) /\ t \in Seq(Words) /\ Len(s) = Len(t)
  BY <1>1, <1>2
<1>4. ASSUME NEW i \in 1..Len(t) PROVE s[i] = t[i]
  <2>1. Len(t) = Len(a) + Len(b) /\ Len(Append(a, Head(b))) = Len(a) + 1
    BY <1>1
  <2>2. CASE i <= Len(a)
    BY <1>1, <1>2, <2>1, <2>2
  <2>3. CASE i = Len(a) + 1
    BY <1>1, <1>2, <2>1, <2>3
  <2>4. CASE i > Len(a) + 1
    <3>1. s[i] = Tail(b)[i - (Len(a) + 1)]
      BY <1>1, <1>2, <2>1, <2>4
    <3>2. Tail(b)[i - (Len(a) + 1)] = b[i - (Len(a) + 1) + 1]
      BY <1>1, <2>1, <2>4
    <3>3. t[i] = b[i - Len(a)] /\ i - (Len(a) + 1) + 1 = i - Len(a)
      BY <1>1, <2>1, <2>4
    <3> QED BY <3>1, <3>2, <3>3
  <2> QED BY <1>1, <2>2, <2>3, <2>4
<1> HIDE DEF s, t
<1>5. s = t
  BY <1>3, <1>4, SeqEqual
<1> QED BY <1>5 DEF s, t

LEMMA WordsTyped ==
    ASSUME NEW s \in Seq([h : Handles, word : Words])
    PROVE  /\ WordsOf(s) \in Seq(Words) /\ Len(WordsOf(s)) = Len(s)
           /\ \A i \in 1..Len(s) : WordsOf(s)[i] = s[i].word
<1> DEFINE R == [h : Handles, word : Words]
<1>1. DOMAIN s = 1..Len(s) /\ Len(s) \in Nat
  OBVIOUS
<1>2. ASSUME NEW i \in 1..Len(s) PROVE s[i].word \in Words
  <2>1. s[i] \in R
    <3>1. s \in Seq(R)
      OBVIOUS
    <3> HIDE DEF R
    <3> QED BY <3>1, ElementOfSeq
  <2> QED BY <2>1
<1>3. WordsOf(s) \in [1..Len(s) -> Words] /\ \A i \in 1..Len(s) : WordsOf(s)[i] = s[i].word
  BY <1>1, <1>2 DEF WordsOf
<1>4. WordsOf(s) \in Seq(Words)
  BY <1>1, <1>3, SeqDef
<1>5. DOMAIN WordsOf(s) = 1..Len(s) /\ DOMAIN WordsOf(s) = 1..Len(WordsOf(s)) /\ Len(WordsOf(s)) \in Nat
  BY <1>3, <1>4
<1> QED BY <1>1, <1>3, <1>4, <1>5

LEMMA StreamTyped ==
    ASSUME PipesTyped, NEW h \in Handles
    PROVE  /\ Got(h) \in Seq(Words) /\ fifo[h] \in Seq(Words) /\ Rest(h) \in Seq(Words)
           /\ Stream(h) \in Seq(Words)
<1>1. Got(h) \in Seq(Words) /\ fifo[h] \in Seq(Words)
  BY DEF PipesTyped, Got
<1>2. Rest(h) \in Seq(Words)
  <2>1. WordsOf(towrite) \in Seq(Words)
    BY WordsTyped DEF PipesTyped
  <2>2. <<>> \in Seq(Words)
    OBVIOUS
  <2> QED BY <2>1, <2>2 DEF Rest
<1> QED BY <1>1, <1>2 DEF Stream

LEMMA WordsAssociate ==
    ASSUME NEW x \in Seq(Words), NEW y \in Seq(Words), NEW z \in Seq(Words)
    PROVE  (x \o y) \o z = x \o (y \o z)
<1> DEFINE W == Words
<1>1. x \in Seq(W) /\ y \in Seq(W) /\ z \in Seq(W)
  OBVIOUS
<1> HIDE DEF W
<1> QED BY <1>1, ConcatAssociative

\* A word is written: one of a message that is begun, and one of its own.
LEMMA WordWritten ==
    ASSUME NEW a \in Seq(Words), NEW f \in Seq(Words), NEW r \in Seq(Words), r # <<>>
    PROVE  a \o Append(f, Head(r)) \o Tail(r) = a \o f \o r
<1> DEFINE g == Append(f, Head(r))
           q == Tail(r)
<1>1. g \in Seq(Words) /\ q \in Seq(Words)
  OBVIOUS
<1>2. g \o q = f \o r
  BY WordMoves
<1> HIDE DEF g, q
<1>3. (a \o g) \o q = a \o (g \o q)
  BY <1>1, WordsAssociate
<1>4. a \o f \o r = a \o (f \o r)
  BY WordsAssociate
<1>5. (a \o g) \o q = a \o f \o r
  BY <1>2, <1>3, <1>4
<1> QED BY <1>5 DEF g, q

LEMMA GoneWritten ==
    ASSUME NEW a \in Seq(Words), NEW f \in Seq(Words)
    PROVE  a \o Append(f, GONE) \o <<>> = Append(a \o f \o <<>>, GONE)
<1>1. GONE \in Words
  BY DEF Words
<1> HIDE DEF GONE
<1>2. /\ Append(f, GONE) \in Seq(Words) /\ a \o f \in Seq(Words) /\ <<GONE>> \in Seq(Words)
      /\ a \o Append(f, GONE) \in Seq(Words)
  BY <1>1
<1>3. a \o Append(f, GONE) \o <<>> = a \o Append(f, GONE) /\ a \o f \o <<>> = a \o f
  BY <1>2, ConcatEmptySeq
<1>4. Append(f, GONE) = f \o <<GONE>>
  BY <1>1, AppendIsConcat
<1>5. Append(a \o f, GONE) = (a \o f) \o <<GONE>>
  BY <1>1, <1>2, AppendIsConcat
<1>6. (a \o f) \o <<GONE>> = a \o (f \o <<GONE>>)
  BY <1>2, WordsAssociate
<1> QED BY <1>3, <1>4, <1>5, <1>6

\* A stream that stays the same, of transfers that stay the same.
LEMMA CarriedKeeps ==
    ASSUME NEW h \in Handles, Stream(h)' = Stream(h),
           \A t \in Transfers : On[t] = h /\ io[t] = "none" /\ pending[t] =>
             io'[t] = "none" /\ pending'[t]
    PROVE  Carried(h) => Carried(h)'
<1> SUFFICES ASSUME Carried(h) PROVE Carried(h)'
  OBVIOUS
<1>1. \A i \in DOMAIN Stream(h)' : Stream(h)'[i] \in Transfers =>
        /\ On[Stream(h)'[i]] = h /\ io'[Stream(h)'[i]] = "none" /\ pending'[Stream(h)'[i]]
  BY Zenon DEF Carried
<1>2. \A i, j \in DOMAIN Stream(h)' :
        Stream(h)'[i] \in Transfers /\ Stream(h)'[i] = Stream(h)'[j] => i = j
  BY Zenon DEF Carried
<1> QED BY <1>1, <1>2, Zenon DEF Carried

LEMMA SameStreamsKeep ==
    ASSUME PipesInv, PipesTyped', Reading', Writing', polled' = polled,
           \A h \in Handles : Stream(h)' = Stream(h),
           \A t \in Transfers : io[t] = "none" /\ pending[t] => io'[t] = "none" /\ pending'[t],
           \A t \in Transfers : io'[t] # "none" /\ On[t] \in polled' => pending'[t]
    PROVE  PipesInv'
<1>1. \A h \in Handles : Messages(Stream(h))'
  BY Zenon DEF PipesInv
<1>2. \A h \in polled : Carried(h)'
  BY CarriedKeeps DEF PipesInv, PipesTyped
<1> QED BY <1>1, <1>2, Zenon DEF PipesInv

\* The user's calls, the kernel and the event handler between two messages.
LEMMA QuietPipes ==
    ASSUME PipesInv,
           \/ \E t \in Transfers : Pipes!Submit(t) \/ Pipes!DeviceAnswers(t) \/ Pipes!Cancel(t)
           \/ Pipes!Unplug \/ Pipes!Poll \/ Pipes!Lock \/ Pipes!NextFd
    PROVE  PipesInv'
<1>1. UNCHANGED <<fifo, open_devs, polled, towrite>>
  BY DEF Pipes!Submit, Pipes!DeviceAnswers, Pipes!Cancel, Pipes!Unplug, Pipes!Poll, Pipes!Lock,
         Pipes!NextFd, Pipes!core
<1>2. /\ PipesTyped /\ Reading /\ Writing
      /\ \A t \in Transfers : io[t] # "none" /\ On[t] \in polled => pending[t]
  BY DEF PipesInv
<1>3. /\ io' \in [Transfers -> {"none", "kernel", "ended"}] /\ pending' \in [Transfers -> BOOLEAN]
      /\ \A t \in Transfers : io[t] = "none" /\ pending[t] => io'[t] = "none" /\ pending'[t]
      /\ \A t \in Transfers : io'[t] # "none" => pending'[t] \/ io[t] # "none"
      /\ \A t \in Transfers : pending[t] => pending'[t]
  <2>1. CASE \E t \in Transfers : Pipes!Submit(t)
    <3>1. PICK t \in Transfers : Pipes!Submit(t)
      BY <2>1
    <3>2. /\ ~pending[t] /\ io' = [io EXCEPT ![t] = "kernel"]
          /\ pending' = [pending EXCEPT ![t] = TRUE]
      BY <3>1 DEF Pipes!Submit
    <3>3. \A u \in Transfers : u # t => io'[u] = io[u] /\ pending'[u] = pending[u]
      BY <1>2, <3>2 DEF PipesTyped
    <3>4. io' \in [Transfers -> {"none", "kernel", "ended"}] /\ pending' \in [Transfers -> BOOLEAN]
      BY <1>2, <3>2 DEF PipesTyped
    <3>5. pending'[t]
      BY <1>2, <3>2 DEF PipesTyped
    <3> QED BY <3>2, <3>3, <3>4, <3>5, Zenon
  <2>2. ASSUME NEW ts \in SUBSET Transfers, Pipes!Ends(ts), UNCHANGED pending,
               \A t \in ts : io[t] = "kernel"
        PROVE  <1>3!:
    <3>1. io' = [t \in Transfers |-> IF t \in ts THEN "ended" ELSE io[t]]
      BY <2>2 DEF Pipes!Ends
    <3>2. io' \in [Transfers -> {"none", "kernel", "ended"}]
      BY <1>2, <3>1 DEF PipesTyped
    <3>3. \A t \in Transfers : io'[t] = "none" <=> io[t] = "none"
      BY <2>2, <3>1
    <3> QED BY <1>2, <2>2, <3>2, <3>3, Zenon DEF PipesTyped
  <2>3. CASE \E t \in Transfers : Pipes!DeviceAnswers(t)
    BY <2>2, <2>3 DEF Pipes!DeviceAnswers, Pipes!InKernel, Pipes!user
  <2>4. CASE \E t \in Transfers : Pipes!Cancel(t)
    <3>1. PICK t \in Transfers : Pipes!Cancel(t)
      BY <2>4
    <3> DEFINE ts == {u \in Pipes!InKernel : Pipes!SamePipe(t, u)}
    <3>2. Pipes!Ends(ts) /\ UNCHANGED pending /\ ts \in SUBSET Transfers /\ \A u \in ts : io[u] = "kernel"
      BY <3>1 DEF Pipes!Cancel, Pipes!InKernel, Pipes!user
    <3> HIDE DEF ts
    <3> QED BY <2>2, <3>2
  <2>5. CASE Pipes!Unplug
    BY <2>2, <2>5 DEF Pipes!Unplug, Pipes!InKernel, Pipes!user
  <2>6. CASE Pipes!Poll \/ Pipes!Lock \/ Pipes!NextFd
    <3>1. UNCHANGED <<io, pending>>
      BY <2>6 DEF Pipes!Poll, Pipes!Lock, Pipes!NextFd, Pipes!user, Pipes!kernel
    <3> QED BY <1>2, <3>1, Zenon DEF PipesTyped
  <2> QED BY <2>1, <2>3, <2>4, <2>5, <2>6
<1>4. /\ reader' \in [at : {"idle", "lock", "fds", "read"}, left : SUBSET Handles,
                      h : Handles \cup {"none"}, got : Seq(Words)]
      /\ Reading' /\ \A h \in Handles : Got(h)' = Got(h)
  <2>1. CASE UNCHANGED reader
    BY <1>1, <1>2, <2>1 DEF PipesTyped, Reading, Got
  <2>2. CASE Pipes!Poll
    <3> DEFINE left == {h \in polled : fifo[h] # <<>>}
    <3>1. /\ reader.at = "idle"
          /\ reader' = [at |-> "lock", left |-> left, h |-> "none", got |-> <<>>]
      BY <2>2 DEF Pipes!Poll
    <3>2. left \subseteq polled
      OBVIOUS
    <3> HIDE DEF left
    <3>3. left \subseteq Handles /\ <<>> \in Seq(Words)
      BY <1>2, <3>2 DEF PipesTyped
    <3> QED BY <1>1, <3>1, <3>2, <3>3 DEF Reading, Got
  <2>3. CASE Pipes!Lock
    <3>1. reader.at = "lock" /\ reader' = [reader EXCEPT !.at = "fds"]
      BY <2>3 DEF Pipes!Lock
    <3> QED BY <1>1, <1>2, <3>1 DEF PipesTyped, Reading, Got
  <2>4. CASE Pipes!NextFd /\ reader.left = {}
    <3>1. reader.at = "fds" /\ reader' = [at |-> "idle", left |-> {}, h |-> "none", got |-> <<>>]
      BY <2>4 DEF Pipes!NextFd, Pipes!NotHandling
    <3>2. <<>> \in Seq(Words)
      OBVIOUS
    <3> QED BY <1>1, <3>1, <3>2 DEF Reading, Got
  <2>5. CASE Pipes!NextFd /\ reader.left # {}
    <3>1. PICK h \in reader.left :
            reader' = [at |-> "read", left |-> reader.left \ {h}, h |-> h, got |-> <<>>]
      BY <2>5 DEF Pipes!NextFd
    <3>2. reader.at = "fds" /\ h \in polled /\ h \in Handles /\ reader.left \subseteq Handles
          /\ reader.left \subseteq polled
      BY <1>2, <2>5 DEF Pipes!NextFd, PipesTyped, Reading
    <3>3. <<>> \in Seq(Words) /\ Len(<<>>) <= 4
      OBVIOUS
    <3> QED BY <1>1, <3>1, <3>2, <3>3 DEF Reading, Got
  <2>6. UNCHANGED reader \/ Pipes!Poll \/ Pipes!Lock \/ Pipes!NextFd
    BY DEF Pipes!Submit, Pipes!DeviceAnswers, Pipes!Cancel, Pipes!Unplug
  <2> QED BY <2>1, <2>2, <2>3, <2>4, <2>5, <2>6
<1>5. PipesTyped' /\ Writing' /\ \A h \in Handles : Stream(h)' = Stream(h)
  <2>1. PipesTyped'
    BY <1>1, <1>2, <1>3, <1>4, Zenon DEF PipesTyped
  <2>2. Writing'
    BY <1>1, <1>2 DEF Writing
  <2>3. \A h \in Handles : Rest(h)' = Rest(h)
    BY <1>1 DEF Rest
  <2> QED BY <1>1, <1>4, <2>1, <2>2, <2>3 DEF Stream
<1>6. \A t \in Transfers : io'[t] # "none" /\ On[t] \in polled' => pending'[t]
  BY <1>1, <1>2, <1>3, Zenon
<1> QED BY <1>1, <1>3, <1>4, <1>5, <1>6, SameStreamsKeep, Zenon

LEMMA ReadWordKeeps == ASSUME PipesInv, Pipes!ReadWord PROVE PipesInv'
<1> DEFINE h == reader.h
<1>1. /\ reader.at = "read" /\ ~Pipes!Whole /\ fifo[h] # <<>>
      /\ reader' = [reader EXCEPT !.got = Append(@, Head(fifo[h]))]
      /\ fifo' = [fifo EXCEPT ![h] = Tail(@)]
      /\ UNCHANGED <<io, pending, open_devs, polled, towrite>>
  BY DEF Pipes!ReadWord, Pipes!kernel, Pipes!user, Pipes!core
<1>2. /\ PipesTyped /\ Reading /\ Writing
      /\ \A t \in Transfers : io[t] # "none" /\ On[t] \in polled => pending[t]
  BY DEF PipesInv
<1>3. /\ h \in Handles /\ h \in polled /\ fifo[h] \in Seq(Words) /\ reader.got \in Seq(Words)
      /\ Len(reader.got) <= 4 /\ reader.left \subseteq polled /\ h \notin reader.left
      /\ reader.got # <<>> /\ reader.got[1] # ASYNC => Len(reader.got) = 1
  BY <1>1, <1>2 DEF PipesTyped, Reading
<1>4. /\ Head(fifo[h]) \in Words /\ Tail(fifo[h]) \in Seq(Words)
      /\ Append(reader.got, Head(fifo[h])) \in Seq(Words)
      /\ Len(Append(reader.got, Head(fifo[h]))) = Len(reader.got) + 1
  BY <1>1, <1>3
<1>5. /\ reader'.at = "read" /\ reader'.h = h /\ reader'.left = reader.left
      /\ reader'.got = Append(reader.got, Head(fifo[h])) /\ fifo'[h] = Tail(fifo[h])
      /\ \A g \in Handles : g # h => fifo'[g] = fifo[g]
  BY <1>1, <1>2, <1>3 DEF PipesTyped
<1>6. PipesTyped'
  BY <1>1, <1>2, <1>3, <1>4 DEF PipesTyped
<1>7. Reading'
  <2>1. reader.got = <<>> \/ (reader.got[1] = ASYNC /\ Len(reader.got) # 4)
    BY <1>1, <1>3, WordsDiffer DEF Pipes!Whole, Pipes!message
  <2>2. CASE reader.got = <<>>
    <3>1. Len(reader'.got) = 1
      BY <1>4, <1>5, <2>2
    <3> QED BY <1>1, <1>3, <1>5, <3>1 DEF Reading
  <2>3. CASE reader.got # <<>> /\ reader.got[1] = ASYNC /\ Len(reader.got) # 4
    <3>1. reader'.got[1] = ASYNC /\ Len(reader'.got) <= 4
      <4>1. Len(reader.got) \in Nat /\ 1 \in 1..Len(reader.got)
        BY <1>3, <2>3
      <4>2. Append(reader.got, Head(fifo[h]))[1] = reader.got[1]
        BY <1>3, <1>4, <4>1, AppendProperties
      <4>3. Len(reader.got) + 1 <= 4
        <5>1. \A n \in Nat : n <= 4 /\ n # 4 => n + 1 <= 4
          OBVIOUS
        <5> QED BY <1>3, <2>3, <4>1, <5>1, Zenon
      <4> QED BY <1>4, <1>5, <2>3, <4>2, <4>3
    <3> QED BY <1>1, <1>3, <1>5, <3>1 DEF Reading
  <2> QED BY <2>1, <2>2, <2>3
<1>8. Writing' /\ \A g \in Handles : Rest(g)' = Rest(g)
  BY <1>1, <1>2 DEF Writing, Rest
<1>9. ASSUME NEW g \in Handles PROVE Stream(g)' = Stream(g)
  <2>1. CASE g = h
    <3>1. Got(g) = reader.got /\ Got(g)' = Append(reader.got, Head(fifo[h]))
      BY <1>1, <1>5, <2>1 DEF Got
    <3>2. Append(reader.got, Head(fifo[h])) \o Tail(fifo[h]) = reader.got \o fifo[h]
      BY <1>1, <1>3, WordMoves
    <3> QED BY <1>5, <1>8, <2>1, <3>1, <3>2 DEF Stream
  <2>2. CASE g # h
    <3>1. Got(g)' = Got(g)
      BY <1>1, <1>5, <2>2 DEF Got
    <3> QED BY <1>5, <1>8, <2>2, <3>1 DEF Stream
  <2> QED BY <2>1, <2>2
<1>10. /\ \A t \in Transfers : io[t] = "none" /\ pending[t] => io'[t] = "none" /\ pending'[t]
       /\ \A t \in Transfers : io'[t] # "none" /\ On[t] \in polled' => pending'[t]
  BY <1>1, <1>2, Zenon
<1> QED BY <1>1, <1>6, <1>7, <1>8, <1>9, <1>10, SameStreamsKeep, Zenon

LEMMA OrderTyped ==
    ASSUME NEW S \in SUBSET Handles
    PROVE  /\ Pipes!SetToSeq(S) \in Seq(S)
<1>1. IsFiniteSet(Handles)
  BY PipesAssumption DEF Pipes!TransfersAssumption, Pipes!IsFiniteSet, IsFiniteSet
<1>2. IsFiniteSet(S)
  BY <1>1, FS_Subset
<1>3. PICK n \in Nat : ExistsBijection(1..n, S)
  BY <1>2, FS_NatBijection
<1>4. Cardinality(S) = n
  BY <1>3, FS_CountingElements
<1>5. Pipes!Cardinality(S) = Cardinality(S)
  BY DEF Pipes!Cardinality, Cardinality
<1>6. \E f \in [1..n -> S] : Pipes!IsInjective(f)
  BY <1>3, Zenon DEF ExistsBijection, Bijection, Injection, IsInjective, Pipes!IsInjective
<1>7. Pipes!SetToSeq(S) \in [1..n -> S]
  BY <1>4, <1>5, <1>6, Zenon DEF Pipes!SetToSeq
<1> QED BY <1>3, <1>7, SeqDef

LEMMA DetachedKeeps == ASSUME PipesInv, Pipes!DevicesDetached PROVE PipesInv'
<1> DEFINE order == Pipes!SetToSeq(open_devs)
<1>1. /\ towrite = <<>> /\ towrite' = [i \in DOMAIN order |-> [h |-> order[i], word |-> GONE]]
      /\ UNCHANGED <<io, pending, fifo, open_devs, polled, reader>>
  BY WordsDiffer DEF Pipes!DevicesDetached, Pipes!kernel, Pipes!user, Pipes!core
<1>2. /\ PipesTyped /\ Reading
      /\ \A t \in Transfers : io[t] # "none" /\ On[t] \in polled => pending[t]
  BY DEF PipesInv
<1>3. order \in Seq(open_devs) /\ open_devs \subseteq Handles
  BY <1>2, OrderTyped DEF PipesTyped
<1> HIDE DEF order
<1>4. /\ DOMAIN order = 1..Len(order) /\ Len(order) \in Nat
      /\ \A i \in DOMAIN order : order[i] \in Handles
  BY <1>3
<1> DEFINE R == [h : Handles, word : Words]
<1>5. towrite' \in [1..Len(order) -> R]
  BY <1>1, <1>4 DEF Words
<1>6. towrite' \in Seq(R)
  <2> HIDE DEF R
  <2> QED BY <1>4, <1>5, SeqDef
<1>7. \A i \in DOMAIN towrite' : towrite'[i].word = GONE
  BY <1>1
<1>8. PipesTyped' /\ Reading' /\ Writing'
  BY <1>1, <1>2, <1>6, <1>7 DEF PipesTyped, Reading, Writing
<1>9. towrite' # <<>> => 1 \in DOMAIN towrite'
  BY <1>6
<1>10. ASSUME NEW h \in Handles PROVE Stream(h)' = Stream(h)
  <2>1. Rest(h) = <<>>
    BY <1>1 DEF Rest
  <2>2. Rest(h)' = <<>>
    BY <1>7, <1>9 DEF Rest
  <2> QED BY <1>1, <2>1, <2>2 DEF Stream, Got
<1>11. /\ \A t \in Transfers : io[t] = "none" /\ pending[t] => io'[t] = "none" /\ pending'[t]
       /\ \A t \in Transfers : io'[t] # "none" /\ On[t] \in polled' => pending'[t]
  BY <1>1, <1>2, Zenon
<1> QED BY <1>1, <1>8, <1>10, <1>11, SameStreamsKeep, Zenon

\* A stream from which words were taken, or that got others than transfers.
LEMMA CarriedLess ==
    ASSUME NEW h \in Handles, Carried(h), NEW n \in Nat, DOMAIN Stream(h)' \subseteq Nat,
           \A i \in DOMAIN Stream(h)' : Stream(h)'[i] \in Transfers =>
             /\ i + n \in DOMAIN Stream(h) /\ Stream(h)[i + n] = Stream(h)'[i]
             /\ io'[Stream(h)'[i]] = "none" /\ pending'[Stream(h)'[i]]
    PROVE  Carried(h)'
<1>1. ASSUME NEW i \in DOMAIN Stream(h)', Stream(h)'[i] \in Transfers
      PROVE  On[Stream(h)'[i]] = h /\ io'[Stream(h)'[i]] = "none" /\ pending'[Stream(h)'[i]]
  <2>1. /\ i + n \in DOMAIN Stream(h) /\ Stream(h)[i + n] = Stream(h)'[i]
        /\ io'[Stream(h)'[i]] = "none" /\ pending'[Stream(h)'[i]]
    BY <1>1, Zenon
  <2>2. On[Stream(h)[i + n]] = h
    BY <1>1, <2>1, Zenon DEF Carried
  <2> QED BY <2>1, <2>2, Zenon
<1>2. ASSUME NEW i \in DOMAIN Stream(h)', NEW j \in DOMAIN Stream(h)',
             Stream(h)'[i] \in Transfers, Stream(h)'[i] = Stream(h)'[j]
      PROVE  i = j
  <2>1. /\ i + n \in DOMAIN Stream(h) /\ Stream(h)[i + n] = Stream(h)'[i]
        /\ j + n \in DOMAIN Stream(h) /\ Stream(h)[j + n] = Stream(h)'[j]
    BY <1>2, Zenon
  <2> DEFINE s == Stream(h)
  <2>5. \A k, l \in DOMAIN s : s[k] \in Transfers /\ s[k] = s[l] => k = l
    BY Zenon DEF Carried
  <2> HIDE DEF s
  <2>2. i + n = j + n
    BY <1>2, <2>1, <2>5, Zenon DEF s
  <2>3. i \in Nat /\ j \in Nat
    BY Zenon
  <2>4. \A x, y \in Nat : x + n = y + n => x = y
    OBVIOUS
  <2> QED BY <2>2, <2>3, <2>4, Zenon
<1> QED BY <1>1, <1>2, Zenon DEF Carried

LEMMA CloseKeeps == ASSUME PipesInv, NEW h \in Handles, Pipes!Close(h) PROVE PipesInv'
<1> DEFINE gone == towrite # <<>> /\ towrite[1].h = h
<1>1. /\ reader.at = "idle" /\ towrite' = IF gone THEN <<>> ELSE towrite
      /\ open_devs' = open_devs \ {h} /\ polled' = polled \ {h} /\ fifo' = [fifo EXCEPT ![h] = <<>>]
      /\ io' = [t \in Transfers |-> IF (On[t] = h /\ t \notin Control) \/ open_devs = {h}
                                    THEN "none" ELSE io[t]]
      /\ UNCHANGED <<pending, reader>>
  BY DEF Pipes!Close, Pipes!user
<1>2. /\ PipesTyped /\ Reading /\ Writing
      /\ \A t \in Transfers : io[t] # "none" /\ On[t] \in polled => pending[t]
  BY DEF PipesInv
<1>3. PipesTyped' /\ Reading' /\ Writing'
  <2>1. <<>> \in Seq(Words)
    OBVIOUS
  <2>2. io' \in [Transfers -> {"none", "kernel", "ended"}]
    BY <1>1, <1>2 DEF PipesTyped
  <2>3. fifo' \in [Handles -> Seq(Words)]
    BY <1>1, <1>2, <2>1 DEF PipesTyped
  <2>4. PipesTyped'
    <3>1. towrite' \in Seq([h : Handles, word : Words])
      BY <1>1, <1>2 DEF PipesTyped
    <3> QED BY <1>1, <1>2, <2>2, <2>3, <3>1 DEF PipesTyped
  <2>5. Writing'
    BY <1>1, <1>2 DEF Writing
  <2> QED BY <1>1, <1>2, <2>4, <2>5 DEF Reading
<1>4. Stream(h)' = <<>>
  <2>1. Rest(h)' = <<>>
    BY <1>1 DEF Rest
  <2>3. Rest(h)' = <<>> /\ Got(h)' = <<>> /\ fifo'[h] = <<>>
    BY <1>1, <1>2, <2>1 DEF Got, PipesTyped
  <2> QED BY <2>3, WordsDiffer, ConcatEmptySeq DEF Stream
<1>5. Messages(Stream(h))'
  BY <1>4 DEF Messages
<1>6. ASSUME NEW g \in Handles, g # h PROVE Messages(Stream(g))' /\ (g \in polled => Carried(g)')
  <2>1. Stream(g)' = Stream(g)
    <3>1. Rest(g)' = Rest(g)
      <4>1. CASE gone
        BY <1>1, <1>6, <4>1 DEF Rest
      <4>2. CASE ~gone
        BY <1>1, <4>2 DEF Rest
      <4> QED BY <4>1, <4>2
    <3> QED BY <1>1, <1>2, <1>6, <3>1 DEF Stream, Got, PipesTyped
  <2>2. \A t \in Transfers : On[t] = g /\ io[t] = "none" /\ pending[t] => io'[t] = "none" /\ pending'[t]
    <3>1. \A t \in Transfers : io[t] = "none" => io'[t] = "none"
      BY <1>1
    <3> QED BY <1>1, <3>1, Zenon
  <2>3. Carried(g) => Carried(g)'
    BY <2>1, <2>2, CarriedKeeps
  <2> QED BY <2>1, <2>3, Zenon DEF PipesInv
<1>7. \A t \in Transfers : io'[t] # "none" /\ On[t] \in polled' => pending'[t]
  <2>1. \A t \in Transfers : io'[t] # "none" => io[t] # "none"
    BY <1>1
  <2> QED BY <1>1, <1>2, <2>1, Zenon
<1>8. \A g \in polled' : g \in polled /\ g # h /\ g \in Handles
  BY <1>1, <1>2 DEF PipesTyped
<1> QED BY <1>3, <1>5, <1>6, <1>7, <1>8, Zenon DEF PipesInv

LEMMA WriteWordKeeps == ASSUME PipesInv, Pipes!WriteWord PROVE PipesInv'
<1> DEFINE R == [h : Handles, word : Words]
<1>1. /\ towrite # <<>> /\ towrite' = Tail(towrite)
      /\ fifo' = [fifo EXCEPT ![Head(towrite).h] = Append(@, Head(towrite).word)]
      /\ UNCHANGED <<io, pending, open_devs, polled, reader>>
  BY DEF Pipes!WriteWord, Pipes!kernel, Pipes!user, Pipes!core
<1>2. /\ PipesTyped /\ Reading /\ Writing /\ \A g \in Handles : Messages(Stream(g))
      /\ \A t \in Transfers : io[t] # "none" /\ On[t] \in polled => pending[t]
  BY DEF PipesInv
<1>3. towrite \in Seq(R)
  BY <1>2, Zenon DEF PipesTyped
<1>4. /\ Head(towrite) = towrite[1] /\ towrite[1] \in R /\ Tail(towrite) \in Seq(R)
      /\ Len(towrite) \in Nat \ {0} /\ Len(Tail(towrite)) = Len(towrite) - 1
      /\ DOMAIN towrite = 1..Len(towrite) /\ DOMAIN Tail(towrite) = 1..(Len(towrite) - 1)
      /\ \A i \in 1..(Len(towrite) - 1) : Tail(towrite)[i] = towrite[i + 1]
  <2> HIDE DEF R
  <2>1. towrite[1] \in R /\ Head(towrite) = towrite[1]
    BY <1>1, <1>3
  <2> QED BY <1>1, <1>3, <2>1
<1>5. PICK h \in Handles, x \in Words : h = towrite[1].h /\ x = towrite[1].word
  BY <1>4
<1> HIDE DEF R
<1>6. /\ fifo' = [fifo EXCEPT ![h] = Append(@, x)] /\ fifo[h] \in Seq(Words) /\ fifo'[h] = Append(fifo[h], x)
      /\ \A g \in Handles : g # h => fifo'[g] = fifo[g]
  BY <1>1, <1>2, <1>4, <1>5 DEF PipesTyped
<1>7. PipesTyped'
  <2>1. Append(fifo[h], x) \in Seq(Words)
    BY <1>5, <1>6
  <2>2. fifo' \in [Handles -> Seq(Words)]
    BY <1>2, <1>6, <2>1 DEF PipesTyped
  <2>3. towrite' \in Seq([h : Handles, word : Words])
    BY <1>1, <1>4 DEF R
  <2> QED BY <1>1, <1>2, <2>2, <2>3, Zenon DEF PipesTyped
<1>8. \A i \in DOMAIN towrite' : i + 1 \in DOMAIN towrite /\ towrite'[i] = towrite[i + 1]
  BY <1>1, <1>4
<1>9. Reading'
  BY <1>1, <1>2 DEF Reading
<1>10. towrite' = <<>> \/ (1 \in DOMAIN towrite' /\ towrite'[1] = towrite[2] /\ 2 \in DOMAIN towrite)
  BY <1>1, <1>4
<1>11. 1 \in DOMAIN towrite
  BY <1>4
<1>12. /\ \A t \in Transfers : io[t] = "none" /\ pending[t] => io'[t] = "none" /\ pending'[t]
       /\ \A t \in Transfers : io'[t] # "none" /\ On[t] \in polled' => pending'[t]
  BY <1>1, <1>2, Zenon
<1>13. CASE x = GONE
  <2>1. \A i \in DOMAIN towrite : towrite[i].word = GONE
    BY <1>2, <1>5, <1>11, <1>13 DEF Writing
  <2>2. \A i \in DOMAIN towrite' : towrite'[i].word = GONE
    BY <1>8, <2>1
  <2>3. Writing'
    BY <2>2 DEF Writing
  <2>4. \A g \in Handles : Rest(g) = <<>> /\ Rest(g)' = <<>>
    BY <1>10, <1>11, <2>1, <2>2 DEF Rest
  <2>5. Stream(h)' = Append(Stream(h), GONE) /\ Stream(h) \in Seq(Words)
    <3>1. Got(h) \in Seq(Words) /\ Stream(h) \in Seq(Words) /\ Got(h)' = Got(h)
      BY <1>1, <1>2, StreamTyped DEF Got
    <3>2. Stream(h)' = Got(h) \o Append(fifo[h], GONE) \o <<>> /\ Stream(h) = Got(h) \o fifo[h] \o <<>>
      BY <1>6, <1>13, <2>4, <3>1 DEF Stream
    <3> QED BY <1>6, <3>1, <3>2, GoneWritten
  <2>6. Messages(Stream(h))' /\ (Carried(h) => Carried(h)')
    <3>1. /\ Stream(h)' \in Seq(Words) /\ Messages(Stream(h)')
          /\ \A i \in DOMAIN Stream(h)' : Stream(h)'[i] \in Transfers =>
               i \in DOMAIN Stream(h) /\ Stream(h)'[i] = Stream(h)[i]
      <4>1. Messages(Stream(h))
        BY <1>2, <1>5
      <4> QED BY <2>5, <4>1, GoneAppended
    <3>2. ASSUME Carried(h) PROVE Carried(h)'
      <4>1. DOMAIN Stream(h)' \subseteq Nat
        BY <3>1
      <4>2. \A i \in DOMAIN Stream(h)' : Stream(h)'[i] \in Transfers =>
              /\ i + 0 \in DOMAIN Stream(h) /\ Stream(h)[i + 0] = Stream(h)'[i]
              /\ io'[Stream(h)'[i]] = "none" /\ pending'[Stream(h)'[i]]
        <5>1. ASSUME NEW i \in DOMAIN Stream(h)', Stream(h)'[i] \in Transfers
              PROVE  /\ i + 0 \in DOMAIN Stream(h) /\ Stream(h)[i + 0] = Stream(h)'[i]
                     /\ io'[Stream(h)'[i]] = "none" /\ pending'[Stream(h)'[i]]
          <6>1. i + 0 = i
            BY <4>1
          <6>2. i \in DOMAIN Stream(h) /\ Stream(h)'[i] = Stream(h)[i]
            BY <3>1, <5>1, Zenon
          <6>3. io[Stream(h)[i]] = "none" /\ pending[Stream(h)[i]]
            BY <3>2, <5>1, <6>2, Zenon DEF Carried
          <6>4. io' = io /\ pending' = pending
            BY <1>1
          <6> QED BY <6>1, <6>2, <6>3, <6>4, Zenon
        <5> QED BY <5>1, Zenon
      <4>3. 0 \in Nat
        OBVIOUS
      <4> QED BY <1>5, <3>2, <4>1, <4>2, <4>3, CarriedLess
    <3> QED BY <3>1, <3>2, Zenon
  <2>7. ASSUME NEW g \in Handles, g # h PROVE Messages(Stream(g))' /\ (Carried(g) => Carried(g)')
    <3>1. Stream(g)' = Stream(g)
      BY <1>1, <1>6, <2>4, <2>7 DEF Stream, Got
    <3>2. Carried(g) => Carried(g)'
      BY <1>12, <3>1, CarriedKeeps
    <3> QED BY <1>2, <3>1, <3>2, Zenon
  <2> QED BY <1>1, <1>2, <1>7, <1>9, <1>12, <2>3, <2>6, <2>7, Zenon DEF PipesInv, PipesTyped
<1>14. CASE x # GONE
  <2>1. \A i \in DOMAIN towrite : towrite[i].word # GONE /\ towrite[i].h = h
    BY <1>2, <1>5, <1>11, <1>14 DEF Writing
  <2>2. \A i \in DOMAIN towrite' : towrite'[i].word # GONE /\ towrite'[i].h = h
    BY <1>8, <2>1
  <2>3. Writing'
    BY <1>10, <2>2 DEF Writing
  <2> DEFINE rest == WordsOf(towrite)
             later == WordsOf(Tail(towrite))
  <2>4. Rest(h) = rest
    BY <1>1, <1>11, <2>1 DEF Rest
  <2>5. Rest(h)' = later
    <3>1. CASE towrite' = <<>>
      BY <1>1, <3>1 DEF Rest, WordsOf
    <3>2. CASE towrite' # <<>>
      BY <1>1, <1>10, <2>2, <3>2 DEF Rest
    <3> QED BY <3>1, <3>2
  <2>6. \A g \in Handles : g # h => Rest(g) = <<>> /\ Rest(g)' = <<>>
    BY <1>10, <1>11, <2>1, <2>2 DEF Rest
  <2>7. /\ rest \in Seq(Words) /\ Len(rest) = Len(towrite)
        /\ \A i \in 1..Len(towrite) : rest[i] = towrite[i].word
    BY <1>3, WordsTyped DEF R
  <2>8. /\ later \in Seq(Words) /\ Len(later) = Len(towrite) - 1
        /\ \A i \in 1..(Len(towrite) - 1) : later[i] = Tail(towrite)[i].word
    BY <1>4, WordsTyped DEF R
  <2> HIDE DEF rest, later
  <2>9. rest # <<>> /\ Head(rest) = x
    <3>1. rest[1] = x
      BY <1>4, <1>5, <1>11, <2>7
    <3> QED BY <1>4, <2>7, <3>1
  <2>10. later = Tail(rest)
    <3>1. ASSUME NEW i \in 1..(Len(towrite) - 1) PROVE later[i] = rest[i + 1]
      <4>1. i + 1 \in 1..Len(towrite)
        BY <1>4
      <4> QED BY <1>4, <2>7, <2>8, <4>1
    <3>2. /\ Tail(rest) \in Seq(Words) /\ Len(Tail(rest)) = Len(later)
          /\ \A i \in 1..Len(later) : Tail(rest)[i] = rest[i + 1]
      BY <2>7, <2>8, <2>9, HeadTailProperties
    <3> QED BY <2>7, <2>8, <3>1, <3>2, SeqEqual
  <2>11. Stream(h)' = Stream(h)
    <3>1. Got(h)' = Got(h) /\ Got(h) \in Seq(Words)
      BY <1>1, <1>2, StreamTyped DEF Got
    <3>2. Got(h) \o Append(fifo[h], x) \o Tail(rest) = Got(h) \o fifo[h] \o rest
      BY <1>6, <2>7, <2>9, <3>1, WordWritten
    <3> QED BY <1>6, <2>4, <2>5, <2>10, <3>1, <3>2 DEF Stream
  <2>12. \A g \in Handles : Stream(g)' = Stream(g)
    <3>1. ASSUME NEW g \in Handles, g # h PROVE Stream(g)' = Stream(g)
      BY <1>1, <1>6, <2>6, <3>1 DEF Stream, Got
    <3> QED BY <2>11, <3>1
  <2> QED BY <1>1, <1>7, <1>9, <1>12, <2>3, <2>12, SameStreamsKeep, Zenon
<1> QED BY <1>13, <1>14

LEMMA Joined ==
    ASSUME NEW a \in Seq(Words), NEW b \in Seq(Words)
    PROVE  /\ a \o b \in Seq(Words) /\ Len(a \o b) = Len(b) + Len(a)
           /\ \A i \in 1..Len(a) : (a \o b)[i] = a[i]
           /\ \A i \in 1..Len(b) : (a \o b)[i + Len(a)] = b[i]
<1> DEFINE z == a \o b
<1>1. Len(a) \in Nat /\ Len(b) \in Nat
  OBVIOUS
<1>2. /\ z \in Seq(Words) /\ Len(z) = Len(a) + Len(b)
      /\ \A i \in 1..(Len(a) + Len(b)) : z[i] = IF i <= Len(a) THEN a[i] ELSE b[i - Len(a)]
  BY ConcatProperties
<1> HIDE DEF z
<1>3. ASSUME NEW i \in 1..Len(a) PROVE z[i] = a[i]
  BY <1>1, <1>2
<1>4. ASSUME NEW i \in 1..Len(b) PROVE z[i + Len(a)] = b[i]
  <2>1. /\ i + Len(a) \in 1..(Len(a) + Len(b)) /\ ~(i + Len(a) <= Len(a))
        /\ (i + Len(a)) - Len(a) = i
    BY <1>1
  <2>2. z[i + Len(a)] = b[(i + Len(a)) - Len(a)]
    BY <1>2, <2>1
  <2> QED BY <2>1, <2>2
<1>5. Len(z) = Len(b) + Len(a)
  BY <1>1, <1>2
<1> QED BY <1>2, <1>3, <1>4, <1>5 DEF z

LEMMA MessageKeeps ==
    ASSUME PipesInv, NEW t \in Transfers, Pipes!AsyncCallback(t), On[t] \in open_devs
    PROVE  PipesInv'
<1> DEFINE end == <<ASYNC, t, "result", "io_size">>
           R == [h : Handles, word : Words]
<1>1. /\ towrite = <<>> /\ io[t] = "ended" /\ io' = [io EXCEPT ![t] = "none"]
      /\ towrite' = [i \in 1..4 |-> [h |-> On[t], word |-> end[i]]]
      /\ UNCHANGED <<pending, fifo, open_devs, polled, reader>>
  BY WordsDiffer DEF Pipes!AsyncCallback, Pipes!user, Pipes!core
<1>2. /\ PipesTyped /\ Reading /\ \A g \in Handles : Messages(Stream(g))
      /\ \A u \in Transfers : io[u] # "none" /\ On[u] \in polled => pending[u]
  BY DEF PipesInv
<1>3. PICK h \in Handles : h = On[t]
  BY PipesAssumption DEF Pipes!TransfersAssumption
<1>4. /\ end[1] = ASYNC /\ end[2] = t /\ end[3] = "result" /\ end[4] = "io_size"
      /\ \A i \in 1..4 : i = 1 \/ i = 2 \/ i = 3 \/ i = 4
  OBVIOUS
<1>5. \A i \in 1..4 : end[i] \in Words /\ end[i] # GONE
  <2>1. t # GONE
    BY WordsDiffer
  <2> QED BY <1>4, <2>1 DEF Words, GONE, ASYNC
<1> HIDE DEF end
<1>6. /\ towrite' \in [1..4 -> R] /\ DOMAIN towrite' = 1..4
      /\ \A i \in 1..4 : towrite'[i].h = h /\ towrite'[i].word = end[i]
  BY <1>1, <1>3, <1>5
<1>7. towrite' \in Seq(R) /\ Len(towrite') = 4 /\ towrite' # <<>>
  <2> HIDE DEF R
  <2>1. towrite' \in Seq(R)
    BY <1>6, SeqDef
  <2>2. Len(towrite') \in Nat /\ DOMAIN towrite' = 1..Len(towrite')
    BY <2>1
  <2>3. Len(towrite') = 4
    BY <1>6, <2>2
  <2>4. towrite' # <<>>
    <3>1. 1 \in DOMAIN towrite'
      BY <1>6
    <3> QED BY <3>1
  <2> QED BY <2>1, <2>3, <2>4, Zenon
<1>8. /\ \A u \in Transfers : u # t => io'[u] = io[u]
      /\ io'[t] = "none" /\ io' \in [Transfers -> {"none", "kernel", "ended"}]
  BY <1>1, <1>2 DEF PipesTyped
<1>9. PipesTyped' /\ Reading' /\ Writing'
  <2>1. PipesTyped'
    BY <1>1, <1>2, <1>7, <1>8, Zenon DEF PipesTyped, R
  <2>2. Writing'
    BY <1>5, <1>6 DEF Writing
  <2> QED BY <1>1, <1>2, <2>1, <2>2 DEF Reading
<1>10. \A g \in Handles : Got(g)' = Got(g) /\ fifo'[g] = fifo[g] /\ Rest(g) = <<>>
  BY <1>1 DEF Got, Rest
<1>11. Rest(h)' = WordsOf(towrite)' /\ \A g \in Handles : g # h => Rest(g)' = <<>>
  <2>1. 1 \in 1..4
    OBVIOUS
  <2> QED BY <1>5, <1>6, <1>7, <2>1 DEF Rest
<1>12. ASSUME NEW g \in Handles, g # h PROVE Messages(Stream(g))' /\ (Carried(g) => Carried(g)')
  <2>1. Stream(g)' = Stream(g)
    BY <1>10, <1>11, <1>12 DEF Stream
  <2>2. \A u \in Transfers : io[u] = "none" /\ pending[u] => io'[u] = "none" /\ pending'[u]
    BY <1>1, <1>8, Zenon
  <2>3. Carried(g) => Carried(g)'
    BY <2>1, <2>2, CarriedKeeps
  <2> QED BY <1>2, <2>1, <2>3, Zenon
<1> DEFINE s == Stream(h)
           z == Stream(h)'
           n == Len(s)
<1>13. /\ s \in Seq(Words) /\ z \in Seq(Words) /\ n \in Nat /\ Len(z) = n + 4
       /\ \A i \in 1..n : z[i] = s[i]
       /\ z[n + 1] = ASYNC /\ z[n + 2] = t /\ z[n + 3] = "result" /\ z[n + 4] = "io_size"
  <2> DEFINE a == Got(h) \o fifo[h]
             b == WordsOf(towrite)'
  <2>1. Got(h) \in Seq(Words) /\ fifo[h] \in Seq(Words)
    BY <1>2, StreamTyped
  <2>2. a \in Seq(Words)
    BY <2>1
  <2>3. b \in Seq(Words) /\ Len(b) = 4 /\ \A i \in 1..4 : b[i] = towrite'[i].word
    <3>1. \A q \in Seq([h : Handles, word : Words]) :
            /\ WordsOf(q) \in Seq(Words) /\ Len(WordsOf(q)) = Len(q)
            /\ \A i \in 1..Len(q) : WordsOf(q)[i] = q[i].word
      BY WordsTyped
    <3> QED BY <1>7, <3>1
  <2>4. z = a \o b /\ s = a \o <<>>
    BY <1>10, <1>11 DEF Stream
  <2> HIDE DEF a, b, s, z
  <2>5. s = a
    BY <2>2, <2>4
  <2>6. b[1] = ASYNC /\ b[2] = t /\ b[3] = "result" /\ b[4] = "io_size"
    BY <1>4, <1>6, <2>3
  <2>7. /\ z \in Seq(Words) /\ Len(a) \in Nat /\ Len(z) = Len(a) + 4
        /\ \A i \in 1..Len(a) : z[i] = a[i]
        /\ \A i \in 1..4 : z[Len(a) + i] = b[i]
    <3>1. Len(a) \in Nat
      BY <2>2
    <3>2. /\ a \o b \in Seq(Words) /\ Len(a \o b) = Len(b) + Len(a)
          /\ \A i \in 1..Len(a) : (a \o b)[i] = a[i]
          /\ \A i \in 1..Len(b) : (a \o b)[i + Len(a)] = b[i]
      BY <2>2, <2>3, Joined
    <3>3. \A i \in 1..4 : i + Len(a) = Len(a) + i
      BY <3>1
    <3>4. Len(b) + Len(a) = Len(a) + 4
      BY <2>3, <3>1
    <3> QED BY <2>3, <2>4, <3>1, <3>2, <3>3, <3>4, Zenon
  <2>8. 1 \in 1..4 /\ 2 \in 1..4 /\ 3 \in 1..4 /\ 4 \in 1..4
    OBVIOUS
  <2> QED BY <2>2, <2>5, <2>6, <2>7, <2>8
<1>14. /\ Messages(z)
       /\ \A i \in DOMAIN z : z[i] \in Transfers =>
            (i \in DOMAIN s /\ z[i] = s[i]) \/ (i = n + 2 /\ z[i] = t)
  <2>1. Messages(s)
    BY <1>2
  <2> HIDE DEF s, z
  <2> QED BY <1>13, <2>1, EndAppended
<1>15. ASSUME h \in polled, Carried(h) PROVE Carried(h)'
  <2>1. pending[t]
    BY <1>1, <1>2, <1>3, <1>15
  <2>2. \A i \in DOMAIN s : s[i] \in Transfers => On[s[i]] = h /\ io[s[i]] = "none" /\ pending[s[i]]
    BY <1>15, Zenon DEF Carried
  <2>3. \A i, j \in DOMAIN s : s[i] \in Transfers /\ s[i] = s[j] => i = j
    BY <1>15, Zenon DEF Carried
  <2>4. \A i \in DOMAIN s : s[i] # t
    BY <1>1, <2>2, Zenon
  <2> HIDE DEF s, z
  <2>5. \A i \in DOMAIN z : z[i] \in Transfers => On[z[i]] = h /\ io'[z[i]] = "none" /\ pending'[z[i]]
    <3>1. ASSUME NEW i \in DOMAIN z, z[i] \in Transfers
          PROVE  On[z[i]] = h /\ io'[z[i]] = "none" /\ pending'[z[i]]
      <4>1. CASE i \in DOMAIN s /\ z[i] = s[i]
        <5>1. s[i] \in Transfers /\ s[i] # t
          BY <2>4, <3>1, <4>1, Zenon
        <5>2. On[s[i]] = h /\ io[s[i]] = "none" /\ pending[s[i]]
          BY <2>2, <4>1, <5>1, Zenon
        <5>3. io'[s[i]] = io[s[i]] /\ pending' = pending
          BY <1>1, <1>8, <5>1
        <5> QED BY <4>1, <5>2, <5>3, Zenon
      <4>2. CASE z[i] = t
        <5>1. On[t] = h /\ io'[t] = "none" /\ pending' = pending
          BY <1>1, <1>3, <1>8
        <5> QED BY <2>1, <4>2, <5>1, Zenon
      <4> QED BY <1>14, <3>1, <4>1, <4>2, Zenon
    <3> QED BY <3>1, Zenon
  <2>6. \A i, j \in DOMAIN z : z[i] \in Transfers /\ z[i] = z[j] => i = j
    BY <1>14, <2>3, <2>4, Zenon
  <2> QED BY <2>5, <2>6, Zenon DEF Carried, s, z
<1>16. \A u \in Transfers : io'[u] # "none" /\ On[u] \in polled' => pending'[u]
  <2>1. \A u \in Transfers : io'[u] # "none" => io[u] # "none"
    BY <1>8, Zenon
  <2> QED BY <1>1, <1>2, <2>1, Zenon
<1>17. Messages(Stream(h))'
  BY <1>14
<1>18. \A g \in polled' : g \in Handles /\ g \in polled
  BY <1>1, <1>2 DEF PipesTyped
<1> HIDE DEF s, z
<1> QED BY <1>9, <1>12, <1>15, <1>16, <1>17, <1>18, Zenon DEF PipesInv

LEMMA CallbackKeeps == ASSUME PipesInv, NEW t \in Transfers, Pipes!AsyncCallback(t) PROVE PipesInv'
<1>1. CASE On[t] \notin open_devs
  <2>1. /\ towrite = <<>> /\ towrite' = <<>> /\ io' = [io EXCEPT ![t] = "none"]
        /\ UNCHANGED <<pending, fifo, open_devs, polled, reader>>
    BY <1>1 DEF Pipes!AsyncCallback, Pipes!user, Pipes!core
  <2>2. /\ PipesTyped /\ Reading /\ Writing
        /\ \A u \in Transfers : io[u] # "none" /\ On[u] \in polled => pending[u]
    BY DEF PipesInv
  <2>3. /\ io' \in [Transfers -> {"none", "kernel", "ended"}]
        /\ \A u \in Transfers : io[u] = "none" => io'[u] = "none"
    BY <2>1, <2>2 DEF PipesTyped
  <2>4. PipesTyped' /\ Reading' /\ Writing'
    BY <2>1, <2>2, <2>3 DEF PipesTyped, Reading, Writing
  <2>5. \A h \in Handles : Stream(h)' = Stream(h)
    BY <2>1 DEF Stream, Got, Rest
  <2> QED BY <2>1, <2>2, <2>3, <2>4, <2>5, SameStreamsKeep, Zenon
<1> QED BY <1>1, MessageKeeps

\* op_handle_events has a whole message: what it takes is the message the
\* stream begins with.
LEMMA MessageRead ==
    ASSUME PipesInv, Pipes!Read, NEW h \in Handles, h = reader.h
    PROVE  /\ reader.at = "read" /\ h \in polled \ reader.left /\ Carried(h)
           /\ Stream(h) \in Seq(Words) /\ Messages(Stream(h)) /\ Stream(h) # <<>>
           /\ reader.got \in Seq(Words) /\ reader.got # <<>>
           /\ \A i \in 1..Len(reader.got) : Stream(h)[i] = reader.got[i]
           /\ Pipes!message = reader.got[1] /\ reader.got[1] \in {ASYNC, GONE}
           /\ Len(reader.got) = IF reader.got[1] = ASYNC THEN 4 ELSE 1
           /\ fifo[h] \o Rest(h) \in Seq(Words)
           /\ Len(Stream(h)) = Len(fifo[h] \o Rest(h)) + Len(reader.got)
           /\ \A i \in 1..Len(fifo[h] \o Rest(h)) :
                (fifo[h] \o Rest(h))[i] = Stream(h)[i + Len(reader.got)]
           /\ reader.got[1] = ASYNC => reader.got[2] \in Transfers
<1>1. /\ PipesTyped /\ Reading /\ Messages(Stream(h)) /\ \A g \in polled : Carried(g)
  BY DEF PipesInv
<1>2. /\ reader.at = "read" /\ reader.got # <<>> /\ Pipes!message = Head(reader.got)
      /\ Pipes!message = ASYNC => Len(reader.got) = 4
  BY WordsDiffer DEF Pipes!Read, Pipes!Whole, Pipes!message
<1>3. /\ h \in polled \ reader.left /\ reader.got \in Seq(Words)
      /\ reader.got[1] # ASYNC => Len(reader.got) = 1
  BY <1>1, <1>2 DEF PipesTyped, Reading
<1>4. Got(h) = reader.got /\ fifo[h] \in Seq(Words) /\ Rest(h) \in Seq(Words)
  BY <1>1, <1>2, StreamTyped DEF Got
<1> DEFINE s == Stream(h)
           z == fifo[h] \o Rest(h)
           got == reader.got
<1>5. z \in Seq(Words) /\ s = got \o z
  <2> DEFINE f == fifo[h]
             r == Rest(h)
  <2>1. got \in Seq(Words) /\ f \in Seq(Words) /\ r \in Seq(Words) /\ s = (got \o f) \o r /\ z = f \o r
    BY <1>3, <1>4 DEF Stream
  <2> HIDE DEF f, r, s, z, got
  <2>2. (got \o f) \o r = got \o (f \o r)
    BY <2>1, WordsAssociate
  <2> QED BY <2>1, <2>2
<1>6. got \in Seq(Words) /\ got # <<>> /\ Messages(s)
  BY <1>1, <1>2, <1>3
<1>13. Len(got) = IF got[1] = ASYNC THEN 4 ELSE 1
  <2>1. Head(got) = got[1]
    BY <1>2, <1>3
  <2> HIDE DEF got
  <2>2. got = reader.got
    BY DEF got
  <2> QED BY <1>2, <1>3, <2>1, <2>2
<1> HIDE DEF s, z, got
<1>7. /\ s \in Seq(Words) /\ Len(s) = Len(z) + Len(got)
      /\ \A i \in 1..Len(got) : s[i] = got[i]
      /\ \A i \in 1..Len(z) : s[i + Len(got)] = z[i]
  BY <1>5, <1>6, Joined
<1>8. Len(got) \in Nat /\ Len(z) \in Nat /\ Len(got) # 0
  BY <1>5, <1>6
<1>9. \A i \in 1..Len(got) : s[i] = got[i]
  BY <1>7
<1>10. \A i \in 1..Len(z) : z[i] = s[i + Len(got)]
  BY <1>7
<1>11. s # <<>> /\ s[1] = got[1]
  <2>1. 1 \in 1..Len(got) /\ Len(s) # 0
    BY <1>7, <1>8
  <2>2. s # <<>>
    BY <1>7, <2>1
  <2> QED BY <1>9, <2>1, <2>2
<1>12. s[1] \in {ASYNC, GONE} /\ (s[1] = ASYNC => s[2] \in Transfers)
  BY <1>6, <1>7, <1>11, FirstWord
<1>14. got[1] = ASYNC => got[2] \in Transfers
  <2>1. got[1] = ASYNC => 2 \in 1..Len(got)
    BY <1>13
  <2> QED BY <1>9, <1>11, <1>12, <2>1
<1>15. Len(s) = Len(z) + Len(got)
  BY <1>7
<1>16. Pipes!message = got[1]
  BY <1>2, <1>3 DEF got
<1> QED BY <1>1, <1>2, <1>3, <1>5, <1>6, <1>7, <1>9, <1>10, <1>11, <1>12, <1>13, <1>14, <1>15,
           <1>16 DEF s, z, got

\* The handle whose message was read has the stream without it.
LEMMA MessageTaken ==
    ASSUME PipesInv, Pipes!Read, NEW h \in Handles, h = reader.h,
           reader' = [reader EXCEPT !.at = "fds"], UNCHANGED <<fifo, towrite>>
    PROVE  /\ Stream(h)' = fifo[h] \o Rest(h) /\ Messages(Stream(h))'
           /\ \A g \in Handles : g # h => Stream(g)' = Stream(g)
           /\ reader'.at = "fds" /\ reader'.left = reader.left
           /\ reader' \in [at : {"idle", "lock", "fds", "read"}, left : SUBSET Handles,
                           h : Handles \cup {"none"}, got : Seq(Words)]
<1>1. reader \in [at : {"idle", "lock", "fds", "read"}, left : SUBSET Handles,
                  h : Handles \cup {"none"}, got : Seq(Words)]
  BY DEF PipesInv, PipesTyped
<1>2. /\ reader'.at = "fds" /\ reader'.left = reader.left
      /\ reader' \in [at : {"idle", "lock", "fds", "read"}, left : SUBSET Handles,
                      h : Handles \cup {"none"}, got : Seq(Words)]
  BY <1>1
<1>3. \A g \in Handles : Got(g)' = <<>> /\ Rest(g)' = Rest(g)
  BY <1>2 DEF Got, Rest
<1>4. ASSUME NEW g \in Handles, g # h PROVE Stream(g)' = Stream(g)
  <2>1. Got(g) = <<>>
    BY <1>4 DEF Got
  <2> QED BY <1>3, <2>1 DEF Stream
<1> DEFINE z == fifo[h] \o Rest(h)
           n == Len(reader.got)
<1>5. Stream(h)' = z
  <2>1. fifo[h] \in Seq(Words) /\ <<>> \o fifo[h] = fifo[h]
    BY StreamTyped, ConcatEmptySeq DEF PipesInv
  <2> QED BY <1>3, <2>1 DEF Stream
<1>6. /\ Stream(h) \in Seq(Words) /\ z \in Seq(Words) /\ Messages(Stream(h))
      /\ Len(Stream(h)) = Len(z) + n /\ \A i \in 1..Len(z) : z[i] = Stream(h)[i + n]
      /\ reader.got[1] \in {ASYNC, GONE} /\ n = IF reader.got[1] = ASYNC THEN 4 ELSE 1
      /\ 1 \in 1..n => Stream(h)[1] = reader.got[1]
  BY MessageRead
<1>7. n \in {1, 4} /\ Stream(h)[1] = IF n = 1 THEN GONE ELSE ASYNC
  <2>1. n \in {1, 4} /\ 1 \in 1..n /\ reader.got[1] = IF n = 1 THEN GONE ELSE ASYNC
    BY <1>6
  <2> QED BY <1>6, <2>1
<1> HIDE DEF z, n
<1>8. Messages(z)
  BY <1>6, <1>7, MessageDropped
<1>9. Messages(Stream(h))'
  BY <1>5, <1>8
<1> QED BY <1>2, <1>4, <1>5, <1>9 DEF z

LEMMA DeviceGoneKeeps == ASSUME PipesInv, Pipes!DeviceGone PROVE PipesInv'
<1>1. /\ Pipes!Read /\ reader' = [reader EXCEPT !.at = "fds"] /\ polled' = polled \ {reader.h}
      /\ io' = [t \in Transfers |-> IF reader.h = Opener /\ t \in Control THEN "none" ELSE io[t]]
      /\ pending' = [t \in Transfers |-> pending[t] /\ On[t] # reader.h]
      /\ UNCHANGED <<fifo, open_devs, towrite>>
  BY DEF Pipes!DeviceGone
<1>2. /\ PipesTyped /\ Reading /\ Writing /\ \A g \in Handles : Messages(Stream(g))
      /\ \A t \in Transfers : io[t] # "none" /\ On[t] \in polled => pending[t]
  BY DEF PipesInv
<1>3. PICK h \in Handles : h = reader.h
  BY <1>1, <1>2 DEF Pipes!Read, Reading, PipesTyped
<1>4. /\ Messages(Stream(h))' /\ \A g \in Handles : g # h => Stream(g)' = Stream(g)
      /\ reader'.at = "fds" /\ reader'.left = reader.left
      /\ reader' \in [at : {"idle", "lock", "fds", "read"}, left : SUBSET Handles,
                      h : Handles \cup {"none"}, got : Seq(Words)]
  BY <1>1, <1>3, MessageTaken
<1>5. h \notin reader.left
  BY <1>1, <1>3, MessageRead
<1>6. io' \in [Transfers -> {"none", "kernel", "ended"}]
  BY <1>1, <1>2 DEF PipesTyped
<1>7. \A t \in Transfers : io'[t] = "none" \/ io'[t] = io[t]
  BY <1>1
<1>8. /\ pending' \in [Transfers -> BOOLEAN]
      /\ \A t \in Transfers : On[t] # h => (pending'[t] <=> pending[t])
  BY <1>1, <1>3, Zenon
<1>9. PipesTyped' /\ Reading' /\ Writing'
  <2>1. PipesTyped'
    <3>1. polled' \subseteq Handles
      BY <1>1, <1>2 DEF PipesTyped
    <3> QED BY <1>1, <1>2, <1>4, <1>6, <1>8, <3>1, Zenon DEF PipesTyped
  <2>2. Reading'
    BY <1>1, <1>2, <1>3, <1>4, <1>5 DEF Reading
  <2> QED BY <1>1, <1>2, <2>1, <2>2 DEF Writing
<1>10. ASSUME NEW g \in Handles, g # h PROVE Messages(Stream(g))' /\ (Carried(g) => Carried(g)')
  <2>1. Stream(g)' = Stream(g)
    BY <1>4, <1>10
  <2>2. \A t \in Transfers : On[t] = g /\ io[t] = "none" /\ pending[t] => io'[t] = "none" /\ pending'[t]
    BY <1>7, <1>8, <1>10, Zenon
  <2>3. Carried(g) => Carried(g)'
    BY <2>1, <2>2, CarriedKeeps
  <2> QED BY <1>2, <2>1, <2>3, Zenon
<1>11. \A g \in polled' : g \in Handles /\ g \in polled /\ g # h
  BY <1>1, <1>2, <1>3 DEF PipesTyped
<1>12. \A t \in Transfers : io'[t] # "none" /\ On[t] \in polled' => pending'[t]
  <2>1. \A t \in Transfers : io'[t] # "none" => io[t] # "none"
    BY <1>7, Zenon
  <2> QED BY <1>2, <1>8, <1>11, <2>1, Zenon
<1> QED BY <1>4, <1>9, <1>10, <1>11, <1>12, Zenon DEF PipesInv

LEMMA CompleteKeeps == ASSUME PipesInv, Pipes!AsyncIoComplete PROVE PipesInv'
<1> DEFINE x == reader.got[2]
<1>1. /\ Pipes!Read /\ Pipes!message = ASYNC /\ reader' = [reader EXCEPT !.at = "fds"]
      /\ pending' = [pending EXCEPT ![x] = FALSE]
      /\ UNCHANGED <<io, fifo, open_devs, polled, towrite>>
  BY WordsDiffer DEF Pipes!AsyncIoComplete, Pipes!kernel, Pipes!core
<1>2. /\ PipesTyped /\ Reading /\ Writing /\ \A g \in Handles : Messages(Stream(g))
      /\ \A t \in Transfers : io[t] # "none" /\ On[t] \in polled => pending[t]
  BY DEF PipesInv
<1>3. PICK h \in Handles : h = reader.h
  BY <1>1, <1>2 DEF Pipes!Read, Reading, PipesTyped
<1>4. /\ Messages(Stream(h))' /\ \A g \in Handles : g # h => Stream(g)' = Stream(g)
      /\ Stream(h)' = fifo[h] \o Rest(h)
      /\ reader'.at = "fds" /\ reader'.left = reader.left
      /\ reader' \in [at : {"idle", "lock", "fds", "read"}, left : SUBSET Handles,
                      h : Handles \cup {"none"}, got : Seq(Words)]
  BY <1>1, <1>3, MessageTaken
<1>5. /\ Carried(h) /\ Len(reader.got) = 4 /\ x \in Transfers /\ Stream(h)' \in Seq(Words)
      /\ Stream(h) \in Seq(Words) /\ Len(Stream(h)) = Len(Stream(h)') + 4
      /\ \A i \in 1..4 : Stream(h)[i] = reader.got[i]
      /\ \A i \in 1..Len(Stream(h)') : Stream(h)'[i] = Stream(h)[i + 4]
  <2>1. reader.got[1] = ASYNC
    BY <1>1, <1>3, MessageRead
  <2>2. Len(reader.got) = 4 /\ x \in Transfers
    BY <1>1, <1>3, <2>1, MessageRead
  <2>3. /\ Carried(h) /\ Stream(h) \in Seq(Words) /\ fifo[h] \o Rest(h) \in Seq(Words)
        /\ Len(Stream(h)) = Len(fifo[h] \o Rest(h)) + Len(reader.got)
        /\ \A i \in 1..Len(reader.got) : Stream(h)[i] = reader.got[i]
        /\ \A i \in 1..Len(fifo[h] \o Rest(h)) :
             (fifo[h] \o Rest(h))[i] = Stream(h)[i + Len(reader.got)]
    BY <1>1, <1>3, MessageRead
  <2> HIDE DEF x
  <2> QED BY <1>4, <2>2, <2>3, Zenon
<1>6. Stream(h)[2] = x /\ 2 \in DOMAIN Stream(h)
  <2>1. Len(Stream(h)') \in Nat /\ DOMAIN Stream(h) = 1..Len(Stream(h)) /\ 2 \in 1..4
    BY <1>5
  <2> QED BY <1>5, <2>1
<1>7. On[x] = h /\ io[x] = "none"
  BY <1>5, <1>6, Zenon DEF Carried
<1>8. /\ pending' \in [Transfers -> BOOLEAN]
      /\ \A t \in Transfers : t # x => pending'[t] = pending[t]
  <2> HIDE DEF x
  <2> QED BY <1>1, <1>2, <1>5 DEF PipesTyped
<1> HIDE DEF x
<1>9. PipesTyped' /\ Reading' /\ Writing'
  <2>1. PipesTyped'
    BY <1>1, <1>2, <1>4, <1>8, Zenon DEF PipesTyped
  <2>2. Reading'
    BY <1>1, <1>2, <1>4 DEF Reading
  <2> QED BY <1>1, <1>2, <2>1, <2>2 DEF Writing
<1>10. ASSUME NEW g \in Handles, g # h PROVE Messages(Stream(g))' /\ (Carried(g) => Carried(g)')
  <2>1. Stream(g)' = Stream(g)
    BY <1>4, <1>10
  <2>2. \A t \in Transfers : On[t] = g /\ io[t] = "none" /\ pending[t] => io'[t] = "none" /\ pending'[t]
    BY <1>1, <1>7, <1>8, <1>10, Zenon
  <2>3. Carried(g) => Carried(g)'
    BY <2>1, <2>2, CarriedKeeps
  <2> QED BY <1>2, <2>1, <2>3, Zenon
<1>11. Carried(h)'
  <2>1. ASSUME NEW i \in DOMAIN Stream(h)', Stream(h)'[i] \in Transfers
        PROVE  /\ i + 4 \in DOMAIN Stream(h) /\ Stream(h)[i + 4] = Stream(h)'[i]
               /\ io'[Stream(h)'[i]] = "none" /\ pending'[Stream(h)'[i]]
    <3>1. /\ i \in 1..Len(Stream(h)') /\ Len(Stream(h)') \in Nat
          /\ DOMAIN Stream(h) = 1..Len(Stream(h))
      BY <1>5
    <3>2. i + 4 \in DOMAIN Stream(h) /\ i + 4 # 2 /\ Stream(h)[i + 4] = Stream(h)'[i]
      BY <1>5, <3>1
    <3>3. io[Stream(h)'[i]] = "none" /\ pending[Stream(h)'[i]]
      <4>1. io[Stream(h)[i + 4]] = "none" /\ pending[Stream(h)[i + 4]]
        BY <1>5, <2>1, <3>2, Zenon DEF Carried
      <4> QED BY <3>2, <4>1, Zenon
    <3>4. Stream(h)'[i] # x
      <4>1. \A j, k \in DOMAIN Stream(h) :
              Stream(h)[j] \in Transfers /\ Stream(h)[j] = Stream(h)[k] => j = k
        BY <1>5, Zenon DEF Carried
      <4>2. Stream(h)[i + 4] # x
        BY <1>5, <1>6, <3>2, <4>1, Zenon
      <4> QED BY <3>2, <4>2, Zenon
    <3>5. pending'[Stream(h)'[i]] = pending[Stream(h)'[i]] /\ io' = io
      BY <1>1, <1>8, <2>1, <3>4
    <3> QED BY <3>2, <3>3, <3>5, Zenon
  <2>2. DOMAIN Stream(h)' \subseteq Nat /\ 4 \in Nat
    BY <1>5
  <2>3. \A i \in DOMAIN Stream(h)' : Stream(h)'[i] \in Transfers =>
          /\ i + 4 \in DOMAIN Stream(h) /\ Stream(h)[i + 4] = Stream(h)'[i]
          /\ io'[Stream(h)'[i]] = "none" /\ pending'[Stream(h)'[i]]
    BY <2>1, Zenon
  <2> QED BY <1>5, <2>2, <2>3, CarriedLess
<1>12. \A t \in Transfers : io'[t] # "none" /\ On[t] \in polled' => pending'[t]
  <2>1. \A t \in Transfers : io'[t] # "none" => io[t] # "none" /\ t # x
    BY <1>1, <1>7
  <2>2. ASSUME NEW t \in Transfers, io'[t] # "none", On[t] \in polled'
        PROVE  pending'[t]
    <3>1. pending[t] /\ pending'[t] = pending[t]
      BY <1>1, <1>2, <1>8, <2>1, <2>2, Zenon
    <3> QED BY <3>1, Zenon
  <2> QED BY <2>2, Zenon
<1>13. \A g \in polled' : g \in Handles /\ g \in polled
  BY <1>1, <1>2 DEF PipesTyped
<1> QED BY <1>4, <1>9, <1>10, <1>11, <1>12, <1>13, Zenon DEF PipesInv

LEMMA PipesInit == ASSUME Pipes!Init PROVE PipesInv
<1>1. /\ io = [t \in Transfers |-> "none"] /\ pending = [t \in Transfers |-> FALSE]
      /\ fifo = [h \in Handles |-> <<>>] /\ open_devs = Handles /\ polled = Handles
      /\ towrite = <<>> /\ reader = [at |-> "idle", left |-> {}, h |-> "none", got |-> <<>>]
  BY DEF Pipes!Init, Pipes!NotHandling
<1>2. <<>> \in Seq(Words) /\ <<>> \in Seq([h : Handles, word : Words])
  OBVIOUS
<1>3. pending \in [Transfers -> BOOLEAN]
  BY <1>1, Zenon
<1>4. PipesTyped
  <2>1. /\ io \in [Transfers -> {"none", "kernel", "ended"}] /\ fifo \in [Handles -> Seq(Words)]
        /\ reader \in [at : {"idle", "lock", "fds", "read"}, left : SUBSET Handles,
                       h : Handles \cup {"none"}, got : Seq(Words)]
    BY <1>1, <1>2
  <2> QED BY <1>1, <1>2, <1>3, <2>1, Zenon DEF PipesTyped
<1>5. Reading /\ Writing
  BY <1>1 DEF Reading, Writing
<1>6. \A h \in Handles : Stream(h) = <<>>
  BY <1>1, <1>2, ConcatEmptySeq DEF Stream, Got, Rest
<1>7. \A h \in Handles : Messages(Stream(h)) /\ Carried(h)
  BY <1>6 DEF Messages, Carried
<1>8. \A t \in Transfers : io[t] = "none"
  BY <1>1
<1> QED BY <1>1, <1>4, <1>5, <1>7, <1>8 DEF PipesInv

LEMMA PipesKeeps == ASSUME PipesInv, Pipes!Next PROVE PipesInv'
<1>1. CASE \/ \E t \in Transfers : Pipes!Submit(t) \/ Pipes!DeviceAnswers(t) \/ Pipes!Cancel(t)
           \/ Pipes!Unplug
  BY <1>1, QuietPipes
<1>2. CASE \E h \in Handles : Pipes!Close(h)
  BY <1>2, CloseKeeps
<1>3. CASE Pipes!event_thread_main
  BY <1>3, DetachedKeeps, WriteWordKeeps, CallbackKeeps DEF Pipes!event_thread_main
<1>4. CASE Pipes!op_handle_events
  BY <1>4, QuietPipes, ReadWordKeeps, DeviceGoneKeeps, CompleteKeeps DEF Pipes!op_handle_events
<1> QED BY <1>1, <1>2, <1>3, <1>4 DEF Pipes!Next

-----------------------------------------------------------------------------
(* Both halves                                                             *)

LEMMA DarwinInvariant == Spec => []DarwinInv
<1>1. Init => DarwinInv
  BY PipesInit, DeviceInit DEF Init, DarwinInv
<1>2. DarwinInv /\ [Next]_vars => DarwinInv'
  <2> SUFFICES ASSUME DarwinInv, [Next]_vars PROVE DarwinInv'
    OBVIOUS
  <2>1. CASE OfPipes /\ Pipes!Next
    BY <2>1, PipesKeeps DEF DarwinInv, OfPipes
  <2>2. CASE OfDevice /\ Device!Next
    BY <2>2, DeviceKeeps DEF DarwinInv, OfDevice
  <2>3. CASE UNCHANGED vars
    <3>1. UNCHANGED <<part, io, pending, fifo, open_devs, polled, towrite, reader>>
      BY <2>3 DEF vars, pipesOnly
    <3>2. PipesInv => PipesInv'
      <4> SUFFICES ASSUME PipesInv PROVE PipesInv'
        OBVIOUS
      <4>1. PipesTyped'
        BY <3>1, Zenon DEF PipesInv, PipesTyped
      <4>2. Reading' /\ Writing'
        BY <3>1 DEF PipesInv, Reading, Writing
      <4>3. \A h \in Handles : Stream(h)' = Stream(h)
        BY <3>1 DEF Stream, Got, Rest
      <4>4. /\ polled' = polled
            /\ \A t \in Transfers : io[t] = "none" /\ pending[t] => io'[t] = "none" /\ pending'[t]
            /\ \A t \in Transfers : io'[t] # "none" /\ On[t] \in polled' => pending'[t]
        BY <3>1, Zenon DEF PipesInv
      <4> QED BY <4>1, <4>2, <4>3, <4>4, SameStreamsKeep, Zenon
    <3>3. UNCHANGED <<configured, claimed, interface, endpoints, source, stack, nested>>
      BY <2>3 DEF vars, deviceOnly
    <3>4. DeviceInv => DeviceInv'
      BY <3>3, QuietKeeps
    <3> QED BY <3>1, <3>2, <3>4 DEF DarwinInv
  <2> QED BY <2>1, <2>2, <2>3 DEF Next
<1> QED BY <1>1, <1>2, PTL DEF Spec

\* For any number of handles, interfaces and configurations, and calls within
\* calls to any depth: an open interface has its event source and its
\* endpoints whichever IOKit calls of darwin_claim_interface,
\* darwin_set_configuration or darwin_set_interface_altsetting failed, and no
\* endpoint leads to an interface that is not there as long as no claim made
\* to restore an interface has set the configuration.
THEOREM InterfacesStayWhole == Spec => []InterfacesWhole
<1>1. DeviceInv => Device!InterfacesWhole
  BY DEF DeviceInv, OpenWhole, Endpointed, Device!InterfacesWhole
<1>2. DarwinInv => InterfacesWhole
  BY <1>1 DEF DarwinInv, InterfacesWhole
<1> QED BY <1>2, DarwinInvariant, PTL

\* Every darwin_set_configuration that succeeds, at whatever depth, reports
\* what the device is set to, unless the handle had claimed an interface that
\* the configuration lacks, so that the first one was set.
THEOREM ConfigurationStaysKnown == Spec => ConfigurationKnown
<1>1. ASSUME DeviceInv, Device!Next PROVE Device!ConfigurationKnown
  <2> SUFFICES ASSUME Device!In("set", "reclaim"), stack' = Device!Caller
               PROVE  \/ active_config' = configured
                      \/ /\ configured = first_config
                         /\ ~(claimed[Device!Top.h] \subseteq Device!Present(Device!Top.n))
    BY DEF Device!ConfigurationKnown
  <2>1. /\ stack # <<>> /\ Len(stack) \in Nat \ {0} /\ Len(stack) \in DOMAIN stack
        /\ Device!Top = stack[Len(stack)] /\ Len(stack') = Len(stack) - 1
        /\ Device!Top.f = "set" /\ Device!Top.at = "reclaim" /\ Resets(Len(stack))
    BY <1>1, Caller DEF Device!In, Device!Idle, DeviceInv, Resets
  <2>2. Device!Configured
    <3>1. ~Device!Reclaim
      <4>1. ASSUME NEW at, NEW todo, NEW frame, Device!CallOf(frame, at, todo) PROVE FALSE
        <5>1. Len(Device!Caller) = Len(stack) - 1 /\ Device!Caller \in Seq(Frames)
          BY <1>1, <2>1, Caller DEF DeviceInv
        <5>2. stack' = Append(Append(Device!Caller, Device!Waiting(at, todo)), frame)
          BY <4>1 DEF Device!CallOf
        <5>3. Len(stack') = Len(Device!Caller) + 2
          BY <5>1, <5>2
        <5> QED BY <2>1, <5>1, <5>3
      <4> QED BY <4>1 DEF Device!Reclaim
    <3>2. ~Device!SetConfiguration /\ ~Device!SetConfigurationFails
      BY <2>1 DEF Device!SetConfiguration, Device!SetConfigurationFails, Device!In
    <3>3. /\ ~Device!ClaimConfigures /\ ~Device!ClaimFails /\ ~Device!QueryFails
          /\ ~Device!OpenFails /\ ~Device!EndpointsUnknown /\ ~Device!NoSource
          /\ ~Device!ClaimSucceeds
      BY <2>1 DEF Device!ClaimConfigures, Device!ClaimFails, Device!QueryFails, Device!OpenFails,
                  Device!EndpointsUnknown, Device!NoSource, Device!ClaimSucceeds, Device!CanOpen,
                  Device!Claimable, Device!In
    <3>4. /\ ~Device!Scan
          /\ \A h \in DeviceHandles :
               /\ ~Device!darwin_open(h) /\ ~Device!darwin_close(h) /\ ~Device!Begin(h)
               /\ ~Device!darwin_reset_device(h)
               /\ \A i \in Interfaces : /\ ~Device!darwin_release_interface(h, i)
                                       /\ ~Device!darwin_set_interface_altsetting(h, i)
      BY <2>1 DEF Device!Scan, Device!darwin_open, Device!darwin_close, Device!Begin,
                  Device!darwin_reset_device, Device!darwin_release_interface,
                  Device!darwin_set_interface_altsetting, Device!Idle
    <3> QED BY <1>1, <3>1, <3>2, <3>3, <3>4 DEF Device!Next
  <2>3. active_config' = Device!Top.n
    BY <2>2 DEF Device!Configured
  <2> QED BY <1>1, <2>1, <2>3 DEF DeviceInv, Followed, Lacks
<1>2. DarwinInv /\ [Next]_vars => [part = "device" => Device!ConfigurationKnown]_vars
  BY <1>1 DEF DarwinInv, Next, OfDevice, OfPipes
<1> QED BY <1>2, DarwinInvariant, PTL DEF Spec, ConfigurationKnown

\* For any number of handles and transfers and any capacity of the pipes:
\* op_handle_events never takes a word for a message that is none, and
\* completes only transfers that are pending.
THEOREM MessagesStayWhole == Spec => []MessagesWhole
<1>1. ASSUME PipesInv PROVE Pipes!MessagesWhole
  <2> SUFFICES ASSUME Pipes!Read
               PROVE  /\ Pipes!message \in {ASYNC, GONE}
                      /\ Pipes!message = ASYNC => /\ reader.got[2] \in Transfers
                                                  /\ pending[reader.got[2]]
    BY WordsDiffer DEF Pipes!MessagesWhole, Pipes!UnknownMessage
  <2>1. PICK h \in Handles : h = reader.h
    BY <1>1 DEF Pipes!Read, PipesInv, Reading, PipesTyped
  <2>2. /\ Pipes!message \in {ASYNC, GONE} /\ Carried(h) /\ Stream(h) \in Seq(Words)
        /\ Pipes!message = ASYNC => reader.got[2] \in Transfers /\ Len(reader.got) = 4
        /\ \A i \in 1..Len(reader.got) : Stream(h)[i] = reader.got[i]
        /\ Len(Stream(h)) = Len(fifo[h] \o Rest(h)) + Len(reader.got)
        /\ fifo[h] \o Rest(h) \in Seq(Words)
    BY <1>1, <2>1, MessageRead
  <2>3. ASSUME Pipes!message = ASYNC PROVE pending[reader.got[2]]
    <3>1. 2 \in DOMAIN Stream(h) /\ 2 \in 1..4
      <4> DEFINE s == Stream(h)
                 z == fifo[h] \o Rest(h)
      <4>1. s \in Seq(Words) /\ z \in Seq(Words) /\ Len(s) = Len(z) + Len(reader.got)
        BY <2>2
      <4>2. Len(reader.got) = 4
        BY <2>2, <2>3, Zenon
      <4> HIDE DEF s, z
      <4>3. 2 \in DOMAIN s /\ 2 \in 1..4
        BY <4>1, <4>2
      <4> QED BY <4>3 DEF s
    <3>2. Stream(h)[2] = reader.got[2] /\ reader.got[2] \in Transfers
      BY <2>2, <2>3, <3>1
    <3> QED BY <2>2, <3>1, <3>2, Zenon DEF Carried
  <2> QED BY <2>2, <2>3, Zenon
<1>2. DarwinInv => MessagesWhole
  BY <1>1 DEF DarwinInv, MessagesWhole
<1> QED BY <1>2, DarwinInvariant, PTL

=============================================================================
