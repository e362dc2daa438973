-------------------------- MODULE IrpcProgramsProofs --------------------------
(***************************************************************************)
(* What the programs promise, for any number of clients and devices and    *)
(* any size of the device list: irpc_find_idevice prints the truth of      *)
(* every list that is not empty, and irpc_client leaves nothing open       *)
(* behind its exit.                                                        *)
(***************************************************************************)
EXTENDS IrpcPrograms, FunctionTheorems, FiniteSetTheorems,
        SequenceTheorems, TLAPS

Verdicts == Devices \cup {"no recovery device", None}

TypeInv ==
    /\ server \in {"start"} \cup Running \cup Stopped
    /\ pc \in [Clients -> {"start"} \cup Connected \cup Over]
    /\ program \in [Clients -> {"client", "find"}]
    /\ attached \subseteq Devices
    /\ devs \in [Clients -> Seq(Devices)]
    /\ i \in [Clients -> Nat \ {0}]
    /\ verdict \in [Clients -> Verdicts]
    /\ present \in [Clients -> SUBSET Devices]

Early == {"start", "usb_init", "get_device_list"}

\* The list a program searches, against the bus it was made of.
Listed(c) ==
    /\ \A n \in 1..Len(devs[c]) : devs[c][n] \in present[c]
    /\ devs[c] # <<>> /\ Cardinality(present[c]) <= MaxDevs =>
          \A d \in present[c] : \E n \in 1..Len(devs[c]) : devs[c][n] = d

Truth(c) ==
    /\ verdict[c] \in Devices => verdict[c] \in Recovery \cap present[c]
    /\ /\ verdict[c] = "no recovery device"
       /\ devs[c] # <<>> /\ Cardinality(present[c]) <= MaxDevs
       => present[c] \cap Recovery = {}

\* A program prints nothing before it has gone through the entries that came
\* first, none of which is in recovery mode.
Searches(c) ==
    /\ pc[c] \in Early => verdict[c] = None /\ i[c] = 1
    /\ pc[c] = "get_device_descriptor" =>
          /\ verdict[c] = None /\ Listed(c)
          /\ \A n \in 1..Len(devs[c]) : n < i[c] => devs[c][n] \notin Recovery
    /\ Truth(c)

FindInv == TypeInv /\ \A c \in Clients : Searches(c)

-----------------------------------------------------------------------------
(* The device list *)

Cut(list) == SubSeq(list, 1, IF Len(list) < MaxDevs THEN Len(list) ELSE MaxDevs)

\* irpc_get_device_list cuts the list at MaxDevs: it holds devices of the bus,
\* and all of them if they are not too many.
LEMMA ListFacts ==
    ASSUME NEW set, set \subseteq Devices, NEW list \in ListOf(set)
    PROVE  /\ Cut(list) \in Seq(Devices)
           /\ \A n \in 1..Len(Cut(list)) : Cut(list)[n] \in set
           /\ Cardinality(set) <= MaxDevs =>
                 \A d \in set : \E n \in 1..Len(Cut(list)) : Cut(list)[n] = d
<1> DEFINE cut == Cut(list)
<1>1. PICK m \in Nat : list \in [1..m -> Devices]
    <2>1. PICK m \in 0..Cardinality(Devices) : list \in [1..m -> Devices]
        BY DEF ListOf, Lists
    <2>2. Cardinality(Devices) \in Nat
        BY FS_CardinalityType, ProgramsAssumption
    <2> QED BY <2>1, <2>2
<1>2. /\ \A a, b \in 1..m : list[a] = list[b] => a = b
      /\ {list[n] : n \in 1..m} = set
    BY <1>1 DEF ListOf, Lists
<1>3. list \in Seq(Devices) /\ Len(list) = m
    BY <1>1
<1>4. PICK k \in Nat : /\ k = (IF m < MaxDevs THEN m ELSE MaxDevs)
                       /\ k <= m /\ (m <= MaxDevs => k = m)
    <2>1. MaxDevs \in Nat
        BY ProgramsAssumption
    <2>2. CASE m < MaxDevs
        BY <2>1, <2>2
    <2>3. CASE ~(m < MaxDevs)
        BY <2>1, <2>3
    <2> QED BY <2>2, <2>3
<1>5. cut = SubSeq(list, 1, k)
    BY <1>3, <1>4 DEF Cut
<1> HIDE DEF cut
<1>6. cut \in Seq(Devices) /\ Len(cut) = k /\ \A n \in 1..k : cut[n] = list[n]
    BY <1>3, <1>4, <1>5
<1>7. \A n \in 1..Len(cut) : cut[n] \in set
    BY <1>2, <1>4, <1>6
<1>8. Cardinality(set) = m
    <2>1. ExistsBijection(1..m, set)
        <3>1. list \in Bijection(1..m, set)
            <4>1. list \in [1..m -> set]
                BY <1>1, <1>2
            <4>2. \A d \in set : \E n \in 1..m : list[n] = d
                BY <1>2
            <4> QED BY <1>2, <4>1, <4>2, Fun_IsBij
        <3> QED BY <3>1 DEF ExistsBijection
    <2>2. IsFiniteSet(1..m) /\ Cardinality(1..m) = m
        BY FS_Interval
    <2> QED BY <2>1, <2>2, FS_Bijection
<1>9. ASSUME Cardinality(set) <= MaxDevs, NEW d \in set
      PROVE  \E n \in 1..Len(cut) : cut[n] = d
    <2>1. k = m
        BY <1>4, <1>8, <1>9
    <2>2. PICK n \in 1..m : list[n] = d
        BY <1>2
    <2> QED BY <1>6, <2>1, <2>2
<1> QED BY <1>6, <1>7, <1>9 DEF cut

-----------------------------------------------------------------------------
(* The search *)

\* A client that no step of its own changed.
LEMMA Untouched ==
    ASSUME NEW c, Searches(c), pc'[c] = pc[c], verdict'[c] = verdict[c], i'[c] = i[c],
           devs'[c] = devs[c], present'[c] = present[c]
    PROVE  Searches(c)'
BY DEF Searches, Listed, Truth

\* A client that is past its search.
LEMMA Past ==
    ASSUME NEW c, Searches(c), pc'[c] \notin Early \cup {"get_device_descriptor"},
           verdict'[c] = verdict[c], devs'[c] = devs[c], present'[c] = present[c]
    PROVE  Searches(c)'
BY DEF Searches, Truth

\* A step of c that changes where it is only.
LEMMA Moves ==
    ASSUME FindInv, NEW c \in Clients, NEW where, Goes(c, where),
           where \in Connected \cup Over,
           UNCHANGED clientVars, UNCHANGED attached,
           server' \in {"start"} \cup Running \cup Stopped,
           \/ where \notin Early \cup {"get_device_descriptor"}
           \/ pc[c] \in Early /\ where \in Early
    PROVE  FindInv'
<1>1. /\ pc' = [pc EXCEPT ![c] = where] /\ pc \in [Clients -> {"start"} \cup Connected \cup Over]
      /\ program' = program /\ devs' = devs /\ i' = i /\ verdict' = verdict
      /\ present' = present /\ attached' = attached
    BY DEF FindInv, TypeInv, Goes, clientVars
<1>2. TypeInv'
    <2>1. pc' \in [Clients -> {"start"} \cup Connected \cup Over]
        BY <1>1
    <2> QED BY <1>1, <2>1 DEF FindInv, TypeInv
<1>3. ASSUME NEW u \in Clients, u # c PROVE Searches(u)'
    <2>1. pc'[u] = pc[u] /\ Searches(u)
        BY <1>1, <1>3 DEF FindInv
    <2> QED BY <1>1, <2>1, Untouched
<1>4. Searches(c)'
    <2>1. pc'[c] = where /\ Searches(c)
        BY <1>1 DEF FindInv
    <2>2. CASE where \notin Early \cup {"get_device_descriptor"}
        BY <1>1, <2>1, <2>2, Past
    <2>3. CASE pc[c] \in Early /\ where \in Early
        BY <1>1, <2>1, <2>3 DEF Searches, Truth, Early
    <2> QED BY <2>2, <2>3
<1> QED BY <1>2, <1>3, <1>4 DEF FindInv

LEMMA GetDeviceListFinds ==
    ASSUME FindInv, NEW c \in Clients, GetDeviceList(c)
    PROVE  FindInv'
<1>1. PICK list \in {<<>>} \cup ListOf(attached) : devs' = [devs EXCEPT ![c] = Cut(list)]
    BY DEF GetDeviceList, Cut
<1>2. /\ Cut(list) \in Seq(Devices)
      /\ \A n \in 1..Len(Cut(list)) : Cut(list)[n] \in attached
      /\ Cut(list) # <<>> /\ Cardinality(attached) <= MaxDevs =>
            \A d \in attached : \E n \in 1..Len(Cut(list)) : Cut(list)[n] = d
    <2>1. attached \subseteq Devices
        BY DEF FindInv, TypeInv
    <2>2. CASE list = <<>>
        <3>1. Cut(list) = <<>>
            <4>1. MaxDevs \in Nat \ {0} /\ Len(<<>>) = 0
                BY ProgramsAssumption
            <4>2. (IF Len(<<>>) < MaxDevs THEN Len(<<>>) ELSE MaxDevs) = 0
                BY <4>1
            <4>3. Cut(list) = SubSeq(<<>>, 1, 0)
                BY <2>2, <4>2 DEF Cut
            <4> QED BY <4>3, SubSeqEmpty
        <3> QED BY <3>1
    <2>3. CASE list \in ListOf(attached)
        BY <2>1, <2>3, ListFacts, Zenon
    <2> QED BY <2>2, <2>3
<1>3. /\ pc[c] = "get_device_list" /\ pc' = [pc EXCEPT ![c] = "get_device_descriptor"]
      /\ present' = [present EXCEPT ![c] = attached] /\ devs' = [devs EXCEPT ![c] = Cut(list)]
      /\ server' = server /\ attached' = attached
      /\ program' = program /\ i' = i /\ verdict' = verdict
    BY <1>1 DEF GetDeviceList, Call, Goes, serverVars
<1>4. TypeInv'
    BY <1>2, <1>3 DEF FindInv, TypeInv, Connected
<1>5. ASSUME NEW u \in Clients, u # c PROVE Searches(u)'
    <2>1. /\ pc'[u] = pc[u] /\ devs'[u] = devs[u] /\ present'[u] = present[u]
          /\ i'[u] = i[u] /\ verdict'[u] = verdict[u] /\ Searches(u)
        BY <1>3, <1>5 DEF FindInv, TypeInv
    <2> QED BY <2>1, Untouched
<1>6. Searches(c)'
    <2>1. /\ pc'[c] = "get_device_descriptor" /\ devs'[c] = Cut(list) /\ present'[c] = attached
          /\ i'[c] = i[c] /\ verdict'[c] = verdict[c]
        BY <1>3 DEF FindInv, TypeInv
    <2>2. verdict'[c] = None /\ i'[c] = 1
        BY <1>3, <2>1 DEF FindInv, Searches, Early
    <2>3. Listed(c)'
        BY <1>2, <2>1 DEF Listed
    <2>4. \A n \in 1..Len(devs'[c]) : ~(n < i'[c])
        BY <1>2, <2>1, <2>2
    <2>5. Truth(c)'
        BY <2>2, ProgramsAssumption DEF Truth
    <2> QED BY <2>1, <2>2, <2>3, <2>4, <2>5 DEF Searches, Early
<1> QED BY <1>4, <1>5, <1>6 DEF FindInv

\* An entry that identifies a device is one of the list.
LEMMA EntryListed ==
    ASSUME TypeInv, NEW c \in Clients, Entry(c, i[c]) \in Devices
    PROVE  i[c] \in 1..Len(devs[c]) /\ Entry(c, i[c]) = devs[c][i[c]]
<1>1. PICK n \in Nat \ {0}, L \in Nat : n = i[c] /\ L = Len(devs[c])
    BY DEF TypeInv
<1>2. n <= L
    BY <1>1, ProgramsAssumption DEF Entry
<1>3. Entry(c, i[c]) = devs[c][i[c]]
    BY <1>1, <1>2 DEF Entry
<1>4. n \in 1..L
    BY <1>2
<1> QED BY <1>1, <1>3, <1>4

LEMMA TryFinds ==
    ASSUME FindInv, NEW c \in Clients, TryToFindIdevice(c)
    PROVE  FindInv'
<1>1. /\ pc[c] = "get_device_descriptor" /\ attached \subseteq Devices
      /\ server' = server /\ attached' = attached /\ program' = program
      /\ devs' = devs /\ present' = present
    BY DEF TryToFindIdevice, Call, FindInv, TypeInv, serverVars
<1>2. Searches(c) /\ TypeInv
    BY DEF FindInv
<1>3. CASE Entry(c, i[c]) \in attached \ Recovery /\ i' = [i EXCEPT ![c] = @ + 1] /\ UNCHANGED <<pc, verdict>>
    <2>1. TypeInv'
        BY <1>1, <1>2, <1>3 DEF TypeInv
    <2>2. ASSUME NEW u \in Clients, u # c PROVE Searches(u)'
        <3>1. i'[u] = i[u] /\ Searches(u)
            BY <1>2, <1>3, <2>2 DEF FindInv, TypeInv
        <3> QED BY <1>1, <1>3, <3>1, Untouched
    <2>3. i[c] \in 1..Len(devs[c]) /\ devs[c][i[c]] \notin Recovery
        BY <1>1, <1>2, <1>3, EntryListed
    <2>4. i'[c] = i[c] + 1 /\ Len(devs[c]) \in Nat
        BY <1>2, <1>3 DEF TypeInv
    <2>5. \A n \in 1..Len(devs[c]) : n < i'[c] => devs[c][n] \notin Recovery
        BY <1>1, <1>2, <2>3, <2>4 DEF Searches
    <2>6. Searches(c)'
        BY <1>1, <1>2, <1>3, <2>5 DEF Searches, Listed, Truth, Early
    <2> QED BY <2>1, <2>2, <2>6 DEF FindInv
<1>4. CASE /\ Entry(c, i[c]) \in attached \cap Recovery
           /\ verdict' = [verdict EXCEPT ![c] = Entry(c, i[c])]
           /\ Goes(c, "usb_exit") /\ UNCHANGED i
    <2>1. pc' = [pc EXCEPT ![c] = "usb_exit"] /\ i' = i
        BY <1>4 DEF Goes
    <2>2. Entry(c, i[c]) \in Devices
        BY <1>1, <1>4
    <2>3. TypeInv'
        BY <1>1, <1>2, <1>4, <2>1, <2>2 DEF TypeInv, Connected, Verdicts
    <2>4. ASSUME NEW u \in Clients, u # c PROVE Searches(u)'
        <3>1. pc'[u] = pc[u] /\ verdict'[u] = verdict[u] /\ Searches(u)
            BY <1>2, <1>4, <2>1, <2>4 DEF FindInv, TypeInv
        <3> QED BY <1>1, <2>1, <3>1, Untouched
    <2>5. Entry(c, i[c]) \in present[c]
        BY <1>1, <1>2, <2>2, EntryListed DEF Searches, Listed
    <2>6. pc'[c] = "usb_exit" /\ verdict'[c] = Entry(c, i[c])
        BY <1>2, <1>4, <2>1 DEF TypeInv
    <2>7. Truth(c)'
        BY <1>1, <1>4, <2>2, <2>5, <2>6, ProgramsAssumption DEF Truth
    <2>8. Searches(c)'
        BY <2>6, <2>7 DEF Searches, Early
    <2> QED BY <2>3, <2>4, <2>8 DEF FindInv
<1>5. CASE DescriptorFails(c)
    <2>1. Goes(c, "usb_exit") /\ UNCHANGED clientVars
        BY <1>1, <1>5 DEF DescriptorFails, clientVars
    <2> QED BY <1>1, <1>2, <2>1, Moves DEF Connected, Early, TypeInv
<1> QED BY <1>3, <1>4, <1>5 DEF TryToFindIdevice

LEMMA NoneFoundFinds ==
    ASSUME FindInv, NEW c \in Clients, NoneFound(c)
    PROVE  FindInv'
<1>1. /\ pc[c] = "get_device_descriptor" /\ pc' = [pc EXCEPT ![c] = "usb_exit"]
      /\ verdict' = [verdict EXCEPT ![c] = "no recovery device"] /\ i[c] > Len(devs[c])
      /\ server' = server /\ attached' = attached /\ program' = program
      /\ devs' = devs /\ i' = i /\ present' = present
    BY DEF NoneFound, Goes, serverVars
<1>2. Searches(c) /\ TypeInv
    BY DEF FindInv
<1>3. TypeInv'
    BY <1>1, <1>2 DEF TypeInv, Connected, Verdicts
<1>4. ASSUME NEW u \in Clients, u # c PROVE Searches(u)'
    <2>1. pc'[u] = pc[u] /\ verdict'[u] = verdict[u] /\ Searches(u)
        BY <1>1, <1>2, <1>4 DEF FindInv, TypeInv
    <2> QED BY <1>1, <2>1, Untouched
<1>5. \A n \in 1..Len(devs[c]) : devs[c][n] \notin Recovery
    <2>1. i[c] \in Nat \ {0} /\ devs[c] \in Seq(Devices)
        BY <1>2 DEF TypeInv
    <2>2. PICK k \in Nat : k = i[c]
        BY <2>1
    <2>3. PICK L \in Nat : L = Len(devs[c])
        BY <2>1
    <2>4. k > L
        BY <1>1, <2>2, <2>3
    <2>5. \A n \in 1..L : n < k
        BY <2>4
    <2> QED BY <1>1, <1>2, <2>2, <2>3, <2>5 DEF Searches
<1>6. devs[c] # <<>> /\ Cardinality(present[c]) <= MaxDevs => present[c] \cap Recovery = {}
    BY <1>1, <1>2, <1>5 DEF Searches, Listed
<1>7. pc'[c] = "usb_exit" /\ verdict'[c] = "no recovery device"
    BY <1>1, <1>2 DEF TypeInv
<1>8. Searches(c)'
    BY <1>1, <1>6, <1>7, ProgramsAssumption DEF Searches, Truth, Early
<1> QED BY <1>3, <1>4, <1>8 DEF FindInv

LEMMA FindStep == FindInv /\ [Next]_vars => FindInv'
<1> SUFFICES ASSUME FindInv, [Next]_vars PROVE FindInv'
    OBVIOUS
<1>1. CASE ServerStep \/ AcceptFails \/ Plug \/ UNCHANGED vars
    <2>1. pc' = pc /\ UNCHANGED clientVars
        BY <1>1 DEF ServerStep, AcceptFails, Plug, vars, InitConnection, Select, Accept,
                    ServeQueued, ServerEof
    <2>2. server' \in {"start"} \cup Running \cup Stopped /\ attached' \subseteq Devices
        BY <1>1 DEF ServerStep, AcceptFails, Plug, vars, serverVars, InitConnection, Select,
                    Accept, ServeQueued, ServerEof, Running, Stopped, FindInv, TypeInv
    <2>3. TypeInv'
        BY <2>1, <2>2 DEF FindInv, TypeInv, clientVars
    <2>4. ASSUME NEW u \in Clients PROVE Searches(u)'
        BY <2>1, Untouched DEF FindInv, clientVars
    <2> QED BY <2>3, <2>4 DEF FindInv
<1>2. ASSUME NEW c \in Clients, ClientStep(c) \/ Killed(c) PROVE FindInv'
    <2>1. CASE GetDeviceList(c)
        BY <2>1, GetDeviceListFinds
    <2>2. CASE TryToFindIdevice(c)
        BY <2>2, TryFinds
    <2>3. CASE NoneFound(c)
        BY <2>3, NoneFoundFinds
    <2>4. CASE \/ Connect(c) \/ UsbInit(c) \/ PrintDeviceIds(c) \/ UsbOpenDevice(c)
               \/ UsbClaimInterface(c) \/ UsbReleaseInterface(c) \/ UsbClose(c) \/ UsbExit(c)
               \/ ServerGone(c) \/ Killed(c)
        <3>1. server' = server /\ attached' = attached /\ UNCHANGED clientVars
            BY <2>4 DEF Connect, UsbInit, PrintDeviceIds, UsbOpenDevice, UsbClaimInterface,
                        UsbReleaseInterface, UsbClose, UsbExit, ServerGone, Killed, serverVars
        <3>2. \/ pc[c] \in Early /\ \E where \in {"usb_init", "get_device_list"} : Goes(c, where)
              \/ \E where \in Over \cup {"usb_open", "claim_interface", "release_interface",
                                       "usb_close", "usb_exit"} : Goes(c, where)
            BY <2>4, Zenon DEF Connect, UsbInit, PrintDeviceIds, UsbOpenDevice, UsbClaimInterface,
                        UsbReleaseInterface, UsbClose, UsbExit, ServerGone, Killed,
                        Over, Early, Call, ClaimFails
        <3>3. PICK where \in Connected \cup Over :
                 /\ Goes(c, where)
                 /\ \/ where \notin Early \cup {"get_device_descriptor"}
                    \/ pc[c] \in Early /\ where \in Early
            BY <3>2 DEF Connected, Over, Early
        <3> QED BY <3>1, <3>3, Moves DEF FindInv, TypeInv
    <2> QED BY <1>2, <2>1, <2>2, <2>3, <2>4 DEF ClientStep
<1> QED BY <1>1, <1>2 DEF Next

\* The search of irpc_find_idevice, whatever devices leave while it runs,
\* whichever of them the list had no room for, and whatever fails: what it prints
\* of a list that is not empty is true of the bus the list was made of.
THEOREM FindsTheTruth == Spec => []FindTellsTheTruth
<1>1. Init => FindInv
    <2> SUFFICES ASSUME Init PROVE FindInv
        OBVIOUS
    <2>1. TypeInv
        BY DEF Init, TypeInv, Verdicts
    <2>2. ASSUME NEW c \in Clients PROVE Searches(c)
        BY ProgramsAssumption DEF Init, Searches, Truth, Early
    <2> QED BY <2>1, <2>2 DEF FindInv
<1>2. FindInv => FindTellsTheTruth
    BY DEF FindInv, Searches, Truth, FindTellsTheTruth
<1> QED BY <1>1, <1>2, FindStep, PTL DEF Spec

-----------------------------------------------------------------------------
(* What is left open *)

Closing == <<"usb_close">>
Exiting == <<"usb_exit">>
ClosingExiting == Append(Closing, "usb_exit")

\* Only the client that was accepted gets an answer to its first call.
ServedInv ==
    /\ pc \in [Clients -> {"start"} \cup Connected \cup Over]
    /\ backlog \in Seq(Clients)
    /\ server \in {"start", "select", "accept"} => served = None
    /\ server = "serving" => served \in Clients
    /\ served = None => calls = <<>> /\ handle = None /\ ~claimed
    /\ \A c \in Clients : pc[c] \in Connected \ {"usb_init"} => c = served

\* What it has sent and not waited for, and how far it is then.
SentInv ==
    \/ calls = <<>>
    \/ calls = Closing /\ pc[served] \in {"usb_exit"} \cup Over
    \/ calls \in {Exiting, ClosingExiting} /\ pc[served] \in Over

NothingOpen == handle = None /\ ~claimed

\* A device that is open is closed by the next call, or its program is at a
\* place from which it will close it, or was killed there.
OpenInv ==
    /\ calls = <<>> =>
          NothingOpen \/ pc[served] \in {"claim_interface", "release_interface", "usb_close",
                                        "killed", "died"}
    /\ calls = Exiting => NothingOpen
    /\ server = "done" => NothingOpen

CloseInv == claimed \in BOOLEAN /\ ServedInv /\ SentInv /\ OpenInv

LEMMA CallsDiffer ==
    /\ Closing # <<>> /\ Exiting # <<>> /\ ClosingExiting # <<>>
    /\ Closing # Exiting /\ ClosingExiting # Exiting /\ ClosingExiting # Closing
    /\ Head(Closing) = "usb_close" /\ Tail(Closing) = <<>>
    /\ Head(Exiting) = "usb_exit" /\ Tail(Exiting) = <<>>
    /\ Head(ClosingExiting) = "usb_close" /\ Tail(ClosingExiting) = Exiting
    /\ Append(<<>>, "usb_close") = Closing /\ Append(<<>>, "usb_exit") = Exiting
    /\ Append(Closing, "usb_exit") = ClosingExiting
<1> DEFINE Late == {"usb_close", "usb_exit"}
<1>1. /\ Closing \in Seq(Late) /\ Len(Closing) = 1 /\ Closing[1] = "usb_close"
      /\ Head(Closing) = "usb_close" /\ Tail(Closing) = <<>> /\ Append(<<>>, "usb_close") = Closing
    BY DEF Closing
<1>2. /\ Exiting \in Seq(Late) /\ Len(Exiting) = 1 /\ Exiting[1] = "usb_exit"
      /\ Head(Exiting) = "usb_exit" /\ Tail(Exiting) = <<>> /\ Append(<<>>, "usb_exit") = Exiting
    BY DEF Exiting
<1>3. "usb_exit" \in Late /\ Len(<<>>) = 0
    OBVIOUS
<1> HIDE DEF Late
<1>4. ClosingExiting # <<>> /\ Len(ClosingExiting) = Len(Closing) + 1
    <2>1. /\ Append(Closing, "usb_exit") # <<>>
          /\ Len(Append(Closing, "usb_exit")) = Len(Closing) + 1
        <3>1. Closing \in Seq(Late) /\ "usb_exit" \in Late
            BY <1>1, <1>3
        <3> QED BY <3>1, AppendProperties
    <2> QED BY <2>1 DEF ClosingExiting
<1>5. /\ Closing # <<>> /\ Exiting # <<>> /\ Closing # Exiting
      /\ ClosingExiting # Exiting /\ ClosingExiting # Closing
    <2>1. Len(ClosingExiting) = 2
        BY <1>1, <1>4
    <2>2. Closing # <<>> /\ Exiting # <<>>
        <3>1. Len(Closing) # Len(<<>>) /\ Len(Exiting) # Len(<<>>)
            BY <1>1, <1>2, <1>3
        <3> QED BY <3>1, Zenon
    <2>3. ClosingExiting # Exiting /\ ClosingExiting # Closing
        <3>1. Len(ClosingExiting) # Len(Exiting) /\ Len(ClosingExiting) # Len(Closing)
            BY <1>1, <1>2, <2>1
        <3> QED BY <3>1, Zenon
    <2>4. Closing # Exiting
        BY <1>1, <1>2
    <2> QED BY <2>2, <2>3, <2>4
<1>6. Head(ClosingExiting) = "usb_close" /\ Tail(ClosingExiting) = Append(<<>>, "usb_exit")
    <2>1. /\ Head(Append(Closing, "usb_exit")) =
                IF Closing = <<>> THEN "usb_exit" ELSE Head(Closing)
          /\ Tail(Append(Closing, "usb_exit")) =
                IF Closing = <<>> THEN <<>> ELSE Append(Tail(Closing), "usb_exit")
        BY <1>1, HeadTailAppend, Zenon
    <2> QED BY <1>1, <1>5, <2>1 DEF ClosingExiting
<1> QED BY <1>1, <1>2, <1>4, <1>5, <1>6 DEF ClosingExiting

LEMMA ServerCloses ==
    ASSUME CloseInv, ServerStep \/ AcceptFails \/ Plug \/ UNCHANGED vars
    PROVE  CloseInv'
<1>1. CASE InitConnection \/ Select \/ AcceptFails \/ ServerEof \/ Plug \/ UNCHANGED vars
    <2>1. /\ UNCHANGED <<backlog, served, calls, handle, claimed, pc>>
          /\ \/ server' = server
             \/ server \in {"start", "select", "accept"} /\ server' \in {"select", "accept", "failed"}
             \/ server' = "crashed"
        BY <1>1 DEF InitConnection, Select, AcceptFails, ServerEof, Plug, vars, serverVars, usbVars
    <2> QED BY <2>1 DEF CloseInv, ServedInv, SentInv, OpenInv, NothingOpen
<1>2. CASE Accept
    <2>1. /\ server = "accept" /\ served = None /\ calls = <<>> /\ NothingOpen
          /\ backlog \in Seq(Clients) /\ backlog # <<>>
          /\ server' = "serving" /\ served' = Head(backlog) /\ backlog' = Tail(backlog)
          /\ UNCHANGED <<calls, handle, claimed, pc>>
        BY <1>2 DEF Accept, CloseInv, ServedInv, NothingOpen, usbVars
    <2>2. served' \in Clients /\ backlog' \in Seq(Clients)
        BY <2>1
    <2>3. \A c \in Clients : pc[c] \notin Connected \ {"usb_init"}
        BY <2>1, ProgramsAssumption DEF CloseInv, ServedInv
    <2>4. ServedInv'
        BY <2>1, <2>2, <2>3, ProgramsAssumption DEF CloseInv, ServedInv
    <2> QED BY <2>1, <2>4 DEF CloseInv, SentInv, OpenInv, NothingOpen, Exiting
<1>3. CASE ServeQueued
    <2>1. /\ server = "serving" /\ served \in Clients /\ calls # <<>> /\ calls' = Tail(calls)
          /\ UNCHANGED <<backlog, served, pc>>
        BY <1>3 DEF ServeQueued, CloseInv, ServedInv
    <2>2. calls \in {Closing, Exiting, ClosingExiting}
        BY <2>1 DEF CloseInv, SentInv
    <2>3. CASE calls \in {Closing, ClosingExiting}
        <3>1. handle' = None /\ claimed' = FALSE /\ server' = server
            BY <1>3, <2>3, CallsDiffer DEF ServeQueued
        <3>2. calls' \in {<<>>, Exiting} /\ (calls' = Exiting => pc[served] \in Over)
            BY <2>1, <2>3, CallsDiffer DEF CloseInv, SentInv
        <3> QED BY <2>1, <3>1, <3>2 DEF CloseInv, ServedInv, SentInv, OpenInv, NothingOpen
    <2>4. CASE calls = Exiting
        <3>1. server' = "done" /\ handle' = handle /\ claimed' = claimed /\ calls' = <<>>
            BY <1>3, <2>1, <2>4, CallsDiffer DEF ServeQueued, usbVars
        <3>2. NothingOpen
            BY <2>4 DEF CloseInv, OpenInv
        <3> QED BY <2>1, <3>1, <3>2 DEF CloseInv, ServedInv, SentInv, OpenInv, NothingOpen
    <2> QED BY <2>2, <2>3, <2>4
<1> QED BY <1>1, <1>2, <1>3 DEF ServerStep

\* A step of a client changes where that client is.
LEMMA ClientServed ==
    ASSUME CloseInv, NEW c \in Clients, NEW where \in Connected \cup Over, Goes(c, where),
           where \in Connected \ {"usb_init"} => c = served,
           backlog' \in Seq(Clients), UNCHANGED <<server, served>>,
           UNCHANGED <<calls, handle, claimed>> \/ served # None
    PROVE  ServedInv'
<1>1. pc' = [pc EXCEPT ![c] = where] /\ pc \in [Clients -> {"start"} \cup Connected \cup Over]
    BY DEF Goes, CloseInv, ServedInv
<1>2. pc' \in [Clients -> {"start"} \cup Connected \cup Over]
    BY <1>1
<1>3. \A u \in Clients : pc'[u] \in Connected \ {"usb_init"} => u = served
    BY <1>1 DEF CloseInv, ServedInv
<1> QED BY <1>2, <1>3 DEF CloseInv, ServedInv

\* A client that only moves on, and leaves nothing open without a place to
\* close it from.
LEMMA ClientMoves ==
    ASSUME CloseInv, NEW c \in Clients, NEW where \in Connected \cup Over, Goes(c, where),
           where \in Connected \ {"usb_init"} => c = served /\ calls = <<>>,
           c = served => pc[c] \notin Over,
           backlog' \in Seq(Clients), UNCHANGED <<server, served, calls, handle, claimed>>,
           \/ where \in {"killed", "died", "usb_close"} \/ pc[c] = "start"
           \/ calls = <<>> /\ NothingOpen
    PROVE  CloseInv'
<1>1. ServedInv'
    BY ClientServed
<1>2. /\ pc' = [pc EXCEPT ![c] = where] /\ pc \in [Clients -> {"start"} \cup Connected \cup Over]
      /\ served' = served /\ calls' = calls /\ server' = server
      /\ handle' = handle /\ claimed' = claimed
    BY DEF Goes, CloseInv, ServedInv
<1>3. CASE c # served
    <2>1. served \in Clients => pc'[served] = pc[served]
        BY <1>2, <1>3
    <2>2. served \notin Clients => pc'[served] = pc[served]
        BY <1>2
    <2> QED BY <1>1, <1>2, <2>1, <2>2 DEF CloseInv, SentInv, OpenInv, NothingOpen
<1>4. CASE c = served
    <2>1. pc'[served] = where
        BY <1>2, <1>4
    <2>2. pc[c] = "start" => calls = <<>> /\ NothingOpen
        BY <1>4 DEF CloseInv, SentInv, OpenInv, Over
    <2>3. calls \in {<<>>, Closing}
        BY <1>4 DEF CloseInv, SentInv
    <2>4. SentInv'
        BY <1>2, <2>1, <2>2, <2>3, <1>4, CallsDiffer DEF SentInv, CloseInv, Over, Connected
    <2>5. OpenInv'
        BY <1>2, <2>1, <2>2, <2>3, CallsDiffer DEF CloseInv, OpenInv, NothingOpen
    <2> QED BY <1>1, <1>2, <2>4, <2>5 DEF CloseInv
<1> QED BY <1>3, <1>4

LEMMA ClientCloses ==
    ASSUME CloseInv, NEW c \in Clients, ClientStep(c) \/ Killed(c)
    PROVE  CloseInv'
<1>1. /\ pc[c] \in Connected \ {"usb_init"} => c = served
      /\ claimed \in BOOLEAN /\ backlog \in Seq(Clients)
    BY DEF CloseInv, ServedInv
<1>2. c = served /\ pc[c] \notin {"usb_exit"} \cup Over => calls = <<>>
    BY DEF CloseInv, SentInv
<1>3. CASE Connect(c)
    <2>1. /\ pc[c] = "start" /\ UNCHANGED <<server, served, calls, handle, claimed>>
          /\ \E where \in {"usb_init", "ended"} : Goes(c, where)
          /\ backlog' \in {backlog, Append(backlog, c)}
        BY <1>3 DEF Connect, usbVars
    <2>2. PICK where \in Connected \cup Over : Goes(c, where) /\ where \in {"usb_init", "ended"}
        BY <2>1 DEF Connected, Over
    <2>3. backlog' \in Seq(Clients) /\ where \notin Connected \ {"usb_init"}
        BY <1>1, <2>1, <2>2 DEF Over, Connected
    <2> QED BY <2>1, <2>2, <2>3, ClientMoves DEF Over
<1>4. CASE ServerGone(c) \/ Killed(c)
    <2>1. PICK where \in Connected \cup Over : Goes(c, where) /\ where \in {"died", "killed"}
        BY <1>4 DEF ServerGone, Killed, Over
    <2>2. pc[c] \in Connected /\ UNCHANGED <<server, served, backlog, calls, handle, claimed>>
        BY <1>4 DEF ServerGone, Killed, serverVars, usbVars
    <2>3. where \notin Connected /\ pc[c] \notin Over
        BY <2>1, <2>2 DEF Connected, Over
    <2> QED BY <1>1, <2>1, <2>2, <2>3, ClientMoves
<1>5. CASE \/ UsbInit(c) \/ GetDeviceList(c) \/ PrintDeviceIds(c) \/ TryToFindIdevice(c)
           \/ NoneFound(c)
    <2>1. /\ c = served /\ pc[c] \in {"usb_init", "get_device_list", "get_device_descriptor"}
          /\ UNCHANGED <<server, served, backlog, calls, handle, claimed>>
        BY <1>1, <1>5 DEF UsbInit, GetDeviceList, PrintDeviceIds, TryToFindIdevice, NoneFound,
                          Call, serverVars, usbVars, Connected
    <2>2. calls = <<>> /\ NothingOpen /\ pc[c] \notin Over
        BY <1>2, <2>1 DEF CloseInv, OpenInv, Over
    <2>3. \/ pc' = pc
          \/ \E where \in {"get_device_list", "ended", "get_device_descriptor", "usb_open", "usb_exit"} :
                Goes(c, where)
        BY <1>5, Zenon DEF UsbInit, GetDeviceList, PrintDeviceIds, TryToFindIdevice, NoneFound,
                           DescriptorFails
    <2>4. CASE pc' = pc
        BY <2>1, <2>4 DEF CloseInv, ServedInv, SentInv, OpenInv, NothingOpen
    <2>5. ASSUME NEW where \in {"get_device_list", "ended", "get_device_descriptor", "usb_open", "usb_exit"},
                 Goes(c, where)
          PROVE CloseInv'
        <3>1. where \in Connected \cup Over
            BY DEF Connected, Over
        <3> QED BY <1>1, <2>1, <2>2, <2>5, <3>1, ClientMoves
    <2> QED BY <2>3, <2>4, <2>5
<1>6. CASE UsbOpenDevice(c) \/ UsbClaimInterface(c) \/ UsbReleaseInterface(c)
    <2>1. /\ c = served /\ calls = <<>> /\ server = "serving"
          /\ pc[c] \in {"usb_open", "claim_interface", "release_interface"}
          /\ UNCHANGED <<server, served, backlog, calls>>
        BY <1>6 DEF UsbOpenDevice, UsbClaimInterface, UsbReleaseInterface, Call, serverVars
    <2>2. PICK where \in {"claim_interface", "release_interface", "usb_close", "usb_exit"} :
             /\ Goes(c, where)
             /\ where = "usb_exit" =>
                   pc[c] = "usb_open" /\ UNCHANGED <<handle, claimed>>
        BY <1>6, Zenon DEF UsbOpenDevice, UsbClaimInterface, UsbReleaseInterface, Call, ClaimFails
    <2>3. where = "usb_exit" => NothingOpen'
        BY <2>1, <2>2 DEF CloseInv, OpenInv, NothingOpen
    <2>4. claimed' \in BOOLEAN
        BY <1>1, <1>6 DEF UsbOpenDevice, UsbClaimInterface, UsbReleaseInterface
    <2>5. where \in Connected \cup Over /\ served # None
        BY <2>1, ProgramsAssumption DEF Connected
    <2>6. ServedInv'
        BY <1>1, <2>1, <2>2, <2>5, ClientServed
    <2>7. pc'[served] = where
        BY <2>1, <2>2 DEF Goes, CloseInv, ServedInv
    <2>8. OpenInv'
        BY <2>1, <2>3, <2>7, CallsDiffer DEF OpenInv
    <2> QED BY <2>1, <2>4, <2>6, <2>8 DEF CloseInv, SentInv
<1>7. CASE UsbClose(c) \/ UsbExit(c)
    <2>1. /\ c = served /\ server = "serving" /\ pc[c] \in {"usb_close", "usb_exit"}
          /\ UNCHANGED <<server, served, backlog, handle, claimed>>
        BY <1>1, <1>7 DEF UsbClose, UsbExit, serverVars, usbVars, Connected
    <2>2. calls \in {<<>>, Closing} /\ (calls = Closing => pc[c] = "usb_exit")
        <3>1. pc[served] \in {"usb_close", "usb_exit"} /\ pc[served] = pc[c]
            BY <2>1
        <3>2. pc[served] \notin Over
            BY <3>1 DEF Over
        <3>3. calls = <<>> \/ (calls = Closing /\ pc[served] = "usb_exit")
            BY <3>2 DEF CloseInv, SentInv
        <3> QED BY <3>1, <3>3, CallsDiffer
    <2>3. \/ pc[c] = "usb_close" /\ Goes(c, "usb_exit") /\ calls' = Closing
          \/ pc[c] = "usb_exit" /\ Goes(c, "ended")
             /\ \/ calls = <<>> /\ calls' = Exiting
                \/ calls = Closing /\ calls' = ClosingExiting
        BY <1>7, <2>1, <2>2, CallsDiffer DEF UsbClose, UsbExit
    <2>4. PICK where \in {"usb_exit", "ended"} :
             /\ Goes(c, where)
             /\ where = "usb_exit" => calls' = Closing
             /\ where = "ended" => calls' \in {Exiting, ClosingExiting}
        BY <2>3
    <2>5. where \in Connected \cup Over /\ served # None
        BY <2>1, ProgramsAssumption DEF Connected, Over
    <2>6. ServedInv'
        BY <1>1, <2>1, <2>4, <2>5, ClientServed
    <2>7. pc'[served] = where
        BY <2>1, <2>4 DEF Goes, CloseInv, ServedInv
    <2>8. SentInv'
        BY <2>1, <2>4, <2>7 DEF SentInv, Over
    <2>9. calls' = Exiting => NothingOpen
        BY <2>1, <2>3, CallsDiffer DEF CloseInv, OpenInv
    <2>10. OpenInv'
        BY <2>1, <2>3, <2>9, CallsDiffer DEF OpenInv, NothingOpen
    <2> QED BY <1>1, <2>1, <2>6, <2>8, <2>10 DEF CloseInv
<1> QED BY <1>3, <1>4, <1>5, <1>6, <1>7 DEF ClientStep

\* Whichever of irpc_client's calls fails, and whatever else connects: a
\* server that ends by an exit has nothing open.
THEOREM ClosesBehindItself == Spec => []ClosesWhatItOpened
<1>1. Init => CloseInv
    <2> SUFFICES ASSUME Init PROVE CloseInv
        OBVIOUS
    <2>1. /\ server = "start" /\ backlog = <<>> /\ served = None /\ calls = <<>>
          /\ handle = None /\ claimed = FALSE /\ pc = [c \in Clients |-> "start"]
        BY Zenon DEF Init
    <2>2. ServedInv
        BY <2>1 DEF ServedInv, Connected
    <2>3. SentInv /\ OpenInv
        BY <2>1, CallsDiffer DEF SentInv, OpenInv, NothingOpen
    <2> QED BY <2>1, <2>2, <2>3 DEF CloseInv
<1>2. CloseInv /\ [Next]_vars => CloseInv'
    BY ServerCloses, ClientCloses DEF Next
<1>3. CloseInv => ClosesWhatItOpened
    BY DEF CloseInv, OpenInv, NothingOpen, ClosesWhatItOpened
<1> QED BY <1>1, <1>2, <1>3, PTL DEF Spec
=============================================================================
