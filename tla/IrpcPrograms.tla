---------------------------- MODULE IrpcPrograms ----------------------------
(***************************************************************************)
(* The programs around libirpc: irpc_server, which accepts one connection  *)
(* in its life, and the two clients, irpc_client (which opens the device   *)
(* in a fixed slot of the list) and irpc_find_idevice (which looks for a   *)
(* device in recovery mode).  Any number of clients connect, in any order. *)
(*                                                                         *)
(* A call is one step here, as RemoteCalls promises and IrpcRefinement     *)
(* shows; the two calls without a reply, close and exit, are queued for    *)
(* the server.                                                             *)
(***************************************************************************)
EXTENDS Naturals, Sequences, FiniteSets

CONSTANTS
    Clients,    \* client processes
    Devices,    \* USB devices
    Recovery,   \* those in recovery or DFU mode
    MaxDevs,    \* IRPC_MAX_DEVS, 256 in the code
    Slot,       \* the list entry irpc_client takes, devs[7] in the code
    Backlog,    \* of listen, 20 in the code
    None

ASSUME ProgramsAssumption ==
    /\ IsFiniteSet(Devices) /\ Recovery \subseteq Devices
    /\ None \notin Devices \cup Clients
    /\ "no recovery device" \notin Devices \cup {None}
    /\ MaxDevs \in Nat \ {0} /\ Slot \in 1..MaxDevs /\ Backlog \in Nat \ {0}

VARIABLES
    server,     \* where irpc_server is
    backlog,    \* clients that are connected and not accepted
    served,     \* client_sock: the client that was accepted
    calls,      \* calls of that client the server has not read yet
    handle,     \* irpc_handle
    claimed,    \* the interface of the open device is claimed
    attached,   \* devices on the server's bus
    program,    \* which program a client runs
    pc,         \* where it is
    devs,       \* its device list
    i,          \* the next entry irpc_find_idevice looks at
    verdict,    \* what it printed
    present     \* history: the devices attached when its list was made

serverVars == <<server, backlog, served>>
usbVars == <<handle, claimed>>
clientVars == <<program, devs, i, verdict, present>>
vars == <<serverVars, calls, usbVars, attached, pc, clientVars>>

Running == {"select", "accept", "serving"}
Stopped == {"done", "failed", "crashed"}   \* exit by USB_EXIT; exit(1) or an error; NULL data
Over == {"ended", "died", "killed"}
Connected == {"usb_init", "get_device_list", "get_device_descriptor", "usb_open",
              "claim_interface", "release_interface", "usb_close", "usb_exit"}

Lists == {l \in UNION {[1..n -> Devices] : n \in 0..Cardinality(Devices)} :
            \A m, n \in DOMAIN l : l[m] = l[n] => m = n}
ListOf(set) == {l \in Lists : {l[n] : n \in DOMAIN l} = set}

Init ==
    /\ server = "start" /\ backlog = <<>> /\ served = None /\ calls = <<>>
    /\ handle = None /\ claimed = FALSE
    /\ attached \in SUBSET Devices
    /\ program \in [Clients -> {"client", "find"}]
    /\ pc = [c \in Clients |-> "start"]
    /\ devs = [c \in Clients |-> <<>>] /\ i = [c \in Clients |-> 1]
    /\ verdict = [c \in Clients |-> None] /\ present = [c \in Clients |-> {}]

-----------------------------------------------------------------------------
(* The server *)

\* init_connection_or_die
InitConnection ==
    /\ server = "start" /\ server' \in {"select", "failed"}
    /\ UNCHANGED <<backlog, served, calls, usbVars, attached, pc, clientVars>>

\* A connection or ten seconds without one both end select, and the server
\* goes on to accept; an error ends the server.
Select ==
    /\ server = "select" /\ server' \in {"accept", "failed"}
    /\ UNCHANGED <<backlog, served, calls, usbVars, attached, pc, clientVars>>

\* accept waits for a connection.
Accept ==
    /\ server = "accept" /\ backlog # <<>>
    /\ server' = "serving" /\ served' = Head(backlog) /\ backlog' = Tail(backlog)
    /\ UNCHANGED <<calls, usbVars, attached, pc, clientVars>>

AcceptFails ==
    /\ server = "accept" /\ server' = "failed"
    /\ UNCHANGED <<backlog, served, calls, usbVars, attached, pc, clientVars>>

\* A call that was sent without waiting for it.
ServeQueued ==
    /\ server = "serving" /\ calls # <<>> /\ calls' = Tail(calls)
    /\ IF Head(calls) = "usb_close" THEN handle' = None /\ claimed' = FALSE /\ UNCHANGED server
       ELSE server' = "done" /\ UNCHANGED usbVars
    /\ UNCHANGED <<backlog, served, attached, pc, clientVars>>

\* Mutant: an end of file that no exit came before is read over.
ServerEofReads ==
    /\ server = "serving" /\ calls = <<>> /\ pc[served] = "ended"
    /\ server' = "crashed"
    /\ UNCHANGED <<backlog, served, calls, usbVars, attached, pc, clientVars>>

\* The connection ends where a call was expected: there is nothing to unpack.
ServerEof ==
    /\ server = "serving" /\ calls = <<>> /\ pc[served] \in Over
    /\ server' = "crashed"
    /\ UNCHANGED <<backlog, served, calls, usbVars, attached, pc, clientVars>>

ServerStep == InitConnection \/ Select \/ Accept \/ ServeQueued \/ ServerEof

-----------------------------------------------------------------------------
(* The clients *)

Goes(c, where) == pc' = [pc EXCEPT ![c] = where]

\* connect_or_die
Connect(c) ==
    /\ pc[c] = "start"
    /\ \/ /\ server \in Running /\ Len(backlog) < Backlog
          /\ backlog' = Append(backlog, c) /\ Goes(c, "usb_init")
       \/ Goes(c, "ended") /\ UNCHANGED backlog
    /\ UNCHANGED <<server, served, calls, usbVars, attached, clientVars>>

\* A call that waits for its reply is carried out.
Call(c, func) == pc[c] = func /\ served = c /\ server = "serving" /\ calls = <<>>

\* A program that could not initialise ends without an exit.
UsbInit(c) ==
    /\ Call(c, "usb_init")
    /\ Goes(c, "get_device_list") \/ Goes(c, "ended")
    /\ UNCHANGED <<serverVars, calls, usbVars, attached, clientVars>>

\* libusb lists nothing when its enumeration fails, and no program sees why.
GetDeviceList(c) ==
    /\ Call(c, "get_device_list")
    /\ \E list \in {<<>>} \cup ListOf(attached) :
          devs' = [devs EXCEPT ![c] = SubSeq(list, 1, IF Len(list) < MaxDevs THEN Len(list) ELSE MaxDevs)]
    /\ present' = [present EXCEPT ![c] = attached]
    /\ Goes(c, "get_device_descriptor")
    /\ UNCHANGED <<serverVars, calls, usbVars, attached, program, i, verdict>>

\* An entry beyond the end of the list identifies no device.
Entry(c, n) == IF n <= Len(devs[c]) THEN devs[c][n] ELSE None

\* usb_print_device_ids of irpc_client
PrintDeviceIds(c) ==
    /\ Call(c, "get_device_descriptor") /\ program[c] = "client"
    /\ \/ Entry(c, Slot) \in attached /\ Goes(c, "usb_open")
       \/ Goes(c, "usb_exit")
    /\ UNCHANGED <<serverVars, calls, usbVars, attached, clientVars>>

\* Mutant: an entry that cannot be read is passed over.
DescriptorFailsSkips(c) ==
    /\ Entry(c, i[c]) # None
    /\ i' = [i EXCEPT ![c] = @ + 1] /\ UNCHANGED <<pc, verdict>>

\* The search ends at the first entry whose descriptor cannot be read.
DescriptorFails(c) ==
    /\ Entry(c, i[c]) # None
    /\ Goes(c, "usb_exit") /\ UNCHANGED <<i, verdict>>

\* try_to_find_idevice
TryToFindIdevice(c) ==
    /\ Call(c, "get_device_descriptor") /\ program[c] = "find"
    /\ \/ Entry(c, i[c]) \in attached \ Recovery
          /\ i' = [i EXCEPT ![c] = @ + 1] /\ UNCHANGED <<pc, verdict>>
       \/ Entry(c, i[c]) \in attached \cap Recovery
          /\ verdict' = [verdict EXCEPT ![c] = Entry(c, i[c])]
          /\ Goes(c, "usb_exit") /\ UNCHANGED i
       \/ DescriptorFails(c)
    /\ UNCHANGED <<serverVars, calls, usbVars, attached, program, devs, present>>

NoneFound(c) ==
    /\ pc[c] = "get_device_descriptor" /\ program[c] = "find" /\ i[c] > Len(devs[c])
    /\ verdict' = [verdict EXCEPT ![c] = "no recovery device"] /\ Goes(c, "usb_exit")
    /\ UNCHANGED <<serverVars, calls, usbVars, attached, program, devs, i, present>>

UsbOpenDevice(c) ==
    /\ Call(c, "usb_open")
    /\ \/ /\ Entry(c, Slot) \in attached
          /\ handle' = Entry(c, Slot) /\ Goes(c, "claim_interface")
       \/ Goes(c, "usb_exit") /\ UNCHANGED handle
    /\ UNCHANGED <<serverVars, calls, claimed, attached, clientVars>>

\* Mutant: a program that could not claim goes straight to its exit.
ClaimFailsExit == "usb_exit"

\* Where irpc_client goes when it could not claim: to the label exit.
ClaimFails == "usb_close"

UsbClaimInterface(c) ==
    /\ Call(c, "claim_interface")
    /\ \/ handle \in attached /\ claimed' = TRUE /\ Goes(c, "release_interface")
       \/ Goes(c, ClaimFails) /\ UNCHANGED claimed
    /\ UNCHANGED <<serverVars, calls, handle, attached, clientVars>>

\* A failing release is reported, and the program closes all the same.
UsbReleaseInterface(c) ==
    /\ Call(c, "release_interface")
    /\ claimed' \in {claimed, FALSE} /\ Goes(c, "usb_close")
    /\ UNCHANGED <<serverVars, calls, handle, attached, clientVars>>

\* Close and exit are sent and not waited for.
UsbClose(c) ==
    /\ pc[c] = "usb_close" /\ server = "serving"
    /\ calls' = Append(calls, "usb_close") /\ Goes(c, "usb_exit")
    /\ UNCHANGED <<serverVars, usbVars, attached, clientVars>>

UsbExit(c) ==
    /\ pc[c] = "usb_exit" /\ server = "serving"
    /\ calls' = Append(calls, "usb_exit") /\ Goes(c, "ended")
    /\ UNCHANGED <<serverVars, usbVars, attached, clientVars>>

\* The server is gone: the connection is reset, and the stub that waits has
\* nothing to unpack.
ServerGone(c) ==
    /\ pc[c] \in Connected /\ server \in Stopped
    /\ Goes(c, "died")
    /\ UNCHANGED <<serverVars, calls, usbVars, attached, clientVars>>

ClientStep(c) ==
    \/ Connect(c) \/ UsbInit(c) \/ GetDeviceList(c) \/ PrintDeviceIds(c)
    \/ TryToFindIdevice(c) \/ NoneFound(c) \/ UsbOpenDevice(c) \/ UsbClaimInterface(c)
    \/ UsbReleaseInterface(c) \/ UsbClose(c) \/ UsbExit(c) \/ ServerGone(c)

-----------------------------------------------------------------------------
(* What happens around them *)

\* A client is killed, perhaps before it was accepted.
Killed(c) ==
    /\ pc[c] \in Connected /\ Goes(c, "killed")
    /\ UNCHANGED <<serverVars, calls, usbVars, attached, clientVars>>

Plug ==
    /\ \E d \in Devices :
          attached' \in {attached \cup {d}, attached \ {d}} /\ attached' # attached
    /\ UNCHANGED <<serverVars, calls, usbVars, pc, clientVars>>

Next == ServerStep \/ AcceptFails \/ (\E c \in Clients : ClientStep(c) \/ Killed(c)) \/ Plug

Spec == Init /\ [][Next]_vars

\* Every process runs on; accept need not fail, clients need not be killed.
FairSpec ==
    /\ Spec
    /\ WF_vars(ServerStep)
    /\ \A c \in Clients : WF_vars(ClientStep(c))

-----------------------------------------------------------------------------
\* What irpc_find_idevice prints is true of the bus when it made its list: it
\* found a device in recovery mode that was there, or there was none, or more
\* than a list holds.  Devices that leave make it say nothing.  It says there is
\* none of a bus that has one only where the list came back empty: that the
\* server could not enumerate is not told from a bus without devices.
FindTellsTheTruth ==
    \A c \in Clients :
        /\ verdict[c] \in Devices => verdict[c] \in Recovery \cap present[c]
        /\ /\ verdict[c] = "no recovery device"
           /\ devs[c] # <<>> /\ Cardinality(present[c]) <= MaxDevs
           => present[c] \cap Recovery = {}

\* When the server ends by the exit of a program, whatever failed on the way,
\* the program has closed the device it had opened.
ClosesWhatItOpened == server = "done" => handle = None /\ ~claimed

\* Every program that starts ends, the clients whose connection was never
\* accepted too: the one client that is served ends, then the server does, and
\* its end resets the other connections.
ProgramsEnd == \A c \in Clients : pc[c] \in Connected ~> pc[c] \in Over
=============================================================================
