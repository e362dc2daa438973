-------------------------------- MODULE MCDarwin --------------------------------
(***************************************************************************)
(* Instances for TLC of the two parts of the Darwin backend: the handles   *)
(* of a device with its interfaces, and the way from the run loop to the   *)
(* event handler.  A behaviour is one of the part that Init chose.         *)
(***************************************************************************)
EXTENDS Integers, Sequences, FiniteSets

CONSTANTS
    Handles, Opener, Transfers, Control, On, PipeCapacity, MaxSubmits,   \* of DarwinTransfers
    DeviceHandles, Configs, Interfaces, first_config, Has, MaxDepth  \* of DarwinDevice

VARIABLES
    part,
    io, pending, attached, notified, fifo, open_devs, polled, towrite,
    open_devs_lock, reader, submits,
    configured, active_config, open_count, device, opened, is_open,
    claimed, interface, endpoints, source, opener, stack, ret, nested

Pipes == INSTANCE DarwinTransfers
Device == INSTANCE DarwinDevice WITH Handles <- DeviceHandles

ASSUME PipesAssumption == Pipes!TransfersAssumption
ASSUME DeviceAssumption == Device!InterfacesAssumption

\* For TLC: one transfer is on the opener's pipe and the others on the second
\* handle's; each configuration has an interface less than the one before.
MCOn == LET first == CHOOSE t \in Transfers \ Control : TRUE
            second == CHOOSE h \in Handles : h # Opener
        IN [t \in Transfers |-> IF t = first THEN Opener ELSE second]
MCHas == [c \in Configs |-> {i \in Interfaces : i + c < Cardinality(Configs)}]

pipesOnly == <<io, pending, attached, notified, fifo, open_devs, polled, towrite,
               open_devs_lock, reader, submits>>
deviceOnly == <<configured, active_config, open_count, device, opened, is_open,
                claimed, interface, endpoints, source, opener, stack, ret, nested>>
vars == <<part, pipesOnly, deviceOnly>>

NoPipes ==
    /\ io = <<>> /\ pending = <<>> /\ attached = TRUE /\ notified = FALSE /\ fifo = <<>>
    /\ open_devs = {} /\ polled = {} /\ towrite = <<>> /\ open_devs_lock = "none"
    /\ reader = <<>> /\ submits = 0
NoDevice ==
    /\ configured = 0 /\ active_config = 0 /\ open_count = 0 /\ device = FALSE
    /\ opened = {} /\ is_open = <<>> /\ claimed = <<>>
    /\ interface = <<>> /\ endpoints = <<>> /\ source = <<>> /\ opener = <<>>
    /\ stack = <<>> /\ ret = "SUCCESS" /\ nested = FALSE

Init ==
    \/ part = "pipes" /\ Pipes!Init /\ NoDevice
    \/ part = "device" /\ Device!Init /\ NoPipes

OfPipes == part = "pipes" /\ UNCHANGED <<part, deviceOnly>>
OfDevice == part = "device" /\ UNCHANGED <<part, pipesOnly>>

Next == (OfPipes /\ Pipes!Next) \/ (OfDevice /\ Device!Next)

Spec == Init /\ [][Next]_vars

\* The two threads of the pipes do not stop between two of their steps.
FairSpec ==
    /\ Spec
    /\ WF_vars(OfPipes /\ Pipes!op_handle_events)
    /\ WF_vars(OfPipes /\ Pipes!event_thread_main)

-----------------------------------------------------------------------------
(* The properties of the parts, stated there. *)

\* The device is there as long as one of its handles is open.
TypeOK == part = "device" => Device!TypeOK

\* An open interface has its event source and its endpoints, and no endpoint
\* leads to an interface that is not there unless claims were nested.
InterfacesWhole == part = "device" => Device!InterfacesWhole

\* A configuration that was set is the one the device has, unless what was
\* claimed could not be claimed again without setting the first one.
ConfigurationKnown == [][part = "device" => Device!ConfigurationKnown]_vars

\* Words of two messages never mix, and no transfer is reported twice.
MessagesWhole == part = "pipes" => Pipes!MessagesWhole

\* What ends, or is pending when the device goes, is reported, and the pipes
\* of a device that is gone are not polled for ever; unless a pipe is full when
\* darwin_devices_detached writes to it, with open_devs_lock held, and
\* op_handle_events, which would make room, has come to wait for that lock.
Stuck == part = "pipes" /\ Pipes!Stuck
EndsAreNoticed ==
    /\ \A t \in Transfers :
         part = "pipes" /\ pending[t] /\ (~attached \/ io[t] # "kernel")
           ~> part = "device" \/ ~pending[t] \/ Stuck
    /\ ~attached ~> polled = {} \/ Stuck

\* Each event source is released once.
SourcesFreedOnce == part = "device" => Device!SourcesFreedOnce

\* The last close destroys what the first open made.
OpenResourcesFreed == part = "device" => Device!OpenResourcesFreed

\* The threads never wait for each other.
NeverStuck == part = "pipes" => Pipes!NeverStuck
=============================================================================
