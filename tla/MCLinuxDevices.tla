---------------------------- MODULE MCLinuxDevices ----------------------------
(***************************************************************************)
(* Instances for TLC of the three parts of the Linux backend that work     *)
(* without transfers: enumeration, configurations and interfaces.  No      *)
(* property relates the state of one to that of another, so that a         *)
(* behaviour is one of the part that Init chose and the others rest.       *)
(***************************************************************************)
EXTENDS Integers, Sequences, FiniteSets

CONSTANTS
    Ports, Bus, MaxAddress, Capacity, MaxScans,         \* of LinuxDevices
    Values,                                             \* of LinuxConfig
    Handles, Interfaces, WithDriver, NoInterface        \* of LinuxInterfaces

VARIABLES
    part,
    kernel, plugged, next_address, scans, sysfs_can_relate_devices,
    sysfs_has_descriptors, devs, at, buses, entries, port, devaddr, discdevs,
    block, caller, steady, fell_back, userlist, kept,
    foreign, all_configs, writable, attached, active, config_descriptor, config, fd_lost,
    logged, owner, open, claimed_interfaces, dropped, call

Devices == INSTANCE LinuxDevices
Config == INSTANCE LinuxConfig
Claims == INSTANCE LinuxInterfaces

ASSUME DevicesAssumption ==
    MaxAddress \in Nat /\ Capacity \in Nat \ {0} /\ "none" \notin Ports
ASSUME ValuesAssumption == -1 \notin {Values[i] : i \in DOMAIN Values}
ASSUME ClaimsAssumption == Claims!InterfacesAssumption

\* For TLC: one port is on a bus of its own, and the first configuration of
\* the device is not the one with the smallest value.
MCBus == LET alone == CHOOSE p \in Ports : TRUE
         IN [p \in Ports |-> IF p = alone THEN 2 ELSE 1]
MCValues == <<3, 1>>

flags == <<sysfs_can_relate_devices, sysfs_has_descriptors>>
devicesOnly == <<kernel, plugged, next_address, scans, devs, buses, entries, port,
                 devaddr, discdevs, block, caller, steady, fell_back, userlist, kept>>
configOnly == <<foreign, all_configs, writable, active, config_descriptor, config, fd_lost,
                logged>>
claimsOnly == <<owner, open, claimed_interfaces, dropped>>
vars == <<part, flags, devicesOnly, configOnly, claimsOnly, attached, at, call>>

NoScan ==
    /\ kernel = {} /\ plugged = <<>> /\ next_address = 1 /\ scans = 0 /\ devs = <<>>
    /\ buses = {} /\ entries = {} /\ port = "none" /\ devaddr = 0 /\ discdevs = <<>>
    /\ block = 0 /\ caller = 0 /\ steady = {} /\ fell_back = FALSE
    /\ userlist = <<>> /\ kept = 0
NoConfig ==
    /\ foreign = FALSE /\ all_configs = FALSE /\ writable = FALSE /\ active = 0
    /\ config_descriptor = 0 /\ config = 0 /\ fd_lost = FALSE /\ logged = FALSE
NoClaims == owner = <<>> /\ open = {} /\ claimed_interfaces = <<>> /\ dropped = <<>>

Init ==
    \/ part = "devices" /\ Devices!Init /\ NoConfig /\ NoClaims
       /\ attached = TRUE /\ call = <<>>
    \/ part = "config" /\ Config!Init /\ NoScan /\ NoClaims
    \/ part = "claims" /\ Claims!Init /\ NoScan /\ NoConfig
       /\ sysfs_can_relate_devices = 1 /\ sysfs_has_descriptors = 1 /\ at = "idle"

Next ==
    \/ part = "devices" /\ Devices!Next
       /\ UNCHANGED <<part, configOnly, claimsOnly, attached, call>>
    \/ part = "config" /\ Config!Next /\ UNCHANGED <<part, devicesOnly, claimsOnly>>
    \/ part = "claims" /\ Claims!Next
       /\ UNCHANGED <<part, devicesOnly, configOnly, flags, at>>

Spec == Init /\ [][Next]_vars

-----------------------------------------------------------------------------
(* The properties of the parts, stated there. *)

\* The type invariants of enumeration and of interfaces.
TypeOK ==
    CASE part = "devices" -> Devices!TypeOK
      [] part = "claims" -> Claims!TypeOK
      [] OTHER -> TRUE

\* Every reference to a device is accounted for; the list of a scan is lost only
\* when the reading of a usbfs directory fails after it has moved.
RefsBalanced == part = "devices" => Devices!RefsBalanced

\* No device is set up before the kernel's abilities are known, and each can
\* deliver its descriptor.
DescriptorsReadable == part = "devices" => Devices!DescriptorsReadable

\* A list that a scan returns has every device that stayed plugged, and each only
\* once unless the scan fell back on usbfs.
ListIsComplete ==
    [][part = "devices" => Devices!ListedWhole]_vars

\* The pointer through which the core frees the list of a failed scan is valid.
FailedScanIsFreed == part = "devices" => Devices!FailedScanIsFreed

\* The active configuration is followed as long as no other program sets it and
\* the last attempt to learn it was not logged as failed.
CacheFollows == part = "config" => Config!CacheFollows

\* A configuration reported with success is one of the device.
ConfigurationIsReal == part = "config" => Config!ConfigurationIsReal

\* The core and the kernel agree on the claims, but for those the kernel took
\* away behind the core's back.
ClaimsAgree == part = "claims" => Claims!ClaimsAgree

=============================================================================
