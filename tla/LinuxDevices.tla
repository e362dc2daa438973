----------------------------- MODULE LinuxDevices -----------------------------
(***************************************************************************)
(* Enumeration by the Linux backend (linux_usbfs.c): op_get_device_list    *)
(* reads sysfs, or falls back on usbfs, entry by entry, while devices come *)
(* and go.  What the first scan finds out about the kernel is remembered   *)
(* for good in two flags.  A device is known by the address the host gave  *)
(* it; sysfs names the port it is plugged into.  Addresses are not reused  *)
(* here: the wrap of session IDs is the subject of Irpc.                   *)
(*                                                                         *)
(* The list under construction is a block that discovered_devs_append      *)
(* moves when it is full; the scan of a bus directory keeps its own        *)
(* pointer to it, and the caller's is brought up to date only on success.  *)
(***************************************************************************)
EXTENDS Integers, Sequences, FiniteSets

CONSTANTS
    Ports, Bus,         \* sysfs entries, and the bus each is on
    MaxAddress,         \* bound: devices plugged in one behaviour
    Capacity,           \* entries by which a list grows
    MaxScans            \* bound: calls of op_get_device_list

VARIABLES
    kernel,             \* which sysfs files this kernel has
    plugged,            \* address of the device at each port, 0 for none
    next_address, scans,
    sysfs_can_relate_devices, sysfs_has_descriptors,    \* -1: not known
    devs,               \* ctx->usb_devs: device with each address, or none
    at,                 \* where the scan is
    buses, entries,     \* directory entries to be read
    port, devaddr,      \* the entry being scanned
    discdevs, block,    \* the list and the block it is in
    caller,             \* the block the outer function knows
    steady, fell_back,  \* plugged ever since the scan began; fallback taken
    userlist, kept      \* references of the program: its list and one device

hotplug == <<plugged, next_address>>
flags == <<sysfs_can_relate_devices, sysfs_has_descriptors>>
list == <<discdevs, block, caller>>
user == <<userlist, kept>>
vars == <<kernel, hotplug, scans, flags, devs, at, buses, entries, port, devaddr,
          list, steady, fell_back, user>>

Addresses == 1..MaxAddress
Present == {plugged[p] : p \in Ports} \ {0}
PortOf(a) == CHOOSE p \in Ports : plugged[p] = a
OnBus(b) == {a \in Present : Bus[PortOf(a)] = b}
NoDevice == [refs |-> 0, sysfs_dir |-> FALSE, dev_descriptor |-> FALSE]

\* op_init: without sysfs both flags are known at once.
op_init ==
    IF kernel.sysfs
    THEN sysfs_can_relate_devices = -1 /\ sysfs_has_descriptors = -1
    ELSE sysfs_can_relate_devices = 0 /\ sysfs_has_descriptors = 0

Init ==
    /\ kernel \in [sysfs : BOOLEAN, busnum : BOOLEAN, descriptors : BOOLEAN]
    /\ (kernel.descriptors => kernel.busnum) /\ (kernel.busnum => kernel.sysfs)
    /\ op_init
    /\ plugged = [p \in Ports |-> 0] /\ next_address = 1 /\ scans = 0
    /\ devs = [a \in Addresses |-> NoDevice]
    /\ at = "idle" /\ buses = {} /\ entries = {} /\ port = "none" /\ devaddr = 0
    /\ discdevs = <<>> /\ block = 0 /\ caller = 0
    /\ steady = {} /\ fell_back = FALSE
    /\ userlist = <<>> /\ kept = 0

-----------------------------------------------------------------------------
(* References *)

Uses(s, a) == Cardinality({i \in DOMAIN s : s[i] = a})

\* The table after the references in a list were dropped; a device nobody
\* refers to is destroyed (op_destroy_device).
Unref(table, s) ==
    [a \in Addresses |-> IF table[a].refs = Uses(s, a) THEN NoDevice
                         ELSE [table[a] EXCEPT !.refs = @ - Uses(s, a)]]

\* The scan failed.  The core frees the list through the pointer it knows; what
\* it does when that list has moved is undefined, and is not followed further.
Fail(table) ==
    /\ \/ /\ caller = block /\ at' = "idle"
          /\ devs' = Unref(table, discdevs) /\ discdevs' = <<>>
       \/ /\ caller # block /\ at' = "undefined" /\ devs' = table /\ UNCHANGED discdevs
    /\ UNCHANGED <<block, caller, buses, entries, port, devaddr, userlist>>

-----------------------------------------------------------------------------
(* op_get_device_list, sysfs_get_device_list, sysfs_scan_device *)

ToUsbfs ==
    /\ at' = "usbfs" /\ buses' = {Bus[p] : p \in {q \in Ports : plugged[q] # 0}}
    /\ entries' = {}

GetDeviceList ==
    /\ at = "idle" /\ userlist = <<>> /\ scans < MaxScans /\ scans' = scans + 1
    /\ discdevs' = <<>> /\ block' = 0 /\ caller' = 0
    /\ steady' = Present /\ fell_back' = FALSE
    /\ IF sysfs_can_relate_devices # 0
       THEN at' = "sysfs" /\ entries' = {p \in Ports : plugged[p] # 0} /\ buses' = {}
       ELSE ToUsbfs
    /\ UNCHANGED <<kernel, hotplug, flags, devs, port, devaddr, user>>

\* Mutant: the descriptors file is looked for after the device is set up.
CheckDescriptorsLater(p) ==
    /\ at = "sysfs" /\ p \in entries /\ port' = p /\ at' = "busnum"
    /\ entries' = entries \ {p}
    /\ UNCHANGED <<sysfs_has_descriptors, kernel, hotplug, scans,
                   sysfs_can_relate_devices, devs, buses, devaddr, list, steady,
                   fell_back, user>>

\* "determine descriptors presence ahead of time"
CheckDescriptors(p) ==
    /\ at = "sysfs" /\ p \in entries /\ port' = p /\ at' = "busnum"
    /\ entries' = entries \ {p}
    /\ sysfs_has_descriptors' =
         IF sysfs_has_descriptors # -1 THEN sysfs_has_descriptors
         ELSE IF kernel.descriptors /\ plugged[p] # 0 THEN 1 ELSE 0
    /\ UNCHANGED <<kernel, hotplug, scans, sysfs_can_relate_devices, devs, buses,
                   devaddr, list, steady, fell_back, user>>

OpenBusnum ==
    /\ at = "busnum"
    /\ IF kernel.busnum /\ plugged[port] # 0
       THEN /\ sysfs_can_relate_devices' = 1 /\ at' = "devnum"
            /\ UNCHANGED <<buses, entries, fell_back>>
       ELSE sysfs_can_relate_devices' = 0 /\ fell_back' = TRUE /\ ToUsbfs
    /\ UNCHANGED <<kernel, hotplug, scans, sysfs_has_descriptors, devs, port,
                   devaddr, list, steady, user>>

ReadDevnum ==
    /\ at = "devnum"
    /\ IF plugged[port] # 0
       THEN /\ devaddr' = plugged[port] /\ at' = "enumerate"
            /\ UNCHANGED <<devs, buses, entries, port, list, userlist>>
       ELSE Fail(devs)
    /\ UNCHANGED <<kernel, hotplug, scans, flags, steady, fell_back, kept>>

\* Mutant: the first bus is taken for the last.
EndOfDirectoryEarly ==
    /\ entries = {} /\ at \in {"sysfs", "usbfs", "busdir"}
    /\ at' = "idle" /\ userlist' = discdevs /\ discdevs' = <<>>
    /\ UNCHANGED <<kernel, hotplug, scans, flags, devs, buses, entries, port, devaddr,
                   block, caller, steady, fell_back, kept>>

\* The scan of a directory is over: the bus's, whose caller learns of the
\* list only now, or the last one.
EndOfDirectory ==
    /\ entries = {}
    /\ \/ at = "busdir" /\ at' = "usbfs" /\ caller' = block
          /\ UNCHANGED <<discdevs, userlist>>
       \/ /\ at = "sysfs" \/ (at = "usbfs" /\ buses = {})
          /\ at' = "idle" /\ userlist' = discdevs /\ discdevs' = <<>>
          /\ UNCHANGED caller
    /\ UNCHANGED <<kernel, hotplug, scans, flags, devs, buses, entries, port, devaddr,
                   block, steady, fell_back, kept>>

-----------------------------------------------------------------------------
(* usbfs_get_device_list, usbfs_scan_busdir *)

OpenBusdir(b) ==
    /\ at = "usbfs" /\ b \in buses
    /\ IF OnBus(b) # {}
       THEN /\ at' = "busdir" /\ entries' = OnBus(b) /\ buses' = buses \ {b}
            /\ UNCHANGED <<devs, port, devaddr, list, userlist>>
       ELSE Fail(devs)
    /\ UNCHANGED <<kernel, hotplug, scans, flags, steady, fell_back, kept>>

NextOnBus(a) ==
    /\ at = "busdir" /\ a \in entries /\ entries' = entries \ {a}
    /\ port' = "none" /\ devaddr' = a /\ at' = "enumerate"
    /\ UNCHANGED <<kernel, hotplug, scans, flags, devs, buses, list, steady,
                   fell_back, user>>

-----------------------------------------------------------------------------
(* enumerate_device *)

\* Mutant: the reference of the caller of usbi_alloc_device is kept.
AppendLeaks(table) ==
    /\ discdevs' = Append(discdevs, devaddr)
    /\ devs' = [table EXCEPT ![devaddr].refs =
                  @ + (IF at = "append" THEN 1 ELSE 0)]
    /\ block' = IF Len(discdevs) % Capacity = 0 THEN block + 1 ELSE block
    /\ caller' = IF port # "none" THEN block' ELSE caller
    /\ at' = IF port # "none" THEN "sysfs" ELSE "busdir"
    /\ UNCHANGED <<buses, entries, port, devaddr, userlist>>

\* discovered_devs_append succeeded; table counts the new reference.
AppendTo(table) ==
    /\ discdevs' = Append(discdevs, devaddr) /\ devs' = table
    /\ block' = IF Len(discdevs) % Capacity = 0 THEN block + 1 ELSE block
    /\ caller' = IF port # "none" THEN block' ELSE caller
    /\ at' = IF port # "none" THEN "sysfs" ELSE "busdir"
    /\ UNCHANGED <<buses, entries, port, devaddr, userlist>>

\* Known already, or set up by initialize_device below; NO_MEM fails.
AppendDevice ==
    /\ \/ at = "enumerate" /\ devs[devaddr].refs > 0
       \/ at = "append"
    /\ \/ AppendTo([devs EXCEPT ![devaddr].refs = IF at = "append" THEN 1 ELSE @ + 1])
       \/ Fail(IF at = "append" THEN [devs EXCEPT ![devaddr] = NoDevice] ELSE devs)
    /\ UNCHANGED <<kernel, hotplug, scans, flags, steady, fell_back, kept>>

\* initialize_device, and usbi_sanitize_device which reads the descriptor:
\* from sysfs through sysfs_dir, else from the copy made here, for which the
\* node in usbfs must open.
InitializeDevice ==
    /\ at = "enumerate" /\ devs[devaddr].refs = 0
    /\ LET dev == [refs |-> 1, sysfs_dir |-> port # "none",
                   dev_descriptor |-> sysfs_has_descriptors = 0]
       IN \/ /\ IF sysfs_has_descriptors = 0 THEN devaddr \in Present
                ELSE port # "none" /\ plugged[port] # 0
             /\ devs' = [devs EXCEPT ![devaddr] = dev] /\ at' = "append"
             /\ UNCHANGED <<buses, entries, port, devaddr, list, userlist>>
          \/ Fail(devs)                     \* also NO_MEM and errors of reads
    /\ UNCHANGED <<kernel, hotplug, scans, flags, steady, fell_back, kept>>

-----------------------------------------------------------------------------
(* The program and the bus *)

\* libusb_free_device_list, keeping a reference to one of the devices or not.
FreeList(keep) ==
    /\ at = "idle" /\ userlist # <<>>
    /\ keep = 0 \/ (kept = 0 /\ Uses(userlist, keep) > 0)
    /\ devs' = Unref(IF keep = 0 THEN devs ELSE [devs EXCEPT ![keep].refs = @ + 1], userlist)
    /\ userlist' = <<>> /\ kept' = IF keep = 0 THEN kept ELSE keep
    /\ UNCHANGED <<kernel, hotplug, scans, flags, at, buses, entries, port, devaddr,
                   list, steady, fell_back>>

UnrefKept ==
    /\ at = "idle" /\ kept # 0 /\ kept' = 0 /\ devs' = Unref(devs, <<kept>>)
    /\ UNCHANGED <<kernel, hotplug, scans, flags, at, buses, entries, port, devaddr,
                   list, steady, fell_back, userlist>>

Plug(p) ==
    /\ plugged[p] = 0 /\ next_address <= MaxAddress
    /\ plugged' = [plugged EXCEPT ![p] = next_address]
    /\ next_address' = next_address + 1
    /\ UNCHANGED <<kernel, scans, flags, devs, at, buses, entries, port, devaddr, list,
                   steady, fell_back, user>>

Unplug(p) ==
    /\ plugged[p] # 0 /\ plugged' = [plugged EXCEPT ![p] = 0]
    /\ steady' = steady \ {plugged[p]}
    /\ UNCHANGED <<kernel, next_address, scans, flags, devs, at, buses, entries, port,
                   devaddr, list, fell_back, user>>

Next ==
    \/ GetDeviceList \/ OpenBusnum \/ ReadDevnum \/ EndOfDirectory
    \/ AppendDevice \/ InitializeDevice \/ UnrefKept
    \/ \E p \in Ports : CheckDescriptors(p) \/ Plug(p) \/ Unplug(p)
    \/ \E b \in {Bus[p] : p \in Ports} : OpenBusdir(b)
    \/ \E a \in Addresses : NextOnBus(a)
    \/ \E keep \in 0..MaxAddress : FreeList(keep)

Spec == Init /\ [][Next]_vars

-----------------------------------------------------------------------------
Flags == {-1, 0, 1}

TypeOK ==
    /\ plugged \in [Ports -> 0..MaxAddress] /\ next_address \in 1..(MaxAddress + 1)
    /\ sysfs_can_relate_devices \in Flags /\ sysfs_has_descriptors \in Flags
    /\ devs \in [Addresses -> [refs : Nat, sysfs_dir : BOOLEAN, dev_descriptor : BOOLEAN]]
    /\ at \in {"idle", "sysfs", "busnum", "devnum", "usbfs", "busdir", "enumerate",
               "append", "undefined"}
    /\ entries \subseteq Ports \cup Addresses /\ devaddr \in 0..MaxAddress
    /\ discdevs \in Seq(Addresses) /\ userlist \in Seq(Addresses)
    /\ kept \in 0..MaxAddress /\ scans \in 0..MaxScans

\* "If any of the above failed, remember to unreference the device": every
\* reference is one of a list, of the program or of the device being added, and
\* no list is left behind between calls.  The pointer through which the core
\* would free the list of a failed scan is stale only while a directory of usbfs
\* is read, after the list has moved, and stays so only if that very reading
\* fails: the one failure after which the references are lost.
RefsBalanced ==
    /\ \A a \in Addresses :
         devs[a].refs = Uses(discdevs \o userlist, a) + (IF kept = a THEN 1 ELSE 0)
                        + (IF at = "append" /\ devaddr = a THEN 1 ELSE 0)
    /\ at = "idle" => discdevs = <<>>
    /\ caller # block =>
         port = "none" /\ at \in {"busdir", "enumerate", "append", "undefined"}

\* initialize_device is never reached before both flags are known, and a
\* device it set up can deliver its descriptor: from sysfs or from its copy.
DescriptorsReadable ==
    /\ at = "enumerate" => sysfs_can_relate_devices # -1 /\ sysfs_has_descriptors # -1
    /\ \A a \in Addresses : devs[a].refs > 0 =>
         IF sysfs_has_descriptors = 1 THEN devs[a].sysfs_dir ELSE devs[a].dev_descriptor

\* A list that is returned has every device that stayed plugged during the
\* scan, and has a device twice only if the scan fell back on usbfs.
ListedWhole ==
    EndOfDirectory /\ at' = "idle" =>
        /\ steady \subseteq {userlist'[i] : i \in DOMAIN userlist'}
        /\ fell_back \/ \A a \in Addresses : Uses(userlist', a) <= 1
ListIsComplete == [][ListedWhole]_vars

\* "on failure (non-zero return) the pre-existing discdevs should be destroyed
\* (and devices freed)": the pointer through which the core does so is valid.
FailedScanIsFreed == at # "undefined"
=============================================================================
