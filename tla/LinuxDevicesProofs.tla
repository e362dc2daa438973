-------------------------- MODULE LinuxDevicesProofs --------------------------
(***************************************************************************)
(* The parts of the Linux backend that work without transfers, for any     *)
(* ports and buses, any number of scans, devices, configurations, handles  *)
(* and interfaces.                                                         *)
(***************************************************************************)
EXTENDS MCLinuxDevices, FiniteSetTheorems, SequenceTheorems, TLAPS

-----------------------------------------------------------------------------
(* Claims                                                                  *)

ClaimsInv == Claims!TypeOK /\ Claims!ClaimsAgree

LEMMA ClaimsInit == ASSUME Claims!InterfacesAssumption PROVE Claims!Init => ClaimsInv
BY DEF Claims!InterfacesAssumption, Claims!Init, ClaimsInv, Claims!TypeOK, Claims!ClaimsAgree

\* The record of one handle.
Agrees(h) ==
    /\ claimed_interfaces[h] = dropped[h] \cup {i \in Interfaces : owner[i] = h}
    /\ \A i \in dropped[h] : owner[i] # h

\* What most calls do, and all that fail.
LEMMA NothingChangesKeeps ==
    ASSUME ClaimsInv, UNCHANGED <<attached, owner, open, claimed_interfaces, dropped>>
    PROVE  ClaimsInv'
BY DEF ClaimsInv, Claims!TypeOK, Claims!ClaimsAgree

\* Whatever the kernel takes away, it is noted which claims those were; it gives
\* an interface to nobody.
LEMMA ReassignKeeps ==
    ASSUME ClaimsInv, NEW after \in [Interfaces -> Handles \cup {"none", "driver"}],
           Claims!Reassign(after),
           \A i \in Interfaces, h \in Handles : after[i] = h => owner[i] = h,
           UNCHANGED <<open, claimed_interfaces>>, attached' \in BOOLEAN
    PROVE  ClaimsInv'
<1>1. /\ owner' = after
      /\ dropped' = [h \in Handles |->
                       dropped[h] \cup {i \in Interfaces : owner[i] = h /\ after[i] # h}]
    BY DEF Claims!Reassign
<1>2. Claims!TypeOK'
    BY <1>1 DEF ClaimsInv, Claims!TypeOK
<1>3. ASSUME NEW h \in Handles PROVE Agrees(h)'
    <2>1. Agrees(h) /\ dropped'[h] = dropped[h] \cup {i \in Interfaces : owner[i] = h /\ after[i] # h}
        BY <1>1 DEF ClaimsInv, Claims!ClaimsAgree, Agrees
    <2>2. claimed_interfaces'[h] = dropped'[h] \cup {i \in Interfaces : owner'[i] = h}
        <3>1. \A i \in Interfaces : owner'[i] = h => owner[i] = h
            BY <1>1
        <3>2. claimed_interfaces'[h] = dropped[h] \cup {i \in Interfaces : owner[i] = h}
            BY <2>1 DEF Agrees
        <3> QED BY <1>1, <2>1, <3>1, <3>2
    <2>3. ASSUME NEW i \in dropped'[h] PROVE owner'[i] # h
        <3>1. i \in Interfaces
            BY <1>2, <2>3 DEF Claims!TypeOK
        <3> QED BY <1>1, <2>1, <2>3, <3>1 DEF Agrees
    <2> QED BY <2>2, <2>3 DEF Agrees
<1> QED BY <1>2, <1>3 DEF ClaimsInv, Claims!ClaimsAgree, Agrees

LEMMA OpenKeeps ==
    ASSUME ClaimsInv, NEW h \in Handles, NEW errno \in {"0", "EACCES", "ENOENT"}, Claims!OpOpen(h, errno)
    PROVE  ClaimsInv'
<1>1. /\ open' \in {open, open \cup {h}}
      /\ UNCHANGED <<attached, owner, claimed_interfaces, dropped>>
    BY DEF Claims!OpOpen, Claims!Fails
<1> QED BY <1>1 DEF ClaimsInv, Claims!TypeOK, Claims!ClaimsAgree

LEMMA CloseKeeps ==
    ASSUME Claims!InterfacesAssumption, ClaimsInv, NEW h \in Handles, Claims!OpClose(h)
    PROVE  ClaimsInv'
<1>1. Claims!TypeOK'
    BY DEF Claims!OpClose, ClaimsInv, Claims!TypeOK
<1>2. Claims!ClaimsAgree'
    BY DEF Claims!InterfacesAssumption, Claims!OpClose, ClaimsInv, Claims!TypeOK, Claims!ClaimsAgree
<1> QED BY <1>1, <1>2 DEF ClaimsInv

LEMMA ClaimKeeps ==
    ASSUME Claims!InterfacesAssumption, ClaimsInv, NEW h \in Handles,
           NEW i \in Interfaces \cup {NoInterface}, Claims!OpClaimInterface(h, i)
    PROVE  ClaimsInv'
<1>1. CASE Claims!ClaimResult(Claims!ClaimErrno(h, i)) # "0"
    <2>1. UNCHANGED <<attached, owner, open, claimed_interfaces, dropped>>
        BY <1>1 DEF Claims!OpClaimInterface, Claims!Fails
    <2> QED BY <2>1, NothingChangesKeeps
<1>2. CASE Claims!ClaimResult(Claims!ClaimErrno(h, i)) = "0"
    <2>1. /\ owner' = [owner EXCEPT ![i] = h]
          /\ claimed_interfaces' = [claimed_interfaces EXCEPT ![h] = @ \cup {i}]
          /\ UNCHANGED <<attached, open, dropped>>
        BY <1>2 DEF Claims!OpClaimInterface, Claims!Fails
    <2>2. i \in Interfaces /\ owner[i] \in {"none", h}
        BY <1>2 DEF Claims!ClaimResult, Claims!ClaimErrno, ClaimsInv, Claims!TypeOK
    <2>3. Claims!TypeOK'
        BY <2>1, <2>2 DEF ClaimsInv, Claims!TypeOK
    <2>4. ASSUME NEW g \in Handles PROVE Agrees(g)'
        <3>1. Agrees(g) /\ i \notin claimed_interfaces[h] /\ dropped[g] \subseteq Interfaces
            BY DEF Claims!OpClaimInterface, ClaimsInv, Claims!TypeOK, Claims!ClaimsAgree, Agrees
        <3>2. \A j \in Interfaces : owner'[j] = IF j = i THEN h ELSE owner[j]
            BY <2>1, <2>2 DEF ClaimsInv, Claims!TypeOK
        <3>3. CASE g = h
            <4>1. claimed_interfaces'[g] = claimed_interfaces[g] \cup {i}
                BY <2>1, <3>3 DEF ClaimsInv, Claims!TypeOK
            <4> QED BY <2>1, <2>2, <3>1, <3>2, <3>3, <4>1 DEF Agrees
        <3>4. CASE g # h
            <4>1. claimed_interfaces'[g] = claimed_interfaces[g] /\ g # "none"
                BY <2>1, <3>4 DEF ClaimsInv, Claims!TypeOK, Claims!InterfacesAssumption
            <4> QED BY <2>1, <2>2, <3>1, <3>2, <3>4, <4>1 DEF Agrees
        <3> QED BY <3>3, <3>4
    <2> QED BY <2>3, <2>4 DEF ClaimsInv, Claims!ClaimsAgree, Agrees
<1> QED BY <1>1, <1>2

\* Only what the kernel still holds can be released, so that nothing of it was
\* taken away.
LEMMA ReleaseKeeps ==
    ASSUME Claims!InterfacesAssumption, ClaimsInv, NEW h \in Handles,
           NEW i \in Interfaces \cup {NoInterface}, Claims!OpReleaseInterface(h, i)
    PROVE  ClaimsInv'
<1>1. CASE UNCHANGED <<attached, owner, open, claimed_interfaces, dropped>>
    BY <1>1, NothingChangesKeeps
<1>2. CASE /\ owner[i] = h /\ owner' = [owner EXCEPT ![i] = "none"]
           /\ claimed_interfaces' = [claimed_interfaces EXCEPT ![h] = @ \ {i}]
           /\ UNCHANGED <<attached, open, dropped>>
    <2>1. i \in Interfaces
        BY DEF Claims!OpReleaseInterface, ClaimsInv, Claims!TypeOK
    <2>2. Claims!TypeOK'
        BY <1>2, <2>1 DEF ClaimsInv, Claims!TypeOK
    <2>3. Claims!ClaimsAgree'
        BY <1>2, <2>1 DEF Claims!InterfacesAssumption, ClaimsInv, Claims!TypeOK, Claims!ClaimsAgree
    <2> QED BY <2>2, <2>3 DEF ClaimsInv
<1> QED BY <1>1, <1>2 DEF Claims!OpReleaseInterface, Claims!Fails

LEMMA DetachKeeps ==
    ASSUME Claims!InterfacesAssumption, ClaimsInv, NEW h \in Handles,
           NEW i \in Interfaces \cup {NoInterface}, Claims!OpDetachKernelDriver(h, i)
    PROVE  ClaimsInv'
<1>1. CASE UNCHANGED <<attached, owner, open, claimed_interfaces, dropped>>
    BY <1>1, NothingChangesKeeps
<1>2. CASE /\ Claims!Detached(i) = "0" /\ Claims!Reassign([owner EXCEPT ![i] = "none"])
           /\ UNCHANGED <<attached, open, claimed_interfaces>>
    <2> DEFINE after == [owner EXCEPT ![i] = "none"]
    <2>1. after \in [Interfaces -> Handles \cup {"none", "driver"}] /\ attached' \in BOOLEAN
        BY <1>2 DEF ClaimsInv, Claims!TypeOK
    <2>2. \A j \in Interfaces, g \in Handles : after[j] = g => owner[j] = g
        BY DEF ClaimsInv, Claims!TypeOK, Claims!InterfacesAssumption
    <2> QED BY <1>2, <2>1, <2>2, ReassignKeeps
<1> QED BY <1>1, <1>2 DEF Claims!OpDetachKernelDriver, Claims!Fails

LEMMA AttachKeeps ==
    ASSUME Claims!InterfacesAssumption, ClaimsInv, NEW h \in Handles,
           NEW i \in Interfaces \cup {NoInterface}, Claims!OpAttachKernelDriver(h, i)
    PROVE  ClaimsInv'
<1>1. CASE UNCHANGED <<attached, owner, open, claimed_interfaces, dropped>>
    BY <1>1, NothingChangesKeeps
<1>2. CASE /\ Claims!Attached(i) = "0" /\ owner' = [owner EXCEPT ![i] = "driver"]
           /\ UNCHANGED <<attached, open, claimed_interfaces, dropped>>
    <2>1. i \in Interfaces /\ owner[i] = "none"
        BY <1>2 DEF Claims!Attached
    <2>2. Claims!TypeOK'
        BY <1>2 DEF ClaimsInv, Claims!TypeOK
    <2>3. Claims!ClaimsAgree'
        BY <1>2, <2>1 DEF Claims!InterfacesAssumption, ClaimsInv, Claims!TypeOK, Claims!ClaimsAgree
    <2> QED BY <2>2, <2>3 DEF ClaimsInv
<1> QED BY <1>1, <1>2 DEF Claims!OpAttachKernelDriver, Claims!Fails

\* A reset and a new configuration.
LEMMA KernelKeeps ==
    ASSUME Claims!InterfacesAssumption, ClaimsInv, NEW h \in Handles,
           Claims!OpResetDevice(h) \/ Claims!OpSetConfiguration(h)
    PROVE  ClaimsInv'
<1>1. CASE UNCHANGED <<attached, owner, open, claimed_interfaces, dropped>>
    BY <1>1, NothingChangesKeeps
<1>2. ASSUME NEW after \in [Interfaces -> Handles \cup {"none", "driver"}],
             \A i \in Interfaces : after[i] \in Claims!AfterReset(i), Claims!Reassign(after),
             UNCHANGED <<attached, open, claimed_interfaces>>
      PROVE  ClaimsInv'
    <2>1. attached' \in BOOLEAN
        BY <1>2 DEF ClaimsInv, Claims!TypeOK
    <2>2. \A i \in Interfaces, g \in Handles : after[i] = g => owner[i] = g
        BY <1>2 DEF Claims!AfterReset, Claims!InterfacesAssumption
    <2> QED BY <1>2, <2>1, <2>2, ReassignKeeps
<1>3. ASSUME NEW bound,
             Claims!Reassign([i \in Interfaces |-> IF i \in bound THEN "driver" ELSE "none"]),
             UNCHANGED <<open, claimed_interfaces>>, attached' \in BOOLEAN
      PROVE  ClaimsInv'
    <2> DEFINE after == [i \in Interfaces |-> IF i \in bound THEN "driver" ELSE "none"]
    <2>1. after \in [Interfaces -> Handles \cup {"none", "driver"}]
        OBVIOUS
    <2>2. \A i \in Interfaces, g \in Handles : after[i] = g => owner[i] = g
        BY DEF Claims!InterfacesAssumption
    <2> QED BY <1>3, <2>1, <2>2, ReassignKeeps
<1>4. CASE Claims!OpResetDevice(h)
    BY <1>1, <1>2, <1>4 DEF Claims!OpResetDevice, Claims!Fails
<1>5. CASE Claims!OpSetConfiguration(h)
    BY <1>1, <1>3, <1>5 DEF Claims!OpSetConfiguration, Claims!Fails, ClaimsInv, Claims!TypeOK
<1> QED BY <1>4, <1>5

LEMMA UnplugKeeps ==
    ASSUME Claims!InterfacesAssumption, ClaimsInv, Claims!Unplug
    PROVE  ClaimsInv'
<1> DEFINE after == [i \in Interfaces |-> "none"]
<1>1. /\ after \in [Interfaces -> Handles \cup {"none", "driver"}]
      /\ \A i \in Interfaces, g \in Handles : after[i] = g => owner[i] = g
    BY DEF Claims!InterfacesAssumption
<1>2. Claims!Reassign(after) /\ UNCHANGED <<open, claimed_interfaces>> /\ attached' \in BOOLEAN
    BY DEF Claims!Unplug
<1> QED BY <1>1, <1>2, ReassignKeeps

\* A call on a claimed interface may get a claim back that had been taken away.
LEMMA OnClaimedKeeps ==
    ASSUME Claims!InterfacesAssumption, ClaimsInv, NEW h \in Handles,
           NEW i \in Interfaces \cup {NoInterface},
           NEW op \in {"set_interface", "clear_halt"}, NEW exists \in BOOLEAN,
           Claims!OpOnClaimed(h, i, op, exists)
    PROVE  ClaimsInv'
<1>1. CASE UNCHANGED <<attached, owner, open, claimed_interfaces, dropped>>
    BY <1>1, NothingChangesKeeps
<1>2. CASE /\ owner[i] = "none" /\ owner' = [owner EXCEPT ![i] = h]
           /\ dropped' = [dropped EXCEPT ![h] = @ \ {i}]
           /\ UNCHANGED <<attached, open, claimed_interfaces>>
    <2>1. i \in Interfaces /\ i \in claimed_interfaces[h]
        BY DEF Claims!OpOnClaimed, ClaimsInv, Claims!TypeOK
    <2>2. Claims!TypeOK'
        BY <1>2, <2>1 DEF ClaimsInv, Claims!TypeOK
    <2>3. Claims!ClaimsAgree'
        BY <1>2, <2>1 DEF Claims!InterfacesAssumption, ClaimsInv, Claims!TypeOK, Claims!ClaimsAgree
    <2> QED BY <2>2, <2>3 DEF ClaimsInv
<1> QED BY <1>1, <1>2 DEF Claims!OpOnClaimed

LEMMA QuietKeeps ==
    ASSUME ClaimsInv, NEW h \in Handles, NEW i, Claims!OpKernelDriverActive(h, i)
    PROVE  ClaimsInv'
<1>1. UNCHANGED <<attached, owner, open, claimed_interfaces, dropped>>
    BY DEF Claims!OpKernelDriverActive
<1> QED BY <1>1, NothingChangesKeeps

LEMMA ClaimsKeep == ASSUME ClaimsInv, Claims!Next PROVE ClaimsInv'
<1>1. ASSUME NEW h \in Handles,
             \/ \E errno \in {"0", "EACCES", "ENOENT"} : Claims!OpOpen(h, errno)
             \/ Claims!OpClose(h) \/ Claims!OpResetDevice(h) \/ Claims!OpSetConfiguration(h)
      PROVE ClaimsInv'
  BY <1>1, OpenKeeps, CloseKeeps, KernelKeeps, ClaimsAssumption
<1>2. ASSUME NEW h \in Handles, NEW i \in Interfaces \cup {NoInterface},
             \/ Claims!OpClaimInterface(h, i) \/ Claims!OpReleaseInterface(h, i)
             \/ \E op \in {"set_interface", "clear_halt"}, exists \in BOOLEAN :
                  Claims!OpOnClaimed(h, i, op, exists)
             \/ Claims!OpKernelDriverActive(h, i)
             \/ Claims!OpDetachKernelDriver(h, i) \/ Claims!OpAttachKernelDriver(h, i)
      PROVE ClaimsInv'
  BY <1>2, ClaimKeeps, ReleaseKeeps, OnClaimedKeeps, QuietKeeps, DetachKeeps, AttachKeeps,
     ClaimsAssumption
<1> QED BY <1>1, <1>2, UnplugKeeps, ClaimsAssumption DEF Claims!Next

-----------------------------------------------------------------------------
(* The configuration                                                       *)

\* As long as no other program sets configurations, what a call that has read
\* or set the active one remembers of it is still true when it goes on.
ConfigInv ==
    /\ sysfs_has_descriptors \in {0, 1} /\ active \in Config!Configurations \cup {0}
    /\ at \in {"unknown", "idle", "seek", "cache"}
    /\ ~foreign /\ attached =>
         /\ at = "seek" => config = active /\ active # 0 /\ sysfs_has_descriptors = 1
         /\ at = "cache" =>
              active = (IF config = -1 THEN 0 ELSE config) /\ sysfs_has_descriptors = 0
         /\ at = "idle" /\ sysfs_has_descriptors = 0 /\ writable /\ ~logged =>
              config_descriptor = active
         /\ ~fd_lost

LEMMA ConfigInit == Config!Init => ConfigInv
BY DEF Config!Init, ConfigInv

LEMMA CacheKeeps ==
    ASSUME ValuesAssumption, ConfigInv, Config!CacheAtStart \/ Config!CacheNew
    PROVE  ConfigInv'
<1>1. CASE Config!CacheAtStart
  BY <1>1 DEF ConfigInv, Config!CacheAtStart, Config!kernel
<1>2. CASE Config!CacheNew
  <2>1. -1 \notin Config!Configurations
    BY ValuesAssumption DEF Config!Configurations
  <2> QED BY <1>2, <2>1 DEF ConfigInv, Config!CacheNew, Config!kernel
<1> QED BY <1>1, <1>2

LEMMA ActiveKeeps == ASSUME ConfigInv, Config!ReadActive \/ Config!SeekActive PROVE ConfigInv'
<1>1. CASE Config!ReadActive
  BY <1>1 DEF ConfigInv, Config!ReadActive, Config!kernel
<1>2. CASE Config!SeekActive
  <2>1. ~foreign /\ attached => fd_lost' = fd_lost
    BY <1>2 DEF ConfigInv, Config!SeekActive, Config!Shown
  <2>2. /\ at = "seek" /\ at' = "idle"
        /\ UNCHANGED <<sysfs_has_descriptors, writable, attached, active, foreign,
                       config_descriptor, config, logged>>
    BY <1>2 DEF Config!SeekActive, Config!kernel
  <2> QED BY <2>1, <2>2 DEF ConfigInv
<1> QED BY <1>1, <1>2

LEMMA SetKeeps ==
    ASSUME ConfigInv, NEW value \in Config!Configurations \cup {-1, 0, 99}, Config!SetConfiguration(value)
    PROVE  ConfigInv'
BY DEF ConfigInv, Config!SetConfiguration, Config!kernel

\* Calls that only read, and the rest of the world.
LEMMA OtherwiseKeeps ==
    ASSUME ConfigInv,
           \/ Config!GetCached \/ Config!Unplug
           \/ \E i \in 1..(Len(Values) + 1) : Config!GetConfigDescriptor(i)
           \/ \E before \in {0, 99} : Config!GetConfiguration(before)
           \/ \E value \in Config!Configurations \cup {0} : Config!OtherSets(value)
    PROVE  ConfigInv'
BY DEF ConfigInv, Config!GetCached, Config!Unplug, Config!GetConfigDescriptor,
       Config!GetConfiguration, Config!OtherSets, Config!kernel

LEMMA ConfigKeeps == ASSUME ConfigInv, Config!Next PROVE ConfigInv'
BY CacheKeeps, ActiveKeeps, SetKeeps, OtherwiseKeeps, ValuesAssumption DEF Config!Next

-----------------------------------------------------------------------------
(* Enumeration: the invariant                                              *)

States == {"idle", "sysfs", "busnum", "devnum", "usbfs", "busdir", "enumerate", "append",
           "undefined"}
DevTable == [Devices!Addresses -> [refs : Nat, sysfs_dir : BOOLEAN, dev_descriptor : BOOLEAN]]

\* A device was found and is being added to the list.  The entries that are
\* left to be read are those of sysfs, or addresses in a directory of usbfs.
Found == at \in {"enumerate", "append"}
InSysfs == at \in {"sysfs", "busnum", "devnum"} \/ (Found /\ port # "none")
InUsbfs == at \in {"usbfs", "busdir"} \/ (Found /\ port = "none")
Scanning == at \notin {"idle", "undefined"}
Listed == {discdevs[i] : i \in DOMAIN discdevs}

ScanTyped ==
    /\ plugged \in [Ports -> 0..MaxAddress] /\ next_address \in 1..(MaxAddress + 1)
    /\ devs \in DevTable
    /\ discdevs \in Seq(Devices!Addresses) /\ userlist \in Seq(Devices!Addresses)
    /\ kept \in 0..MaxAddress /\ at \in States
    /\ at \in {"busnum", "devnum"} => port \in Ports
    /\ Found => devaddr \in Devices!Addresses
    /\ InSysfs => entries \subseteq Ports
    /\ InUsbfs => entries \subseteq Devices!Addresses
    /\ at = "idle" => discdevs = <<>>
    /\ at # "idle" => userlist = <<>>

\* Every device in the table can deliver its descriptor, and there is none
\* before it is known how.
Readable(table) == \A a \in Devices!Addresses : table[a].refs > 0 =>
    /\ sysfs_has_descriptors # -1
    /\ IF sysfs_has_descriptors = 1 THEN table[a].sysfs_dir ELSE table[a].dev_descriptor

\* What the scan knows of the kernel: sysfs_can_relate_devices is decided after
\* sysfs_has_descriptors, and both before a device is looked at.
FlagsKnown ==
    /\ sysfs_has_descriptors \in {-1, 0, 1} /\ sysfs_can_relate_devices \in {-1, 0, 1}
    /\ sysfs_can_relate_devices = 0 => sysfs_has_descriptors # -1
    /\ at \in {"busnum", "devnum", "enumerate", "append"} => sysfs_has_descriptors # -1
    /\ at \in {"devnum", "enumerate", "append"} => sysfs_can_relate_devices # -1
    /\ InUsbfs => sysfs_can_relate_devices = 0

\* The references held by the lists and by the program.
Held(a) == Devices!Uses(discdevs, a) + Devices!Uses(userlist, a) + (IF kept = a THEN 1 ELSE 0)

Balanced ==
    /\ at = "append" => devs[devaddr].refs = 1
    /\ \A a \in Devices!Addresses :
         devs[a].refs = Held(a) + (IF at = "append" /\ devaddr = a THEN 1 ELSE 0)

\* Addresses are given to one device only.
Fresh ==
    /\ \A p, q \in Ports : plugged[p] = plugged[q] /\ plugged[p] # 0 => p = q
    /\ \A p \in Ports : plugged[p] < next_address
    /\ \A a \in Listed : a < next_address
    /\ Found => devaddr < next_address
    /\ InUsbfs => \A a \in entries : a < next_address
    /\ steady \subseteq Devices!Present
    /\ at = "usbfs" => entries = {}

\* A device that stays plugged is listed or the scan will come to it.
Covered(a) ==
    \/ a \in Listed
    \/ Found /\ devaddr = a
    \/ at \in {"busnum", "devnum"} /\ plugged[port] = a
    \/ InSysfs /\ \E p \in entries : plugged[p] = a
    \/ InUsbfs /\ (a \in entries \/ \E p \in Ports : plugged[p] = a /\ Bus[p] \in buses)

\* The devices that the scan has come to; it comes to none of them again.
Met == Listed \cup (IF Found THEN {devaddr} ELSE {})
Once ==
    /\ \A a \in Devices!Addresses : Devices!Uses(discdevs, a) <= 1
    /\ Found => devaddr \notin Listed
    /\ InSysfs => \A p \in entries : plugged[p] \notin Met
    /\ at \in {"busnum", "devnum"} => plugged[port] \notin Listed /\ port \notin entries
    /\ InUsbfs =>
         /\ entries \cap Met = {}
         /\ \A p \in Ports : Bus[p] \in buses => plugged[p] \notin Met \cup entries

Complete == Scanning => (\A a \in steady : Covered(a)) /\ (~fell_back => Once)

ScanInv == ScanTyped /\ FlagsKnown /\ Readable(devs) /\ Balanced /\ Fresh /\ Complete

-----------------------------------------------------------------------------
(* Enumeration: references                                                 *)

\* Devices counts with the operator of the standard module.
LEMMA SameCardinality == ASSUME NEW S PROVE Devices!Cardinality(S) = Cardinality(S)
BY DEF Devices!Cardinality, Cardinality

LEMMA UsesOfList ==
    ASSUME NEW S, NEW s \in Seq(S), NEW a
    PROVE  /\ Devices!Uses(s, a) \in Nat
           /\ Devices!Uses(s, a) = 0 <=> \A i \in DOMAIN s : s[i] # a
<1> DEFINE C == {i \in DOMAIN s : s[i] = a}
<1>1. IsFiniteSet(C)
  <2>1. DOMAIN s = 1..Len(s) /\ Len(s) \in Int
    OBVIOUS
  <2>2. IsFiniteSet(1..Len(s))
    BY <2>1, FS_Interval
  <2> QED BY <2>1, <2>2, FS_Subset
<1>2. Cardinality(C) \in Nat /\ (Cardinality(C) = 0 <=> C = {})
  BY <1>1, FS_CardinalityType, FS_EmptySet
<1>3. Devices!Uses(s, a) = Cardinality(C)
  BY SameCardinality DEF Devices!Uses
<1> QED BY <1>2, <1>3

LEMMA UsesOfNone == ASSUME NEW a PROVE Devices!Uses(<<>>, a) = 0
<1>1. <<>> \in Seq({a}) /\ DOMAIN <<>> = {}
  OBVIOUS
<1> QED BY <1>1, UsesOfList

LEMMA UsesAppended ==
    ASSUME NEW S, NEW s \in Seq(S), NEW e \in S, NEW a
    PROVE  Devices!Uses(Append(s, e), a) = Devices!Uses(s, a) + (IF e = a THEN 1 ELSE 0)
<1> DEFINE C == {i \in DOMAIN s : s[i] = a}
           D == {i \in DOMAIN Append(s, e) : Append(s, e)[i] = a}
           n == Len(s) + 1
<1>1. /\ DOMAIN s = 1..Len(s) /\ Len(s) \in Nat /\ DOMAIN Append(s, e) = 1..n
      /\ Append(s, e)[n] = e /\ \A i \in 1..Len(s) : Append(s, e)[i] = s[i]
  OBVIOUS
<1>2. D = IF e = a THEN C \cup {n} ELSE C
  BY <1>1
<1>3. n \notin C /\ IsFiniteSet(C)
  <2>1. IsFiniteSet(1..Len(s))
    BY <1>1, FS_Interval
  <2> QED BY <1>1, <2>1, FS_Subset
<1>4. Cardinality(C \cup {n}) = Cardinality(C) + 1 /\ Cardinality(C) \in Nat
  BY <1>3, FS_AddElement, FS_CardinalityType
<1>5. Devices!Uses(s, a) = Cardinality(C) /\ Devices!Uses(Append(s, e), a) = Cardinality(D)
  BY SameCardinality DEF Devices!Uses
<1> HIDE DEF C, D, n
<1>6. CASE e = a
  BY <1>2, <1>4, <1>5, <1>6
<1>7. CASE e # a
  BY <1>2, <1>4, <1>5, <1>7
<1> QED BY <1>6, <1>7

LEMMA UsesOfOne == ASSUME NEW e, NEW a PROVE Devices!Uses(<<e>>, a) = IF e = a THEN 1 ELSE 0
<1>1. Append(<<>>, e) = <<e>>
  OBVIOUS
<1>2. Devices!Uses(Append(<<>>, e), a) = Devices!Uses(<<>>, a) + (IF e = a THEN 1 ELSE 0)
  <2> DEFINE S == {e}
             none == <<>>
  <2>1. none \in Seq(S) /\ e \in S
    OBVIOUS
  <2> HIDE DEF S, none
  <2>2. Devices!Uses(Append(none, e), a) = Devices!Uses(none, a) + (IF e = a THEN 1 ELSE 0)
    BY <2>1, UsesAppended
  <2> QED BY <2>2 DEF none
<1>3. CASE e = a
  BY <1>1, <1>2, <1>3, UsesOfNone
<1>4. CASE e # a
  BY <1>1, <1>2, <1>4, UsesOfNone
<1> QED BY <1>3, <1>4

\* Each device loses the references in the list; the table forgets those that
\* lose their last.
LEMMA Unreferenced ==
    ASSUME NEW table \in DevTable, NEW s \in Seq(Devices!Addresses),
           \A a \in Devices!Addresses : table[a].refs >= Devices!Uses(s, a)
    PROVE  /\ Devices!Unref(table, s) \in DevTable
           /\ \A a \in Devices!Addresses :
                Devices!Unref(table, s)[a].refs = table[a].refs - Devices!Uses(s, a)
           /\ Readable(table) => Readable(Devices!Unref(table, s))
<1> DEFINE new == Devices!Unref(table, s)
<1>1. ASSUME NEW a \in Devices!Addresses
      PROVE  /\ new[a] \in [refs : Nat, sysfs_dir : BOOLEAN, dev_descriptor : BOOLEAN]
             /\ new[a].refs = table[a].refs - Devices!Uses(s, a)
             /\ new[a].refs > 0 => /\ new[a].sysfs_dir = table[a].sysfs_dir
                                   /\ new[a].dev_descriptor = table[a].dev_descriptor
  <2>1. table[a] \in [refs : Nat, sysfs_dir : BOOLEAN, dev_descriptor : BOOLEAN]
    BY DEF DevTable
  <2>2. Devices!Uses(s, a) \in Nat
    BY UsesOfList
  <2>3. CASE table[a].refs = Devices!Uses(s, a)
    <3>1. new[a] = Devices!NoDevice
      BY <2>3 DEF Devices!Unref
    <3> QED BY <2>1, <2>2, <2>3, <3>1 DEF Devices!NoDevice
  <2>4. CASE table[a].refs # Devices!Uses(s, a)
    <3>1. new[a] = [table[a] EXCEPT !.refs = @ - Devices!Uses(s, a)]
      BY <2>4 DEF Devices!Unref
    <3>2. table[a].refs - Devices!Uses(s, a) \in Nat
      BY <2>1, <2>2
    <3> QED BY <2>1, <3>1, <3>2
  <2> QED BY <2>3, <2>4
<1>2. new \in DevTable
  <2>1. new = [a \in Devices!Addresses |-> new[a]]
    BY DEF Devices!Unref
  <2> HIDE DEF new
  <2> QED BY <1>1, <2>1 DEF DevTable
<1>3. ASSUME NEW a \in Devices!Addresses PROVE table[a].refs \in Nat /\ Devices!Uses(s, a) \in Nat
  BY UsesOfList DEF DevTable
<1> HIDE DEF new
<1>4. Readable(table) => Readable(new)
  BY <1>1, <1>3 DEF Readable
<1> QED BY <1>1, <1>2, <1>4 DEF new

-----------------------------------------------------------------------------
(* Enumeration: the scan                                                   *)

LEMMA ScanInit == Devices!Init => ScanInv
<1> SUFFICES ASSUME Devices!Init PROVE ScanInv
  OBVIOUS
<1>1. /\ at = "idle" /\ discdevs = <<>> /\ userlist = <<>> /\ kept = 0 /\ next_address = 1
      /\ steady = {} /\ plugged = [p \in Ports |-> 0]
      /\ devs = [a \in Devices!Addresses |-> Devices!NoDevice]
  BY DEF Devices!Init
<1>2. ScanTyped /\ Fresh /\ Complete
  BY <1>1, DevicesAssumption
     DEF ScanTyped, Fresh, Complete, States, DevTable, Devices!NoDevice, Found, InSysfs, InUsbfs,
         Listed, Scanning, Devices!Present
<1>3. FlagsKnown
  BY <1>1 DEF Devices!Init, Devices!op_init, FlagsKnown, InUsbfs, Found
<1>4. Readable(devs) /\ Balanced
  BY <1>1, UsesOfNone, DevicesAssumption
     DEF Readable, Balanced, Held, Devices!NoDevice, Devices!Addresses
<1> QED BY <1>2, <1>3, <1>4 DEF ScanInv

\* A list of devices that are all accounted for is freed, or nobody finds it
\* any more.
LEMMA FailKeeps ==
    ASSUME ScanInv, Scanning, NEW table \in DevTable, Devices!Fail(table), Readable(table),
           \A a \in Devices!Addresses : table[a].refs = Held(a),
           UNCHANGED <<plugged, next_address, sysfs_can_relate_devices, sysfs_has_descriptors,
                       steady, fell_back, kept>>
    PROVE  ScanInv'
<1>1. /\ \/ /\ at' = "idle" /\ discdevs' = <<>> /\ devs' = Devices!Unref(table, discdevs)
         \/ at' = "undefined" /\ discdevs' = discdevs /\ devs' = table
      /\ UNCHANGED <<buses, entries, port, devaddr, userlist>> /\ userlist = <<>>
  BY DEF Devices!Fail, ScanInv, ScanTyped, Scanning
<1>2. /\ Devices!Unref(table, discdevs) \in DevTable /\ Readable(Devices!Unref(table, discdevs))
      /\ \A a \in Devices!Addresses :
           Devices!Unref(table, discdevs)[a].refs = IF kept = a THEN 1 ELSE 0
  <2>1. discdevs \in Seq(Devices!Addresses)
    BY DEF ScanInv, ScanTyped
  <2>2. ASSUME NEW a \in Devices!Addresses
        PROVE  /\ Devices!Uses(discdevs, a) \in Nat
               /\ table[a].refs = Devices!Uses(discdevs, a) + IF kept = a THEN 1 ELSE 0
    BY <1>1, <2>1, UsesOfList, UsesOfNone DEF Held
  <2>3. \A a \in Devices!Addresses : table[a].refs >= Devices!Uses(discdevs, a)
    BY <2>2
  <2> QED BY <2>1, <2>2, <2>3, Unreferenced
<1>3. devs' \in DevTable /\ Readable(devs)'
  BY <1>1, <1>2 DEF Readable, Devices!Addresses
<1>4. ScanTyped'
  BY <1>1, <1>3 DEF ScanInv, ScanTyped, States, DevTable, Devices!Addresses, Found, InSysfs, InUsbfs
<1>5. FlagsKnown'
  BY <1>1 DEF ScanInv, FlagsKnown, Found, InUsbfs
<1>6. Balanced'
  <2>1. CASE at' = "idle"
    BY <1>1, <1>2, <2>1, UsesOfNone DEF Balanced, Held, Devices!Addresses
  <2>2. CASE at' = "undefined"
    <3>1. ASSUME NEW a \in Devices!Addresses PROVE devs'[a].refs = Held(a)' /\ Held(a)' \in Nat
      <4>1. Held(a)' = Held(a) /\ devs' = table
        BY <1>1, <2>2 DEF Held
      <4>2. table[a].refs \in Nat
        BY DEF DevTable
      <4> QED BY <4>1, <4>2
    <3> QED BY <2>2, <3>1 DEF Balanced, Devices!Addresses
  <2> QED BY <1>1, <2>1, <2>2
<1>7. Fresh' /\ Complete'
  BY <1>1 DEF ScanInv, Fresh, Complete, Scanning, Listed, Found, InSysfs, InUsbfs, Devices!Present
<1> QED BY <1>3, <1>4, <1>5, <1>6, <1>7 DEF ScanInv

\* A step that only fails and frees the list.
LEMMA FailAloneKeeps ==
    ASSUME ScanInv, at \in {"devnum", "usbfs", "enumerate"}, Devices!Fail(devs),
           UNCHANGED <<plugged, next_address, sysfs_can_relate_devices, sysfs_has_descriptors,
                       steady, fell_back, kept>>
    PROVE  ScanInv'
<1>1. \A a \in Devices!Addresses : Held(a) \in Nat
  BY UsesOfList DEF ScanInv, ScanTyped, Held
<1>2. devs \in DevTable /\ Readable(devs) /\ \A a \in Devices!Addresses : devs[a].refs = Held(a)
  BY <1>1 DEF ScanInv, ScanTyped, Balanced
<1>3. Scanning
  BY DEF Scanning
<1> QED BY <1>2, <1>3, FailKeeps

\* A step that leaves the lists and the table alone.
LEMMA TableKept ==
    ASSUME ScanInv, UNCHANGED <<devs, discdevs, userlist, kept>>, at # "append", at' # "append",
           sysfs_has_descriptors # -1 => sysfs_has_descriptors' = sysfs_has_descriptors
    PROVE  Balanced' /\ Readable(devs)'
<1>1. Balanced'
  BY DEF ScanInv, Balanced, Held, Devices!Addresses
<1>2. Readable(devs)'
  BY DEF ScanInv, Readable, Devices!Addresses
<1> QED BY <1>1, <1>2

LEMMA GetListKeeps == ASSUME ScanInv, Devices!GetDeviceList PROVE ScanInv'
<1>1. /\ at = "idle" /\ userlist = <<>> /\ discdevs = <<>>
      /\ discdevs' = <<>> /\ steady' = Devices!Present /\ fell_back' = FALSE
      /\ UNCHANGED <<plugged, next_address, sysfs_can_relate_devices, sysfs_has_descriptors, devs,
                     port, devaddr, userlist, kept>>
  BY DEF Devices!GetDeviceList, Devices!hotplug, Devices!flags, Devices!user, ScanInv, ScanTyped
<1>2. \/ sysfs_can_relate_devices # 0 /\ at' = "sysfs" /\ entries' = {p \in Ports : plugged[p] # 0}
      \/ /\ sysfs_can_relate_devices = 0 /\ at' = "usbfs" /\ entries' = {}
         /\ buses' = {Bus[p] : p \in {q \in Ports : plugged[q] # 0}}
  BY DEF Devices!GetDeviceList, Devices!ToUsbfs
<1>3. ScanTyped'
  BY <1>1, <1>2 DEF ScanInv, ScanTyped, States, DevTable, Devices!Addresses, Found, InSysfs, InUsbfs
<1>4. FlagsKnown'
  BY <1>1, <1>2 DEF ScanInv, FlagsKnown, Found, InUsbfs
<1>5. Balanced' /\ Readable(devs)'
  BY <1>1, <1>2, TableKept
<1>6. Fresh'
  BY <1>1, <1>2 DEF ScanInv, Fresh, Listed, Found, InUsbfs, Devices!Present
<1>7. Complete'
  <2>1. Listed' = {}
    BY <1>1 DEF Listed
  <2>2. \A a \in steady' : Covered(a)'
    BY <1>1, <1>2 DEF Covered, InSysfs, InUsbfs, Devices!Present
  <2>3. \A a \in Devices!Addresses : Devices!Uses(discdevs', a) <= 1
    BY <1>1, UsesOfNone
  <2>4. Once'
    BY <1>1, <1>2, <2>1, <2>3 DEF Once, Met, Found, InSysfs, InUsbfs, Devices!Addresses
  <2> QED BY <2>2, <2>4 DEF Complete
<1> QED BY <1>3, <1>4, <1>5, <1>6, <1>7 DEF ScanInv

LEMMA CheckKeeps == ASSUME ScanInv, NEW p \in Ports, Devices!CheckDescriptors(p) PROVE ScanInv'
<1>1. /\ at = "sysfs" /\ p \in entries /\ port' = p /\ at' = "busnum" /\ entries' = entries \ {p}
      /\ UNCHANGED <<plugged, next_address, sysfs_can_relate_devices, devs, buses, devaddr,
                     discdevs, steady, fell_back, userlist, kept>>
  BY DEF Devices!CheckDescriptors, Devices!hotplug, Devices!user, Devices!list
<1>2. /\ sysfs_has_descriptors' \in {0, 1} \/ sysfs_has_descriptors' = sysfs_has_descriptors
      /\ sysfs_has_descriptors # -1 => sysfs_has_descriptors' = sysfs_has_descriptors
      /\ sysfs_has_descriptors' # -1
  BY DEF Devices!CheckDescriptors
<1>3. ScanTyped'
  BY <1>1 DEF ScanInv, ScanTyped, States, DevTable, Devices!Addresses, Found, InSysfs, InUsbfs
<1>4. FlagsKnown'
  BY <1>1, <1>2 DEF ScanInv, FlagsKnown, Found, InUsbfs
<1>5. Balanced' /\ Readable(devs)'
  BY <1>1, <1>2, TableKept
<1>6. Fresh'
  BY <1>1 DEF ScanInv, Fresh, Listed, Found, InUsbfs, Devices!Present
<1>7. Complete'
  <2>1. Scanning /\ InSysfs /\ InSysfs' /\ ~Found /\ ~Found' /\ ~InUsbfs /\ ~InUsbfs' /\ Listed' = Listed
    BY <1>1 DEF Scanning, InSysfs, InUsbfs, Found, Listed
  <2>2. ASSUME NEW a \in steady PROVE Covered(a)'
    <3>1. Covered(a)
      BY <2>1 DEF ScanInv, Complete
    <3> QED BY <1>1, <2>1, <3>1 DEF Covered
  <2>3. Once => Once'
    BY <1>1, <2>1 DEF Once, Met, Devices!Addresses
  <2> QED BY <1>1, <2>1, <2>2, <2>3 DEF ScanInv, Complete
<1> QED BY <1>3, <1>4, <1>5, <1>6, <1>7 DEF ScanInv

LEMMA BusnumKeeps == ASSUME ScanInv, Devices!OpenBusnum PROVE ScanInv'
<1>1. /\ at = "busnum"
      /\ UNCHANGED <<plugged, next_address, sysfs_has_descriptors, devs, port, devaddr,
                     discdevs, steady, userlist, kept>>
  BY DEF Devices!OpenBusnum, Devices!hotplug, Devices!user, Devices!list
<1>2. \/ /\ sysfs_can_relate_devices' = 1 /\ at' = "devnum"
         /\ UNCHANGED <<buses, entries, fell_back>>
      \/ /\ sysfs_can_relate_devices' = 0 /\ fell_back' = TRUE /\ at' = "usbfs" /\ entries' = {}
         /\ buses' = {Bus[p] : p \in {q \in Ports : plugged[q] # 0}}
  BY DEF Devices!OpenBusnum, Devices!ToUsbfs
<1>3. ScanTyped'
  BY <1>1, <1>2 DEF ScanInv, ScanTyped, States, DevTable, Devices!Addresses, Found, InSysfs, InUsbfs
<1>4. FlagsKnown'
  BY <1>1, <1>2 DEF ScanInv, FlagsKnown, Found, InUsbfs
<1>5. Balanced' /\ Readable(devs)'
  BY <1>1, <1>2, TableKept
<1>6. Fresh'
  BY <1>1, <1>2 DEF ScanInv, Fresh, Listed, Found, InUsbfs, Devices!Present
<1>7. Complete'
  <2>1. Scanning /\ InSysfs /\ ~Found /\ ~Found' /\ ~InUsbfs /\ Listed' = Listed
    BY <1>1, <1>2 DEF Scanning, InSysfs, InUsbfs, Found, Listed
  <2>2. ASSUME NEW a \in steady PROVE Covered(a)'
    <3>1. Covered(a) /\ a \in Devices!Present
      BY <2>1 DEF ScanInv, Complete, Fresh
    <3>2. CASE at' = "devnum"
      BY <1>1, <1>2, <2>1, <3>1, <3>2 DEF Covered, InSysfs
    <3>3. CASE at' = "usbfs"
      BY <1>1, <1>2, <3>1, <3>3 DEF Covered, InUsbfs, Devices!Present
    <3> QED BY <1>2, <3>2, <3>3
  <2>3. Once /\ ~fell_back' => Once'
    BY <1>1, <1>2, <2>1 DEF Once, Met, Devices!Addresses, InSysfs, InUsbfs
  <2> QED BY <1>1, <1>2, <2>1, <2>2, <2>3 DEF ScanInv, Complete
<1> QED BY <1>3, <1>4, <1>5, <1>6, <1>7 DEF ScanInv

LEMMA DevnumKeeps == ASSUME ScanInv, Devices!ReadDevnum PROVE ScanInv'
<1>1. /\ at = "devnum" /\ Scanning
      /\ UNCHANGED <<plugged, next_address, sysfs_can_relate_devices, sysfs_has_descriptors,
                     steady, fell_back, kept>>
  BY DEF Devices!ReadDevnum, Devices!hotplug, Devices!flags, Scanning
<1>2. CASE Devices!Fail(devs)
  BY <1>1, <1>2, FailAloneKeeps
<1>3. CASE /\ plugged[port] # 0 /\ devaddr' = plugged[port] /\ at' = "enumerate"
           /\ UNCHANGED <<devs, buses, entries, port, discdevs, userlist>>
  <2>1. port \in Ports /\ plugged[port] \in Devices!Addresses
    BY <1>1, <1>3, DevicesAssumption DEF ScanInv, ScanTyped, Devices!Addresses
  <2>2. ScanTyped'
    BY <1>1, <1>3, <2>1, DevicesAssumption DEF ScanInv, ScanTyped, States, DevTable, Devices!Addresses, Found, InSysfs, InUsbfs
  <2>3. FlagsKnown'
    BY <1>1, <1>3, <2>1, DevicesAssumption DEF ScanInv, FlagsKnown, Found, InUsbfs
  <2>4. Balanced' /\ Readable(devs)'
    BY <1>1, <1>3, TableKept
  <2>5. Fresh'
    BY <1>1, <1>3, <2>1, DevicesAssumption DEF ScanInv, Fresh, Listed, Found, InUsbfs, Devices!Present
  <2>6. Complete'
    <3>1. /\ Scanning /\ InSysfs /\ InSysfs' /\ ~Found /\ Found' /\ ~InUsbfs /\ ~InUsbfs'
          /\ Listed' = Listed
      BY <1>1, <1>3, <2>1, DevicesAssumption DEF Scanning, InSysfs, InUsbfs, Found, Listed
    <3>2. ASSUME NEW a \in steady PROVE Covered(a)'
      <4>1. Covered(a)
        BY <3>1 DEF ScanInv, Complete
      <4> QED BY <1>1, <1>3, <3>1, <4>1 DEF Covered
    <3>3. Once => Once'
      BY <1>1, <1>3, <2>1, <3>1 DEF Once, Met, Devices!Addresses, ScanInv, Fresh, ScanTyped
    <3> QED BY <1>1, <3>1, <3>2, <3>3 DEF ScanInv, Complete
  <2> QED BY <2>2, <2>3, <2>4, <2>5, <2>6 DEF ScanInv
<1> QED BY <1>2, <1>3 DEF Devices!ReadDevnum, Devices!list

LEMMA EndKeeps == ASSUME ScanInv, Devices!EndOfDirectory PROVE ScanInv'
<1>1. /\ entries = {}
      /\ UNCHANGED <<plugged, next_address, sysfs_can_relate_devices, sysfs_has_descriptors, devs,
                     buses, entries, port, devaddr, steady, fell_back, kept>>
  BY DEF Devices!EndOfDirectory, Devices!hotplug, Devices!flags
<1>2. CASE at = "busdir" /\ at' = "usbfs" /\ UNCHANGED <<discdevs, userlist>>
  <2>1. ScanTyped'
    BY <1>1, <1>2 DEF ScanInv, ScanTyped, States, DevTable, Devices!Addresses, Found, InSysfs, InUsbfs
  <2>2. FlagsKnown'
    BY <1>1, <1>2 DEF ScanInv, FlagsKnown, Found, InUsbfs
  <2>3. Balanced' /\ Readable(devs)'
    BY <1>1, <1>2, TableKept
  <2>4. Fresh'
    BY <1>1, <1>2 DEF ScanInv, Fresh, Listed, Found, InUsbfs, Devices!Present
  <2>5. Complete'
    <3>1. Scanning /\ InUsbfs /\ InUsbfs' /\ ~InSysfs /\ ~InSysfs' /\ ~Found /\ ~Found' /\ Listed' = Listed
      BY <1>1, <1>2 DEF Scanning, InSysfs, InUsbfs, Found, Listed
    <3>2. ASSUME NEW a \in steady PROVE Covered(a)'
      <4>1. Covered(a)
        BY <3>1 DEF ScanInv, Complete
      <4> QED BY <1>1, <1>2, <3>1, <4>1 DEF Covered
    <3>3. Once => Once'
      BY <1>1, <1>2, <3>1 DEF Once, Met, Devices!Addresses
    <3> QED BY <1>1, <3>1, <3>2, <3>3 DEF ScanInv, Complete
  <2> QED BY <2>1, <2>2, <2>3, <2>4, <2>5 DEF ScanInv
<1>3. CASE /\ at \in {"sysfs", "usbfs"} /\ at' = "idle" /\ userlist' = discdevs /\ discdevs' = <<>>
  <2>1. userlist = <<>>
    BY <1>3 DEF ScanInv, ScanTyped
  <2>2. ScanTyped'
    BY <1>1, <1>3 DEF ScanInv, ScanTyped, States, DevTable, Devices!Addresses, Found, InSysfs, InUsbfs
  <2>3. FlagsKnown'
    BY <1>1, <1>3 DEF ScanInv, FlagsKnown, Found, InUsbfs
  <2>4. Readable(devs)'
    BY <1>1, <1>3 DEF ScanInv, Readable, Devices!Addresses
  <2>5. Balanced'
    <3>1. ASSUME NEW a \in Devices!Addresses PROVE Held(a)' = Held(a)
      <4>1. /\ Held(a) = Devices!Uses(discdevs, a) + Devices!Uses(<<>>, a) + (IF kept = a THEN 1 ELSE 0)
            /\ Held(a)' = Devices!Uses(<<>>, a) + Devices!Uses(discdevs, a) + (IF kept = a THEN 1 ELSE 0)
        BY <1>1, <1>3, <2>1 DEF Held
      <4>2. Devices!Uses(discdevs, a) \in Nat /\ Devices!Uses(<<>>, a) = 0
        BY UsesOfList, UsesOfNone DEF ScanInv, ScanTyped
      <4> QED BY <4>1, <4>2
    <3> QED BY <1>1, <1>3, <3>1 DEF ScanInv, Balanced, Devices!Addresses
  <2>6. Fresh' /\ Complete'
    BY <1>1, <1>3 DEF ScanInv, Fresh, Complete, Scanning, Listed, Found, InSysfs, InUsbfs, Devices!Present
  <2> QED BY <2>2, <2>3, <2>4, <2>5, <2>6 DEF ScanInv
<1> QED BY <1>2, <1>3 DEF Devices!EndOfDirectory

LEMMA BusdirKeeps == ASSUME ScanInv, NEW b, Devices!OpenBusdir(b) PROVE ScanInv'
<1>1. /\ at = "usbfs" /\ b \in buses
      /\ UNCHANGED <<plugged, next_address, sysfs_can_relate_devices, sysfs_has_descriptors,
                     steady, fell_back, kept>>
  BY DEF Devices!OpenBusdir, Devices!hotplug, Devices!flags
<1>2. CASE Devices!Fail(devs)
  BY <1>1, <1>2, FailAloneKeeps
<1>3. CASE /\ at' = "busdir" /\ entries' = Devices!OnBus(b) /\ buses' = buses \ {b}
           /\ UNCHANGED <<devs, port, devaddr, discdevs, userlist>>
  <2>1. ASSUME NEW p \in Ports, plugged[p] # 0 PROVE Devices!PortOf(plugged[p]) = p
    BY <2>1 DEF Devices!PortOf, ScanInv, Fresh
  <2>2. /\ entries' = {plugged[p] : p \in {q \in Ports : plugged[q] # 0 /\ Bus[q] = b}}
        /\ entries' \subseteq Devices!Present
    BY <1>3, <2>1 DEF Devices!OnBus, Devices!Present
  <2>3. Devices!Present \subseteq Devices!Addresses /\ \A a \in Devices!Present : a < next_address
    BY DevicesAssumption DEF ScanInv, ScanTyped, Fresh, Devices!Present, Devices!Addresses
  <2>4. ScanTyped'
    BY <1>1, <1>3, <2>2, <2>3 DEF ScanInv, ScanTyped, States, DevTable, Devices!Addresses, Found, InSysfs, InUsbfs
  <2>5. FlagsKnown'
    BY <1>1, <1>3 DEF ScanInv, FlagsKnown, Found, InUsbfs
  <2>6. Balanced' /\ Readable(devs)'
    BY <1>1, <1>3, TableKept
  <2>7. Fresh'
    BY <1>1, <1>3, <2>2, <2>3 DEF ScanInv, Fresh, Listed, Found, InUsbfs, Devices!Present
  <2>8. Complete'
    <3>1. Scanning /\ InUsbfs /\ InUsbfs' /\ ~InSysfs /\ ~InSysfs' /\ ~Found /\ ~Found' /\ Listed' = Listed
      BY <1>1, <1>3 DEF Scanning, InSysfs, InUsbfs, Found, Listed
    <3>2. ASSUME NEW a \in steady PROVE Covered(a)'
      <4>1. Covered(a) /\ entries = {} /\ a \in Devices!Present
        BY <1>1, <3>1 DEF ScanInv, Complete, Fresh
      <4>2. a \in Listed \/ \E p \in Ports : plugged[p] = a /\ Bus[p] \in buses
        BY <1>1, <3>1, <4>1 DEF Covered
      <4>3. CASE a \in Listed
        BY <3>1, <4>3 DEF Covered
      <4>4. ASSUME NEW p \in Ports, plugged[p] = a, Bus[p] \in buses PROVE Covered(a)'
        <5>1. Bus[p] = b => a \in entries'
          BY <2>2, <4>1, <4>4 DEF Devices!Present
        <5> QED BY <1>1, <1>3, <3>1, <4>4, <5>1 DEF Covered
      <4> QED BY <4>2, <4>3, <4>4
    <3>3. Once => Once'
      <4> SUFFICES ASSUME Once PROVE Once'
        OBVIOUS
      <4>1. Met = Listed /\ Met' = Listed
        BY <3>1 DEF Met
      <4>2. entries' \cap Listed = {}
        BY <1>1, <2>2, <3>1, <4>1 DEF Once
      <4>3. \A p \in Ports : Bus[p] \in buses' => plugged[p] \notin Listed \cup entries'
        BY <1>1, <1>3, <2>2, <3>1, <4>1 DEF Once, ScanInv, Fresh
      <4> QED BY <1>1, <1>3, <3>1, <4>1, <4>2, <4>3 DEF Once, Devices!Addresses
    <3> QED BY <1>1, <3>1, <3>2, <3>3 DEF ScanInv, Complete
  <2> QED BY <2>4, <2>5, <2>6, <2>7, <2>8 DEF ScanInv
<1> QED BY <1>2, <1>3 DEF Devices!OpenBusdir, Devices!list

LEMMA NextOnBusKeeps == ASSUME ScanInv, NEW a \in Devices!Addresses, Devices!NextOnBus(a) PROVE ScanInv'
<1>1. /\ at = "busdir" /\ a \in entries /\ entries' = entries \ {a}
      /\ port' = "none" /\ devaddr' = a /\ at' = "enumerate"
      /\ UNCHANGED <<plugged, next_address, sysfs_can_relate_devices, sysfs_has_descriptors, devs,
                     buses, discdevs, steady, fell_back, userlist, kept>>
  BY DEF Devices!NextOnBus, Devices!hotplug, Devices!flags, Devices!user, Devices!list
<1>2. ScanTyped'
  BY <1>1 DEF ScanInv, ScanTyped, States, DevTable, Devices!Addresses, Found, InSysfs, InUsbfs
<1>3. FlagsKnown'
  BY <1>1 DEF ScanInv, FlagsKnown, Found, InUsbfs
<1>4. Balanced' /\ Readable(devs)'
  BY <1>1, TableKept
<1>5. Fresh'
  BY <1>1 DEF ScanInv, Fresh, Listed, Found, InUsbfs, Devices!Present
<1>6. Complete'
  <2>1. /\ Scanning /\ InUsbfs /\ InUsbfs' /\ ~InSysfs /\ ~InSysfs' /\ ~Found /\ Found'
        /\ Listed' = Listed
    BY <1>1 DEF Scanning, InSysfs, InUsbfs, Found, Listed
  <2>2. ASSUME NEW d \in steady PROVE Covered(d)'
    <3>1. Covered(d)
      BY <2>1 DEF ScanInv, Complete
    <3> QED BY <1>1, <2>1, <3>1 DEF Covered
  <2>3. Once => Once'
    BY <1>1, <2>1 DEF Once, Met, Devices!Addresses
  <2> QED BY <1>1, <2>1, <2>2, <2>3 DEF ScanInv, Complete
<1> QED BY <1>2, <1>3, <1>4, <1>5, <1>6 DEF ScanInv

LEMMA AppendToKeeps ==
    ASSUME ScanInv, NEW table,
           table = [devs EXCEPT ![devaddr].refs = IF at = "append" THEN 1 ELSE @ + 1],
           at = "append" \/ (at = "enumerate" /\ devs[devaddr].refs > 0), Devices!AppendTo(table),
           UNCHANGED <<plugged, next_address, sysfs_can_relate_devices, sysfs_has_descriptors,
                       steady, fell_back, kept>>
    PROVE  ScanInv'
<1>1. /\ discdevs' = Append(discdevs, devaddr) /\ devs' = table
      /\ at' = (IF port # "none" THEN "sysfs" ELSE "busdir")
      /\ UNCHANGED <<buses, entries, port, devaddr, userlist>>
  BY DEF Devices!AppendTo
<1>2. /\ Found /\ Scanning /\ at' \in {"sysfs", "busdir"} /\ devaddr \in Devices!Addresses
      /\ discdevs \in Seq(Devices!Addresses) /\ userlist \in Seq(Devices!Addresses)
  BY <1>1 DEF Found, Scanning, ScanInv, ScanTyped
<1>3. ASSUME NEW a \in Devices!Addresses
      PROVE  /\ table[a] \in [refs : Nat, sysfs_dir : BOOLEAN, dev_descriptor : BOOLEAN]
             /\ table[a].refs = Held(a) + (IF a = devaddr THEN 1 ELSE 0)
             /\ table[a].refs > 0 => devs[a].refs > 0
             /\ table[a].sysfs_dir = devs[a].sysfs_dir
             /\ table[a].dev_descriptor = devs[a].dev_descriptor
  <2>1. devs[a] \in [refs : Nat, sysfs_dir : BOOLEAN, dev_descriptor : BOOLEAN]
    BY DEF ScanInv, ScanTyped, DevTable
  <2>2. devs \in DevTable
    BY DEF ScanInv, ScanTyped
  <2>3. Held(a) \in Nat
    BY <1>2, UsesOfList DEF Held
  <2>4. devs[a].refs = Held(a) + (IF at = "append" /\ devaddr = a THEN 1 ELSE 0)
    BY <1>2 DEF ScanInv, Balanced, Scanning
  <2>5. CASE a # devaddr
    <3>1. table[a] = devs[a]
      BY <1>2, <2>2, <2>5 DEF DevTable
    <3> QED BY <2>1, <2>3, <2>4, <2>5, <3>1
  <2>6. CASE a = devaddr
    <3>1. table[a] = [devs[a] EXCEPT !.refs = IF at = "append" THEN 1 ELSE @ + 1]
      BY <1>2, <2>2, <2>6 DEF DevTable
    <3>2. at = "append" => devs[a].refs = 1
      BY <2>6 DEF ScanInv, Balanced
    <3> QED BY <2>1, <2>3, <2>4, <2>6, <3>1, <3>2
  <2> QED BY <2>5, <2>6
<1>4. table \in DevTable
  <2>1. table = [a \in Devices!Addresses |-> table[a]]
    BY DEF ScanInv, ScanTyped, DevTable
  <2> QED BY <1>3, <2>1 DEF DevTable
<1>5. Listed' = Listed \cup {devaddr} /\ discdevs' \in Seq(Devices!Addresses)
  <2> DEFINE n == Len(discdevs)
             new == Append(discdevs, devaddr)
  <2>1. /\ DOMAIN discdevs = 1..n /\ n \in Nat /\ DOMAIN new = 1..(n + 1) /\ new[n + 1] = devaddr
        /\ \A i \in 1..n : new[i] = discdevs[i]
    BY <1>2
  <2>2. new \in Seq(Devices!Addresses)
    BY <1>2
  <2> HIDE DEF new, n
  <2>3. {new[i] : i \in DOMAIN new} = {discdevs[i] : i \in DOMAIN discdevs} \cup {devaddr}
    BY <2>1
  <2>4. discdevs' = new
    BY <1>1 DEF new
  <2> QED BY <2>2, <2>3, <2>4 DEF Listed
<1>6. ASSUME NEW a \in Devices!Addresses
      PROVE  /\ Devices!Uses(discdevs', a) = Devices!Uses(discdevs, a) + (IF devaddr = a THEN 1 ELSE 0)
             /\ Devices!Uses(discdevs, a) \in Nat /\ Devices!Uses(userlist, a) \in Nat
  BY <1>1, <1>2, UsesAppended, UsesOfList
<1> HIDE DEF Devices!Addresses
<1>7. ScanTyped'
  BY <1>1, <1>2, <1>4, <1>5 DEF ScanInv, ScanTyped, States, Found, InSysfs, InUsbfs, DevTable, Devices!Addresses
<1>8. FlagsKnown'
  BY <1>1, <1>2 DEF ScanInv, FlagsKnown, Found, InUsbfs
<1>9. Readable(devs)'
  <2>1. Readable(table)
    BY <1>3 DEF ScanInv, Readable
  <2> QED BY <1>1, <2>1 DEF Readable, Devices!Addresses
<1>10. Balanced'
  <2>1. ASSUME NEW a \in Devices!Addresses PROVE table[a].refs = Held(a)'
    <3>1. Held(a)' = Devices!Uses(discdevs', a) + Devices!Uses(userlist, a) + (IF kept = a THEN 1 ELSE 0)
      BY <1>1 DEF Held
    <3> QED BY <1>3, <1>6, <3>1 DEF Held
  <2>2. \A a \in Devices!Addresses : devs'[a].refs = Held(a)' /\ at' # "append"
    BY <1>1, <1>2, <2>1
  <2>3. at' # "append"
    BY <1>2
  <2>4. ASSUME NEW a \in Devices!Addresses'
        PROVE  devs'[a].refs = Held(a)' + (IF at' = "append" /\ devaddr' = a THEN 1 ELSE 0)
    <3>1. Held(a)' \in Nat
      BY <1>1, <1>6, <2>4 DEF Held, Devices!Addresses
    <3> QED BY <2>2, <2>3, <2>4, <3>1 DEF Devices!Addresses
  <2> QED BY <2>3, <2>4 DEF Balanced, Devices!Addresses
<1>11. Fresh'
  BY <1>1, <1>2, <1>5 DEF ScanInv, Fresh, Found, InUsbfs, Devices!Present
<1>12. Complete'
  <2>1. ~Found' /\ InSysfs' = InSysfs /\ InUsbfs' = InUsbfs /\ at' # "usbfs"
    BY <1>1, <1>2 DEF Found, InSysfs, InUsbfs
  <2>2. ASSUME NEW a \in steady PROVE Covered(a)'
    <3>1. Covered(a) /\ at \notin {"busnum", "devnum"}
      BY <1>2 DEF ScanInv, Complete, Found
    <3> QED BY <1>1, <1>5, <2>1, <3>1 DEF Covered
  <2>3. Once => Once'
    <3> SUFFICES ASSUME Once PROVE Once'
      OBVIOUS
    <3>1. ASSUME NEW a \in Devices!Addresses PROVE Devices!Uses(discdevs', a) <= 1
      <4>1. Devices!Uses(discdevs, a) <= 1 /\ devaddr \notin Listed
        BY <1>2 DEF Once
      <4>2. a = devaddr => Devices!Uses(discdevs, a) = 0
        BY <1>2, <4>1, UsesOfList DEF Listed
      <4> QED BY <1>6, <4>1, <4>2
    <3>2. Met' = Met
      BY <1>2, <1>5, <2>1 DEF Met
    <3> QED BY <1>1, <1>2, <2>1, <3>1, <3>2 DEF Once, Devices!Addresses, InSysfs, InUsbfs
  <2> QED BY <1>1, <1>2, <2>2, <2>3 DEF ScanInv, Complete, Scanning
<1> QED BY <1>7, <1>8, <1>9, <1>10, <1>11, <1>12 DEF ScanInv

LEMMA AppendKeeps == ASSUME ScanInv, Devices!AppendDevice PROVE ScanInv'
<1>1. /\ at = "append" \/ (at = "enumerate" /\ devs[devaddr].refs > 0)
      /\ UNCHANGED <<plugged, next_address, sysfs_can_relate_devices, sysfs_has_descriptors,
                     steady, fell_back, kept>>
  BY DEF Devices!AppendDevice, Devices!hotplug, Devices!flags
<1>2. CASE Devices!AppendTo([devs EXCEPT ![devaddr].refs = IF at = "append" THEN 1 ELSE @ + 1])
  BY <1>1, <1>2, AppendToKeeps
<1>3. CASE at = "enumerate" /\ Devices!Fail(devs)
  BY <1>1, <1>3, FailAloneKeeps
<1>4. CASE at = "append" /\ Devices!Fail([devs EXCEPT ![devaddr] = Devices!NoDevice])
  <2> DEFINE table == [devs EXCEPT ![devaddr] = Devices!NoDevice]
  <2>1. devaddr \in Devices!Addresses /\ devs \in DevTable /\ Scanning /\ devs[devaddr].refs = 1
    BY <1>4 DEF ScanInv, ScanTyped, Found, Scanning, Balanced
  <2>2. table \in DevTable
    BY <2>1 DEF DevTable, Devices!NoDevice
  <2>3. \A a \in Devices!Addresses : table[a] = IF a = devaddr THEN Devices!NoDevice ELSE devs[a]
    BY <2>1 DEF DevTable
  <2> HIDE DEF table
  <2>4. Readable(table)
    BY <2>3 DEF ScanInv, Readable, Devices!NoDevice
  <2>5. ASSUME NEW a \in Devices!Addresses PROVE table[a].refs = Held(a)
    <3>1. Held(a) \in Nat
      BY UsesOfList DEF ScanInv, ScanTyped, Held
    <3>2. devs[a].refs = Held(a) + (IF devaddr = a THEN 1 ELSE 0)
      BY <1>4 DEF ScanInv, Balanced
    <3>3. Devices!NoDevice.refs = 0
      BY DEF Devices!NoDevice
    <3> QED BY <2>1, <2>3, <3>1, <3>2, <3>3
  <2>6. Devices!Fail(table)
    BY <1>4 DEF table
  <2> QED BY <1>1, <2>1, <2>2, <2>4, <2>5, <2>6, FailKeeps
<1> QED BY <1>1, <1>2, <1>3, <1>4 DEF Devices!AppendDevice

LEMMA InitializeKeeps == ASSUME ScanInv, Devices!InitializeDevice PROVE ScanInv'
<1>1. /\ at = "enumerate" /\ devs[devaddr].refs = 0
      /\ UNCHANGED <<plugged, next_address, sysfs_can_relate_devices, sysfs_has_descriptors,
                     steady, fell_back, kept>>
  BY DEF Devices!InitializeDevice, Devices!hotplug, Devices!flags
<1>2. CASE Devices!Fail(devs)
  BY <1>1, <1>2, FailAloneKeeps
<1>3. ASSUME NEW dev,
             dev = [refs |-> 1, sysfs_dir |-> port # "none",
                    dev_descriptor |-> sysfs_has_descriptors = 0],
             sysfs_has_descriptors = 0 \/ port # "none",
             devs' = [devs EXCEPT ![devaddr] = dev], at' = "append",
             UNCHANGED <<buses, entries, port, devaddr, discdevs, userlist>>
      PROVE  ScanInv'
  <2>1. /\ devaddr \in Devices!Addresses /\ devs \in DevTable /\ Found /\ Found' /\ Scanning
        /\ InSysfs' = InSysfs /\ InUsbfs' = InUsbfs /\ Listed' = Listed /\ Met' = Met
    BY <1>1, <1>3 DEF ScanInv, ScanTyped, Found, InSysfs, InUsbfs, Listed, Met, Scanning
  <2>2. dev \in [refs : Nat, sysfs_dir : BOOLEAN, dev_descriptor : BOOLEAN]
    BY <1>3
  <2>3. /\ dev.refs = 1 /\ dev.sysfs_dir = (port # "none")
        /\ dev.dev_descriptor = (sysfs_has_descriptors = 0)
    BY <1>3
  <2>4. devs' \in DevTable /\ \A a \in Devices!Addresses : devs'[a] = IF a = devaddr THEN dev ELSE devs[a]
    BY <1>3, <2>1, <2>2 DEF DevTable
  <2>5. ScanTyped'
    BY <1>1, <1>3, <2>1, <2>4 DEF ScanInv, ScanTyped, States, DevTable, Devices!Addresses
  <2>6. FlagsKnown'
    BY <1>1, <1>3, <2>1 DEF ScanInv, FlagsKnown
  <2>7. Readable(devs)'
    <3>1. sysfs_has_descriptors \in {0, 1}
      BY <1>1 DEF ScanInv, FlagsKnown
    <3>2. ASSUME NEW a \in Devices!Addresses, devs'[a].refs > 0
          PROVE  IF sysfs_has_descriptors = 1 THEN devs'[a].sysfs_dir ELSE devs'[a].dev_descriptor
      <4>1. CASE a = devaddr
        <5>1. devs'[a] = dev
          BY <2>1, <2>4, <4>1
        <5>2. sysfs_has_descriptors = 1 => dev.sysfs_dir = TRUE
          <6>1. sysfs_has_descriptors = 1 => port # "none"
            BY <1>3
          <6>2. port # "none" => dev.sysfs_dir = TRUE
            BY <2>3, Zenon
          <6> QED BY <6>1, <6>2
        <5>3. sysfs_has_descriptors = 0 => dev.dev_descriptor = TRUE
          BY <2>3
        <5> QED BY <3>1, <5>1, <5>2, <5>3
      <4>2. CASE a # devaddr
        BY <2>4, <3>2, <4>2 DEF ScanInv, Readable
      <4> QED BY <4>1, <4>2
    <3> QED BY <1>1, <3>1, <3>2 DEF Readable, Devices!Addresses
  <2>8. Balanced'
    <3>1. ASSUME NEW a \in Devices!Addresses
          PROVE  devs'[a].refs = Held(a) + (IF devaddr = a THEN 1 ELSE 0)
      <4>1. Held(a) \in Nat
        BY UsesOfList DEF ScanInv, ScanTyped, Held
      <4>2. devs[a].refs = Held(a)
        BY <1>1, <4>1 DEF ScanInv, Balanced
      <4> QED BY <1>1, <2>3, <2>4, <4>1, <4>2
    <3>2. devs'[devaddr].refs = 1
      BY <2>1, <2>3, <2>4
    <3> QED BY <1>1, <1>3, <3>1, <3>2 DEF Balanced, Held, Devices!Addresses
  <2>9. Fresh'
    BY <1>1, <1>3, <2>1 DEF ScanInv, Fresh, Devices!Present
  <2>10. Complete'
    <3>1. Once => Once'
      BY <1>1, <1>3, <2>1 DEF Once, Devices!Addresses
    <3>2. ASSUME NEW a \in steady, Covered(a) PROVE Covered(a)'
      BY <1>1, <1>3, <2>1, <3>2 DEF Covered
    <3> QED BY <1>1, <2>1, <3>1, <3>2 DEF ScanInv, Complete
  <2> QED BY <2>5, <2>6, <2>7, <2>8, <2>9, <2>10 DEF ScanInv
<1> QED BY <1>1, <1>2, <1>3 DEF Devices!InitializeDevice, Devices!list

LEMMA FreeListKeeps ==
    ASSUME ScanInv, NEW keep \in 0..MaxAddress, Devices!FreeList(keep)
    PROVE  ScanInv'
<1> DEFINE table == IF keep = 0 THEN devs ELSE [devs EXCEPT ![keep].refs = @ + 1]
<1>1. /\ at = "idle" /\ userlist' = <<>> /\ kept' = (IF keep = 0 THEN kept ELSE keep)
      /\ keep = 0 \/ (kept = 0 /\ Devices!Uses(userlist, keep) > 0)
      /\ devs' = Devices!Unref(table, userlist)
      /\ UNCHANGED <<plugged, next_address, sysfs_can_relate_devices, sysfs_has_descriptors, at,
                     buses, entries, port, devaddr, discdevs, steady, fell_back>>
  BY DEF Devices!FreeList, Devices!hotplug, Devices!flags, Devices!list
<1>2. /\ devs \in DevTable /\ discdevs = <<>> /\ userlist \in Seq(Devices!Addresses)
      /\ keep # 0 => keep \in Devices!Addresses
  BY <1>1, DevicesAssumption DEF ScanInv, ScanTyped, Devices!Addresses
<1>3. ASSUME NEW a \in Devices!Addresses
      PROVE  /\ devs[a] \in [refs : Nat, sysfs_dir : BOOLEAN, dev_descriptor : BOOLEAN]
             /\ Devices!Uses(userlist, a) \in Nat
             /\ devs[a].refs = Devices!Uses(userlist, a) + (IF kept = a THEN 1 ELSE 0)
  <2>1. Devices!Uses(userlist, a) \in Nat /\ Devices!Uses(<<>>, a) = 0
    BY <1>2, UsesOfList, UsesOfNone
  <2>2. devs[a].refs = Held(a) + (IF at = "append" /\ devaddr = a THEN 1 ELSE 0)
    BY <1>1 DEF ScanInv, Balanced
  <2>3. Held(a) = Devices!Uses(<<>>, a) + Devices!Uses(userlist, a) + (IF kept = a THEN 1 ELSE 0)
    BY <1>2 DEF Held
  <2>4. devs[a] \in [refs : Nat, sysfs_dir : BOOLEAN, dev_descriptor : BOOLEAN]
    BY <1>2 DEF DevTable
  <2> QED BY <1>1, <2>1, <2>2, <2>3, <2>4
<1>4. ASSUME NEW a \in Devices!Addresses
      PROVE  /\ table[a] \in [refs : Nat, sysfs_dir : BOOLEAN, dev_descriptor : BOOLEAN]
             /\ table[a].refs = Devices!Uses(userlist, a) + (IF kept' = a THEN 1 ELSE 0)
             /\ table[a].refs > 0 => devs[a].refs > 0
             /\ table[a].sysfs_dir = devs[a].sysfs_dir
             /\ table[a].dev_descriptor = devs[a].dev_descriptor
  <2>1. CASE keep = 0
    <3>1. table = devs /\ kept' = kept
      BY <1>1, <2>1
    <3> HIDE DEF table
    <3> QED BY <1>3, <3>1
  <2>2. CASE keep # a /\ keep # 0
    <3>1. table[a] = devs[a]
      BY <1>2, <2>2 DEF DevTable
    <3>2. kept' # a /\ kept # a
      BY <1>1, <2>2, DevicesAssumption DEF Devices!Addresses
    <3> HIDE DEF table
    <3> QED BY <1>3, <3>1, <3>2
  <2>3. CASE keep = a /\ keep # 0
    <3>1. table[a] = [devs[a] EXCEPT !.refs = @ + 1]
      BY <1>2, <2>3 DEF DevTable
    <3>2. kept' = a /\ kept # a /\ Devices!Uses(userlist, a) > 0
      BY <1>1, <2>3
    <3> HIDE DEF table
    <3> QED BY <1>3, <3>1, <3>2
  <2> QED BY <2>1, <2>2, <2>3
<1>5. table \in DevTable
  <2>1. table = [a \in Devices!Addresses |-> table[a]]
    BY <1>2 DEF DevTable
  <2> HIDE DEF table
  <2> QED BY <1>4, <2>1 DEF DevTable
<1> HIDE DEF table
<1>6. Readable(table)
  BY <1>4 DEF ScanInv, Readable
<1>7. \A a \in Devices!Addresses : table[a].refs >= Devices!Uses(userlist, a)
  BY <1>3, <1>4
<1>8. /\ devs' \in DevTable /\ Readable(Devices!Unref(table, userlist))
      /\ \A a \in Devices!Addresses : devs'[a].refs = table[a].refs - Devices!Uses(userlist, a)
  BY <1>1, <1>2, <1>5, <1>6, <1>7, Unreferenced
<1>9. ScanTyped'
  BY <1>1, <1>2, <1>8, DevicesAssumption
     DEF ScanInv, ScanTyped, States, DevTable, Devices!Addresses, Found, InSysfs, InUsbfs
<1>10. Readable(devs)'
  BY <1>1, <1>8 DEF Readable, Devices!Addresses
<1>11. Balanced'
  <2>1. ASSUME NEW a \in Devices!Addresses PROVE devs'[a].refs = Held(a)'
    <3>1. devs'[a].refs = IF kept' = a THEN 1 ELSE 0
      BY <1>3, <1>4, <1>8
    <3>2. Held(a)' = Devices!Uses(<<>>, a) + Devices!Uses(<<>>, a) + (IF kept' = a THEN 1 ELSE 0)
      BY <1>1, <1>2 DEF Held
    <3> QED BY <3>1, <3>2, UsesOfNone
  <2>2. \A a \in Devices!Addresses : Held(a)' \in Nat
    BY <1>1, <1>2, UsesOfNone DEF Held
  <2> QED BY <1>1, <2>1, <2>2 DEF Balanced, Devices!Addresses
<1>12. FlagsKnown' /\ Fresh' /\ Complete'
  BY <1>1 DEF ScanInv, FlagsKnown, Fresh, Complete, Scanning, Listed, Found, InSysfs, InUsbfs,
              Devices!Present
<1> QED BY <1>9, <1>10, <1>11, <1>12 DEF ScanInv

LEMMA UnrefKeptKeeps == ASSUME ScanInv, Devices!UnrefKept PROVE ScanInv'
<1> DEFINE one == <<kept>>
<1>1. /\ at = "idle" /\ kept # 0 /\ kept' = 0 /\ devs' = Devices!Unref(devs, one)
      /\ UNCHANGED <<plugged, next_address, sysfs_can_relate_devices, sysfs_has_descriptors, at,
                     buses, entries, port, devaddr, discdevs, steady, fell_back, userlist>>
  BY DEF Devices!UnrefKept, Devices!hotplug, Devices!flags, Devices!list
<1>2. devs \in DevTable /\ kept \in Devices!Addresses /\ one \in Seq(Devices!Addresses)
  BY <1>1, DevicesAssumption DEF ScanInv, ScanTyped, Devices!Addresses
<1>3. \A a : Devices!Uses(one, a) = IF kept = a THEN 1 ELSE 0
  BY UsesOfOne
<1> HIDE DEF one
<1> DEFINE held(a) == Devices!Uses(discdevs, a) + Devices!Uses(userlist, a)
<1>4. ASSUME NEW a \in Devices!Addresses
      PROVE  held(a) \in Nat /\ devs[a].refs = held(a) + Devices!Uses(one, a)
  <2>1. Devices!Uses(discdevs, a) \in Nat /\ Devices!Uses(userlist, a) \in Nat
    BY UsesOfList DEF ScanInv, ScanTyped
  <2>2. devs[a].refs = Held(a) + (IF at = "append" /\ devaddr = a THEN 1 ELSE 0)
    BY <1>1 DEF ScanInv, Balanced
  <2> QED BY <1>1, <1>3, <2>1, <2>2 DEF Held
<1>5. \A a \in Devices!Addresses : devs[a].refs >= Devices!Uses(one, a)
  <2>1. \A a \in Devices!Addresses : Devices!Uses(one, a) \in Nat
    BY <1>3
  <2> HIDE DEF held
  <2> QED BY <1>4, <2>1
<1>6. /\ devs' \in DevTable /\ Readable(Devices!Unref(devs, one))
      /\ \A a \in Devices!Addresses : devs'[a].refs = devs[a].refs - Devices!Uses(one, a)
  BY <1>1, <1>2, <1>5, Unreferenced DEF ScanInv
<1>7. ScanTyped'
  BY <1>1, <1>6, DevicesAssumption
     DEF ScanInv, ScanTyped, States, DevTable, Devices!Addresses, Found, InSysfs, InUsbfs
<1>8. Readable(devs)'
  BY <1>1, <1>6 DEF Readable, Devices!Addresses
<1>9. Balanced'
  <2>1. ASSUME NEW a \in Devices!Addresses PROVE devs'[a].refs = Held(a)' /\ Held(a)' \in Nat
    <3>1. Held(a)' = held(a) + (IF 0 = a THEN 1 ELSE 0) /\ a # 0
      BY <1>1, DevicesAssumption DEF Held, Devices!Addresses
    <3>2. Devices!Uses(one, a) \in Nat
      BY <1>3
    <3> HIDE DEF held
    <3> QED BY <1>4, <1>6, <3>1, <3>2
  <2> QED BY <1>1, <2>1 DEF Balanced, Devices!Addresses
<1>10. FlagsKnown' /\ Fresh' /\ Complete'
  BY <1>1 DEF ScanInv, FlagsKnown, Fresh, Complete, Scanning, Listed, Found, InSysfs, InUsbfs,
              Devices!Present
<1> QED BY <1>7, <1>8, <1>9, <1>10 DEF ScanInv

\* Ports change under the scan; what it has not come to is still to be found.
LEMMA PlugKeeps == ASSUME ScanInv, NEW p \in Ports, Devices!Plug(p) PROVE ScanInv'
<1>1. /\ plugged[p] = 0 /\ next_address <= MaxAddress /\ next_address' = next_address + 1
      /\ plugged' = [plugged EXCEPT ![p] = next_address]
      /\ UNCHANGED <<sysfs_can_relate_devices, sysfs_has_descriptors, devs, at, buses, entries,
                     port, devaddr, discdevs, steady, fell_back, userlist, kept>>
  BY DEF Devices!Plug, Devices!flags, Devices!user, Devices!list
<1>2. /\ next_address \in Nat /\ next_address > 0 /\ plugged \in [Ports -> 0..MaxAddress]
      /\ \A q \in Ports : plugged'[q] = IF q = p THEN next_address ELSE plugged[q]
  BY <1>1, DevicesAssumption DEF ScanInv, ScanTyped
<1>3. /\ Found' = Found /\ InSysfs' = InSysfs /\ InUsbfs' = InUsbfs /\ Listed' = Listed
      /\ Scanning' = Scanning /\ Met' = Met
  BY <1>1 DEF Found, InSysfs, InUsbfs, Listed, Scanning, Met
<1>4. ScanTyped'
  <2>1. plugged' \in [Ports -> 0..MaxAddress] /\ next_address' \in 1..(MaxAddress + 1)
    BY <1>1, <1>2, DevicesAssumption
  <2> QED BY <1>1, <1>3, <2>1 DEF ScanInv, ScanTyped, DevTable, Devices!Addresses
<1>5. FlagsKnown' /\ Readable(devs)'
  BY <1>1, <1>3 DEF ScanInv, FlagsKnown, Readable, Devices!Addresses
<1>6. Balanced'
  BY <1>1 DEF ScanInv, Balanced, Held, Devices!Addresses
<1>7. Listed \subseteq Nat /\ (Found => devaddr \in Nat) /\ (InUsbfs => entries \subseteq Nat)
  <2>1. \A i \in DOMAIN discdevs : discdevs[i] \in Devices!Addresses
    BY DEF ScanInv, ScanTyped
  <2>2. Devices!Addresses \subseteq Nat
    BY DEF Devices!Addresses
  <2> QED BY <2>1, <2>2 DEF ScanInv, ScanTyped, Listed
<1>8. Fresh'
  <2>1. Devices!Present \subseteq Devices!Present'
    BY <1>1, <1>2 DEF Devices!Present
  <2>2. \A q \in Ports : plugged'[q] < next_address' /\ (q # p => plugged'[q] < next_address)
    BY <1>1, <1>2 DEF ScanInv, Fresh
  <2>3. \A q, r \in Ports : plugged'[q] = plugged'[r] /\ plugged'[q] # 0 => q = r
    BY <1>2, <2>2 DEF ScanInv, Fresh
  <2> QED BY <1>1, <1>2, <1>3, <1>7, <2>1, <2>2, <2>3 DEF ScanInv, Fresh
<1>9. Complete'
  <2>1. ASSUME NEW a \in steady, Covered(a) PROVE Covered(a)'
    <3>1. a # 0 /\ a # next_address /\ \A q \in Ports : plugged[q] = a => plugged'[q] = a
      BY <1>1, <1>2 DEF ScanInv, Fresh, Devices!Present
    <3> QED BY <1>1, <1>3, <2>1, <3>1 DEF Covered, ScanInv, ScanTyped
  <2>2. next_address \notin Met /\ (InUsbfs => next_address \notin entries)
    BY <1>2, <1>7 DEF ScanInv, Fresh, Met
  <2>3. ASSUME Once, Scanning PROVE Once'
    <3>1. \A a \in Devices!Addresses : Devices!Uses(discdevs, a)' <= 1
      BY <1>1, <2>3 DEF Once
    <3>2. Found' => (devaddr \notin Listed)'
      BY <1>1, <1>3, <2>3 DEF Once
    <3>3. InSysfs' => (\A q \in entries : plugged[q] \notin Met)'
      BY <1>1, <1>2, <1>3, <2>2, <2>3 DEF Once, ScanInv, ScanTyped
    <3>4. at \in {"busnum", "devnum"} => plugged'[port] \notin Listed /\ port \notin entries
      BY <1>2, <2>2, <2>3 DEF Once, ScanInv, ScanTyped, Met, Found
    <3>5. InUsbfs' => /\ (entries \cap Met)' = {}
                      /\ (\A q \in Ports : Bus[q] \in buses => plugged[q] \notin Met \cup entries)'
      BY <1>1, <1>2, <1>3, <2>2, <2>3 DEF Once
    <3> QED BY <1>1, <1>3, <3>1, <3>2, <3>3, <3>4, <3>5 DEF Once, Devices!Addresses
  <2> QED BY <1>1, <1>3, <2>1, <2>3 DEF ScanInv, Complete
<1> QED BY <1>4, <1>5, <1>6, <1>8, <1>9 DEF ScanInv

LEMMA UnplugPortKeeps == ASSUME ScanInv, NEW p \in Ports, Devices!Unplug(p) PROVE ScanInv'
<1>1. /\ plugged[p] # 0 /\ steady' = steady \ {plugged[p]}
      /\ plugged' = [plugged EXCEPT ![p] = 0]
      /\ UNCHANGED <<next_address, sysfs_can_relate_devices, sysfs_has_descriptors, devs, at, buses,
                     entries, port, devaddr, discdevs, fell_back, userlist, kept>>
  BY DEF Devices!Unplug, Devices!flags, Devices!user, Devices!list
<1>2. /\ plugged \in [Ports -> 0..MaxAddress] /\ next_address \in Nat /\ next_address > 0
      /\ \A q \in Ports : plugged'[q] = IF q = p THEN 0 ELSE plugged[q]
  BY <1>1, DevicesAssumption DEF ScanInv, ScanTyped
<1>3. /\ Found' = Found /\ InSysfs' = InSysfs /\ InUsbfs' = InUsbfs /\ Listed' = Listed
      /\ Scanning' = Scanning /\ Met' = Met
  BY <1>1 DEF Found, InSysfs, InUsbfs, Listed, Scanning, Met
<1>4. ScanTyped'
  <2>1. plugged' \in [Ports -> 0..MaxAddress]
    BY <1>1, <1>2, DevicesAssumption
  <2> QED BY <1>1, <1>3, <2>1 DEF ScanInv, ScanTyped, DevTable, Devices!Addresses
<1>5. FlagsKnown' /\ Readable(devs)'
  BY <1>1, <1>3 DEF ScanInv, FlagsKnown, Readable, Devices!Addresses
<1>6. Balanced'
  BY <1>1 DEF ScanInv, Balanced, Held, Devices!Addresses
<1>7. 0 \notin Met /\ (InUsbfs => 0 \notin entries)
  <2>1. \A i \in DOMAIN discdevs : discdevs[i] \in Devices!Addresses
    BY DEF ScanInv, ScanTyped
  <2>2. 0 \notin Devices!Addresses
    BY DevicesAssumption DEF Devices!Addresses
  <2> QED BY <2>1, <2>2 DEF ScanInv, ScanTyped, Met, Listed
<1>8. Fresh'
  <2>1. steady' \subseteq Devices!Present'
    <3>1. ASSUME NEW a \in steady' PROVE a \in Devices!Present'
      <4>1. PICK q \in Ports : plugged[q] = a
        BY <1>1, <3>1 DEF ScanInv, Fresh, Devices!Present
      <4>2. a # 0 /\ q # p
        BY <1>1, <3>1, <4>1 DEF ScanInv, Fresh, Devices!Present
      <4> QED BY <1>2, <4>1, <4>2 DEF Devices!Present
    <3> QED BY <3>1
  <2>2. \A q \in Ports : plugged'[q] < next_address'
    BY <1>1, <1>2 DEF ScanInv, Fresh
  <2>3. \A q, r \in Ports : plugged'[q] = plugged'[r] /\ plugged'[q] # 0 => q = r
    BY <1>2 DEF ScanInv, Fresh
  <2> QED BY <1>1, <1>3, <2>1, <2>2, <2>3 DEF ScanInv, Fresh
<1>9. Complete'
  <2>1. ASSUME NEW a \in steady', Covered(a) PROVE Covered(a)'
    <3>1. a # plugged[p] /\ \A q \in Ports : plugged[q] = a => plugged'[q] = a
      BY <1>1, <1>2
    <3> QED BY <1>1, <1>3, <2>1, <3>1 DEF Covered, ScanInv, ScanTyped
  <2>2. ASSUME Once, Scanning PROVE Once'
    <3>1. \A a \in Devices!Addresses : Devices!Uses(discdevs, a)' <= 1
      BY <1>1, <2>2 DEF Once
    <3>2. Found' => (devaddr \notin Listed)'
      BY <1>1, <1>3, <2>2 DEF Once
    <3>3. InSysfs' => (\A q \in entries : plugged[q] \notin Met)'
      BY <1>1, <1>2, <1>3, <1>7, <2>2 DEF Once, ScanInv, ScanTyped
    <3>4. at \in {"busnum", "devnum"} => plugged'[port] \notin Listed /\ port \notin entries
      BY <1>2, <1>7, <2>2 DEF Once, ScanInv, ScanTyped, Met
    <3>5. InUsbfs' => /\ (entries \cap Met)' = {}
                      /\ (\A q \in Ports : Bus[q] \in buses => plugged[q] \notin Met \cup entries)'
      BY <1>1, <1>2, <1>3, <1>7, <2>2 DEF Once
    <3> QED BY <1>1, <1>3, <3>1, <3>2, <3>3, <3>4, <3>5 DEF Once, Devices!Addresses
  <2> QED BY <1>1, <1>3, <2>1, <2>2 DEF ScanInv, Complete
<1> QED BY <1>4, <1>5, <1>6, <1>8, <1>9 DEF ScanInv

LEMMA ScanKeeps == ASSUME ScanInv, Devices!Next PROVE ScanInv'
<1>1. CASE \/ Devices!GetDeviceList \/ Devices!OpenBusnum \/ Devices!ReadDevnum
           \/ Devices!EndOfDirectory
  BY <1>1, GetListKeeps, BusnumKeeps, DevnumKeeps, EndKeeps
<1>2. CASE Devices!AppendDevice \/ Devices!InitializeDevice \/ Devices!UnrefKept
  BY <1>2, AppendKeeps, InitializeKeeps, UnrefKeptKeeps
<1>3. ASSUME NEW p \in Ports, Devices!CheckDescriptors(p) \/ Devices!Plug(p) \/ Devices!Unplug(p)
      PROVE  ScanInv'
  BY <1>3, CheckKeeps, PlugKeeps, UnplugPortKeeps
<1>4. ASSUME NEW b, Devices!OpenBusdir(b) PROVE ScanInv'
  BY <1>4, BusdirKeeps
<1>5. ASSUME NEW a \in Devices!Addresses, Devices!NextOnBus(a) PROVE ScanInv'
  BY <1>5, NextOnBusKeeps
<1>6. ASSUME NEW keep \in 0..MaxAddress, Devices!FreeList(keep) PROVE ScanInv'
  BY <1>6, FreeListKeeps
<1> QED BY <1>1, <1>2, <1>3, <1>4, <1>5, <1>6 DEF Devices!Next

-----------------------------------------------------------------------------
(* Enumeration: where the list is                                          *)

\* The caller's pointer is stale only while a directory of usbfs is read, or
\* after that has failed.
Moved ==
    caller # block => port = "none" /\ at \in {"busdir", "enumerate", "append", "undefined"}

LEMMA MovedInit == Devices!Init => Moved
BY DEF Devices!Init, Moved

LEMMA FailMoves == ASSUME Moved, NEW table, Devices!Fail(table) PROVE Moved'
BY DEF Moved, Devices!Fail

LEMMA MovedKeeps == ASSUME Moved, Devices!Next PROVE Moved'
<1>1. CASE Devices!GetDeviceList \/ Devices!EndOfDirectory
  BY <1>1 DEF Moved, Devices!GetDeviceList, Devices!EndOfDirectory, Devices!list
<1>2. CASE \/ \E p \in Ports : Devices!CheckDescriptors(p)
           \/ \E a \in Devices!Addresses : Devices!NextOnBus(a)
           \/ Devices!OpenBusnum
  BY <1>2 DEF Moved, Devices!CheckDescriptors, Devices!NextOnBus, Devices!OpenBusnum,
              Devices!list
<1>3. CASE Devices!ReadDevnum \/ \E b \in {Bus[p] : p \in Ports} : Devices!OpenBusdir(b)
  BY <1>3, FailMoves DEF Moved, Devices!ReadDevnum, Devices!OpenBusdir, Devices!list
<1>4. CASE Devices!InitializeDevice
  BY <1>4, FailMoves DEF Moved, Devices!InitializeDevice, Devices!list
<1>5. CASE Devices!AppendDevice
  <2>1. ASSUME NEW table, Devices!AppendTo(table) PROVE Moved'
    BY <2>1 DEF Moved, Devices!AppendTo
  <2> QED BY <1>5, <2>1, FailMoves DEF Devices!AppendDevice
<1>6. CASE \/ Devices!UnrefKept \/ \E keep \in 0..MaxAddress : Devices!FreeList(keep)
           \/ \E p \in Ports : Devices!Plug(p) \/ Devices!Unplug(p)
  BY <1>6 DEF Moved, Devices!UnrefKept, Devices!FreeList, Devices!Plug, Devices!Unplug,
              Devices!list
<1> QED BY <1>1, <1>2, <1>3, <1>4, <1>5, <1>6 DEF Devices!Next

-----------------------------------------------------------------------------
(* The whole                                                               *)

BackendInv ==
    /\ part = "devices" => ScanInv /\ Moved
    /\ part = "config" => ConfigInv
    /\ part = "claims" => ClaimsInv

\* What is proved of each part holds of every behaviour.
LEMMA BackendInvariant == Spec => []BackendInv
<1>1. Init => BackendInv
  BY ScanInit, MovedInit, ConfigInit, ClaimsInit, ClaimsAssumption DEF Init, BackendInv
<1>2. BackendInv /\ [Next]_vars => BackendInv'
  <2> SUFFICES ASSUME BackendInv, [Next]_vars PROVE BackendInv'
    OBVIOUS
  <2>1. CASE part = "devices" /\ Devices!Next /\ UNCHANGED part
    BY <2>1, ScanKeeps, MovedKeeps DEF BackendInv
  <2>2. CASE part = "config" /\ Config!Next /\ UNCHANGED part
    BY <2>2, ConfigKeeps DEF BackendInv
  <2>3. CASE part = "claims" /\ Claims!Next /\ UNCHANGED part
    BY <2>3, ClaimsKeep DEF BackendInv
  <2>4. CASE UNCHANGED vars
    <3>1. UNCHANGED <<part, flags, devicesOnly, configOnly, claimsOnly, attached, at, call>>
      BY <2>4 DEF vars
    <3>2. ScanInv => ScanInv'
      BY <3>1 DEF flags, devicesOnly, ScanInv, ScanTyped, FlagsKnown, Readable, Balanced, Fresh,
                  Complete, Covered, Once, Met, Held, Found, InSysfs, InUsbfs, Scanning, Listed,
                  DevTable, Devices!Addresses, Devices!Present
    <3>3. ConfigInv => ConfigInv'
      BY <3>1 DEF flags, configOnly, ConfigInv, Config!Configurations
    <3>4. ClaimsInv => ClaimsInv'
      BY <3>1 DEF claimsOnly, ClaimsInv, Claims!TypeOK, Claims!ClaimsAgree
    <3>5. Moved => Moved'
      BY <3>1 DEF devicesOnly, Moved
    <3> QED BY <3>1, <3>2, <3>3, <3>4, <3>5 DEF BackendInv
  <2> QED BY <2>1, <2>2, <2>3, <2>4 DEF Next
<1> QED BY <1>1, <1>2, PTL DEF Spec

\* What the core remembers as claimed is what the kernel holds for the handle and
\* what it took away behind the core's back, by a reset, a detached driver or the
\* end of the device; no claim is left that no handle could release.
THEOREM ClaimsAlwaysAgree == Spec => []ClaimsAgree
<1>1. BackendInv => ClaimsAgree
  BY DEF BackendInv, ClaimsInv, ClaimsAgree
<1> QED BY <1>1, BackendInvariant, PTL

\* The configuration that the backend remembers of a device is the active one,
\* as long as the program alone sets configurations and may do so, and the last
\* attempt to learn it did not fail, which the backend logs.
THEOREM CacheAlwaysFollows == Spec => []CacheFollows
<1>1. BackendInv => CacheFollows
  BY DEF BackendInv, ConfigInv, CacheFollows, Config!CacheFollows
<1> QED BY <1>1, BackendInvariant, PTL

\* Whatever fails in a scan and whatever comes and goes on the bus, the count
\* of each device is the number of references to it: a list's, the program's,
\* and the one of the device that is being set up.  A list is lost, and its
\* references with it, only if the reading of a usbfs directory fails after it
\* has moved the list.
THEOREM ReferencesBalance == Spec => []RefsBalanced
<1>1. BackendInv => RefsBalanced
  <2> SUFFICES ASSUME part = "devices", ScanInv, Moved PROVE Devices!RefsBalanced
    BY DEF BackendInv, RefsBalanced
  <2>1. discdevs \o userlist = IF at = "idle" THEN userlist ELSE discdevs
    BY DEF ScanInv, ScanTyped
  <2>2. ASSUME NEW a \in Devices!Addresses
        PROVE  Held(a) = Devices!Uses(discdevs \o userlist, a) + (IF kept = a THEN 1 ELSE 0)
    <3>1. /\ Devices!Uses(discdevs, a) \in Nat /\ Devices!Uses(userlist, a) \in Nat
          /\ Devices!Uses(<<>>, a) = 0
      BY UsesOfList, UsesOfNone DEF ScanInv, ScanTyped
    <3>2. CASE at = "idle"
      <4>1. discdevs = <<>> /\ discdevs \o userlist = userlist
        BY <2>1, <3>2 DEF ScanInv, ScanTyped
      <4> QED BY <3>1, <4>1 DEF Held
    <3>3. CASE at # "idle"
      <4>1. userlist = <<>> /\ discdevs \o userlist = discdevs
        BY <2>1, <3>3 DEF ScanInv, ScanTyped
      <4> QED BY <3>1, <4>1 DEF Held
    <3> QED BY <3>2, <3>3
  <2>3. at = "idle" => discdevs = <<>>
    BY DEF ScanInv, ScanTyped
  <2> QED BY <2>2, <2>3 DEF ScanInv, Balanced, Moved, Devices!RefsBalanced
<1> QED BY <1>1, BackendInvariant, PTL

\* No device is set up before the first scan found out what the kernel can do,
\* and each device set up can deliver its descriptor.
THEOREM DescriptorsAreReadable == Spec => []DescriptorsReadable
<1>1. BackendInv => DescriptorsReadable
  BY DEF BackendInv, ScanInv, FlagsKnown, Readable, DescriptorsReadable, Devices!DescriptorsReadable
<1> QED BY <1>1, BackendInvariant, PTL

\* A scan that succeeds missed no device that stayed plugged, and lists none
\* twice, although devices came and went while it read directory by directory.
THEOREM ListsAreComplete == Spec => ListIsComplete
<1>1. BackendInv => (part = "devices" => Devices!ListedWhole)
  <2> SUFFICES ASSUME ScanInv, Devices!EndOfDirectory, at' = "idle"
               PROVE  /\ steady \subseteq {userlist'[i] : i \in DOMAIN userlist'}
                      /\ fell_back \/ \A a \in Devices!Addresses : Devices!Uses(userlist', a) <= 1
    BY DEF BackendInv, Devices!ListedWhole
  <2>1. /\ entries = {} /\ userlist' = discdevs /\ Scanning /\ ~Found
        /\ ((InSysfs /\ ~InUsbfs) \/ (~InSysfs /\ InUsbfs /\ buses = {})) /\ at \notin {"busnum", "devnum"}
    BY DEF Devices!EndOfDirectory, Scanning, Found, InSysfs, InUsbfs
  <2>2. ASSUME NEW a \in steady PROVE a \in Listed
    BY <2>1 DEF ScanInv, Complete, Covered
  <2>3. ~fell_back => \A a \in Devices!Addresses : Devices!Uses(discdevs, a) <= 1
    BY <2>1 DEF ScanInv, Complete, Once
  <2> QED BY <2>1, <2>2, <2>3 DEF Listed
<1> QED BY <1>1, BackendInvariant, PTL DEF Spec, ListIsComplete
=============================================================================
