------------------------------ MODULE LinuxConfig ------------------------------
(***************************************************************************)
(* The configurations of one open device in the Linux backend              *)
(* (linux_usbfs.c).  Where the kernel's sysfs shows descriptors the active *)
(* one is looked up there, in two reads between which another program may  *)
(* change it; otherwise a copy is kept, filled when the device is found    *)
(* and when its configuration is set.                                      *)
(***************************************************************************)
EXTENDS Integers, Sequences

CONSTANTS
    Values          \* bConfigurationValue of the configurations, by index

VARIABLES
    sysfs_has_descriptors, sysfs_can_relate_devices,
    all_configs,    \* the kernel shows every configuration, not the active only
    writable,       \* the node in usbfs opens for writing
    attached,
    active,         \* the kernel's configuration, 0 when unconfigured
    foreign,        \* another program has set it
    config_descriptor,  \* value of the cached descriptor, 0 for NULL
    at, config,     \* where a call is and the configuration it works with
    fd_lost,        \* the descriptor of a file was left open
    logged,         \* the last attempt to learn the active one failed: only logged
    call            \* the last call that returned: name, result, value

kernel == <<sysfs_has_descriptors, sysfs_can_relate_devices, all_configs, writable>>
vars == <<kernel, attached, active, foreign, config_descriptor, at, config, fd_lost,
          logged, call>>

Configurations == {Values[i] : i \in DOMAIN Values}
Returns(name, r, value) == call' = [name |-> name, r |-> r, value |-> value]

Init ==
    /\ sysfs_has_descriptors \in {0, 1} /\ sysfs_can_relate_devices \in {0, 1}
    /\ sysfs_has_descriptors = 1 => sysfs_can_relate_devices = 1
    /\ all_configs \in BOOLEAN /\ writable \in BOOLEAN
    /\ attached = TRUE /\ active \in Configurations \cup {0}
    /\ foreign = FALSE /\ config_descriptor = 0 /\ at = "unknown" /\ config = 0 /\ fd_lost = FALSE
    /\ logged = FALSE
    /\ call = [name |-> "none", r |-> "OK", value |-> 0]

\* The part of initialize_device about the configuration: sysfs tells which
\* one is active, or else the device, unless the node is read-only: then the
\* first one is assumed, whatever sysfs said.  A device that does not answer is
\* taken to be unconfigured.  Any other failure is the scan's: no device.
CacheAtStart ==
    /\ at = "unknown" /\ at' = "idle"
    /\ \/ sysfs_has_descriptors = 1 /\ config_descriptor' = 0 /\ logged' = FALSE
       \/ /\ sysfs_has_descriptors = 0 /\ attached /\ ~writable /\ logged' = FALSE
          /\ config_descriptor' =
               IF sysfs_can_relate_devices = 1 /\ active = 0 THEN 0 ELSE Values[1]
       \/ /\ sysfs_has_descriptors = 0 /\ attached /\ writable
          /\ config_descriptor' = active /\ logged' = FALSE
       \/ /\ sysfs_has_descriptors = 0 /\ attached /\ writable
          /\ sysfs_can_relate_devices = 0 /\ config_descriptor' = 0 /\ logged' = TRUE
    /\ UNCHANGED <<kernel, attached, active, foreign, config, fd_lost, call>>

-----------------------------------------------------------------------------
(* op_get_active_config_descriptor *)

GetCached ==
    /\ at = "idle" /\ sysfs_has_descriptors = 0
    /\ Returns("get_active_config_descriptor",
               IF config_descriptor = 0 THEN "NOT_FOUND" ELSE "OK", config_descriptor)
    /\ UNCHANGED <<kernel, attached, active, foreign, config_descriptor, at, config, fd_lost,
                   logged>>

\* sysfs_get_active_config: bConfigurationValue.
ReadActive ==
    /\ at = "idle" /\ sysfs_has_descriptors = 1
    /\ IF attached /\ active # 0
       THEN at' = "seek" /\ config' = active /\ UNCHANGED call
       ELSE /\ Returns("get_active_config_descriptor",
                       IF attached THEN "NOT_FOUND" ELSE "IO", 0)
            /\ UNCHANGED <<at, config>>
    /\ UNCHANGED <<kernel, attached, active, foreign, config_descriptor, fd_lost, logged>>

\* What the descriptors file shows after the device descriptor.
Shown == IF all_configs THEN Configurations ELSE {active} \ {0}

\* The search in the file, which opens only while the device is there.  Past
\* the last configuration the read is short, and the file is left open.
SeekActive ==
    /\ at = "seek" /\ at' = "idle"
    /\ IF ~attached
       THEN Returns("get_active_config_descriptor", "IO", 0) /\ UNCHANGED fd_lost
       ELSE IF Shown = {}
       THEN Returns("get_active_config_descriptor", "NOT_FOUND", 0) /\ UNCHANGED fd_lost
       ELSE IF config \in Shown
       THEN Returns("get_active_config_descriptor", "OK", config) /\ UNCHANGED fd_lost
       ELSE Returns("get_active_config_descriptor", "IO", 0) /\ fd_lost' = TRUE
    /\ UNCHANGED <<kernel, attached, active, foreign, config_descriptor, config, logged>>

-----------------------------------------------------------------------------
(* op_get_config_descriptor, op_get_configuration, op_set_configuration *)

GetConfigDescriptor(i) ==
    /\ at = "idle"
    /\ IF attached /\ i \in DOMAIN Values
       THEN Returns("get_config_descriptor", "OK", Values[i])
       ELSE Returns("get_config_descriptor", "IO", 0)
    /\ UNCHANGED <<kernel, attached, active, foreign, config_descriptor, at, config, fd_lost,
                   logged>>

\* The result of sysfs_get_active_config is not looked at.
GetConfiguration(before) ==
    /\ at = "idle"
    /\ IF sysfs_can_relate_devices = 1
       THEN Returns("get_configuration", "OK", IF attached THEN active ELSE before)
       ELSE Returns("get_configuration", "NOT_SUPPORTED", before)
    /\ UNCHANGED <<kernel, attached, active, foreign, config_descriptor, at, config, fd_lost,
                   logged>>

\* The ioctl: the kernel refuses what the device has not; -1 and 0 unconfigure.
SetConfiguration(value) ==
    /\ at = "idle" /\ writable
    /\ \/ /\ attached /\ value \in Configurations \cup {-1, 0}
          /\ active' = IF value = -1 THEN 0 ELSE value
          /\ IF sysfs_has_descriptors = 0
             THEN at' = "cache" /\ config' = value /\ UNCHANGED call
             ELSE Returns("set_configuration", "OK", value) /\ UNCHANGED <<at, config>>
       \/ /\ Returns("set_configuration",
                     IF ~attached THEN "NO_DEVICE"
                     ELSE IF value \in Configurations \cup {-1, 0} THEN "BUSY"
                     ELSE "NOT_FOUND", value)
          /\ UNCHANGED <<active, at, config>>
    /\ UNCHANGED <<kernel, attached, foreign, config_descriptor, fd_lost, logged>>

\* Mutant: -1 is looked for like a value.
CacheNewKeeps ==
    /\ at = "cache" /\ at' = "idle"
    /\ IF config \in Configurations THEN config_descriptor' = config ELSE UNCHANGED config_descriptor
    /\ logged' = FALSE
    /\ Returns("set_configuration", "OK", config)
    /\ UNCHANGED <<kernel, attached, active, foreign, config, fd_lost>>

\* The copy is dropped for -1.  For any other value the device is read again;
\* when that fails, as it does for 0, this is only logged and the copy kept.
CacheNew ==
    /\ at = "cache" /\ at' = "idle"
    /\ \/ config = -1 /\ config_descriptor' = 0 /\ logged' = FALSE
       \/ /\ config \in Configurations /\ attached
          /\ config_descriptor' = config /\ logged' = FALSE
       \/ config # -1 /\ logged' = TRUE /\ UNCHANGED config_descriptor
    /\ Returns("set_configuration", "OK", config)
    /\ UNCHANGED <<kernel, attached, active, foreign, config, fd_lost>>

-----------------------------------------------------------------------------
Unplug ==
    /\ attached /\ attached' = FALSE
    /\ UNCHANGED <<kernel, active, foreign, config_descriptor, at, config, fd_lost, logged, call>>

OtherSets(value) ==
    /\ attached /\ active' = value /\ foreign' = TRUE
    /\ UNCHANGED <<kernel, attached, config_descriptor, at, config, fd_lost, logged, call>>

Next ==
    \/ CacheAtStart \/ GetCached \/ ReadActive \/ SeekActive \/ CacheNew \/ Unplug
    \/ \E i \in 1..(Len(Values) + 1) : GetConfigDescriptor(i)
    \/ \E before \in {0, 99} : GetConfiguration(before)
    \/ \E value \in Configurations \cup {-1, 0, 99} : SetConfiguration(value)
    \/ \E value \in Configurations \cup {0} : OtherSets(value)

Spec == Init /\ [][Next]_vars

-----------------------------------------------------------------------------
\* "keep track of which configuration is active when the user changes it": if
\* no other program sets configurations the copy is the kernel's, except for
\* a device that could only be read when it was found, and after an attempt to
\* learn the active one that failed and was logged, until one succeeds; and the
\* search for the active descriptor, "expected to be present under all
\* circumstances", does not run off the end of the file.
CacheFollows ==
    ~foreign /\ attached /\ at = "idle" =>
        /\ sysfs_has_descriptors = 0 /\ writable /\ ~logged => config_descriptor = active
        /\ ~fd_lost

\* "LIBUSB_ERROR_NO_DEVICE if the device has been disconnected": a result of 0
\* comes with the device's configuration (op_get_configuration).
ConfigurationIsReal ==
    call.name = "get_configuration" /\ call.r = "OK" => call.value \in Configurations \cup {0}
=============================================================================
