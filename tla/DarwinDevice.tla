------------------------------ MODULE DarwinDevice ------------------------------
(***************************************************************************)
(* Handles, configurations and interfaces of one device in the Darwin      *)
(* backend (darwin_usb.c).  darwin_claim_interface of an interface that is *)
(* not there sets the first configuration, and darwin_set_configuration    *)
(* claims again what the handle had claimed: the two call each other, so   *)
(* that the calls in progress are a stack.                                 *)
(***************************************************************************)
EXTENDS Integers, Sequences, FiniteSets

CONSTANTS
    Handles, Configs, Interfaces,
    Has,            \* Has[c]: the interfaces of configuration c
    first_config,
    MaxDepth        \* bound: calls nested in each other

InterfacesAssumption ==
    Interfaces \subseteq Nat /\ Configs \subseteq Nat \ {0} /\ first_config \in Configs

VARIABLES
    configured,     \* what the device is set to, 0 when unconfigured
    active_config, open_count, device,
    opened,
    is_open,        \* kept by a handle that goes without closing the device
    claimed, interface, endpoints, source, opener,
    stack,
    ret,            \* what darwin_set_configuration returned to a claim
    nested          \* for the properties: a claim that was to restore an
                    \* interface has set the configuration

dpriv == <<active_config, open_count, device>>
hpriv == <<opened, is_open>>
ifaces == <<interface, endpoints, source, opener>>
calls == <<stack, ret, nested>>
vars == <<configured, dpriv, hpriv, claimed, ifaces, calls>>

PerInterface(x) == [h \in Handles |-> [i \in Interfaces |-> x]]

\* The interfaces that darwin_get_interface finds in a configuration.
Present(c) == IF c = 0 THEN {} ELSE Has[c]

\* darwin_check_configuration: a device without interfaces counts as not
\* configured, and one of a single configuration is not asked.
Described ==
    IF Present(configured) = {} THEN 0
    ELSE IF Cardinality(Configs) = 1 THEN first_config ELSE configured

\* A device that a scan has described; GetConfiguration may have failed.
Init ==
    /\ configured \in Configs \cup {0} /\ active_config \in {Described, 0}
    /\ open_count = 0 /\ device = FALSE
    /\ opened = {} /\ is_open = [h \in Handles |-> FALSE]
    /\ claimed = [h \in Handles |-> {}]
    /\ interface = PerInterface("null") /\ endpoints = PerInterface(FALSE)
    /\ source = PerInterface("null") /\ opener = [i \in Interfaces |-> "none"]
    /\ stack = <<>> /\ ret = "SUCCESS" /\ nested = FALSE

Idle == stack = <<>>

-----------------------------------------------------------------------------
(* darwin_open and darwin_close *)

\* Only the first handle of the device opens it and makes its event source;
\* another program may have it, which is no error.
darwin_open(h) ==
    /\ Idle /\ h \notin opened
    /\ \E granted \in BOOLEAN :
         is_open' = [is_open EXCEPT ![h] = granted /\ open_count = 0]
    /\ device' = TRUE /\ open_count' = open_count + 1 /\ opened' = opened \cup {h}
    /\ UNCHANGED <<configured, active_config, claimed, ifaces, calls>>

\* cfSource is not cleared when the source is released.
CFRelease(s) == IF s = "live" THEN "freed" ELSE IF s = "freed" THEN "twice" ELSE s

\* Mutant: num_endpoints is left.
ReleasedKeepsEndpoints(h, is) ==
    LET there == {i \in is : interface[h][i] # "null"}
        Clear(f, x) == [f EXCEPT ![h] = [i \in Interfaces |->
                                            IF i \in there THEN x ELSE f[h][i]]]
    IN /\ UNCHANGED endpoints /\ interface' = Clear(interface, "null")
       /\ source' = [source EXCEPT ![h] = [i \in Interfaces |->
                                              IF i \in there THEN CFRelease(@[i]) ELSE @[i]]]

\* What darwin_release_interface makes of the interfaces is of h.
Released(h, is) ==
    LET there == {i \in is : interface[h][i] # "null"}
        Clear(f, x) == [f EXCEPT ![h] = [i \in Interfaces |->
                                            IF i \in there THEN x ELSE f[h][i]]]
    IN /\ endpoints' = Clear(endpoints, FALSE) /\ interface' = Clear(interface, "null")
       /\ source' = [source EXCEPT ![h] = [i \in Interfaces |->
                                              IF i \in there THEN CFRelease(@[i]) ELSE @[i]]]

\* USBInterfaceClose closes what this handle opened.
OpenerAfter(h, is) == [i \in Interfaces |->
    IF i \in is /\ interface[h][i] = "open" /\ opener[i] = h THEN "none" ELSE opener[i]]

\* The device is closed, and its source removed, by the last handle if that
\* is also the one that opened it.
darwin_close(h) ==
    /\ Idle /\ h \in opened /\ opened' = opened \ {h}
    /\ Released(h, claimed[h]) /\ opener' = OpenerAfter(h, claimed[h])
    /\ claimed' = [claimed EXCEPT ![h] = {}]
    /\ open_count' = open_count - 1 /\ device' = (open_count > 1)
    /\ is_open' = [is_open EXCEPT ![h] = @ /\ open_count > 1]
    /\ UNCHANGED <<configured, active_config, calls>>

-----------------------------------------------------------------------------
(* Calls that may call each other *)

Top == stack[Len(stack)]
Caller == SubSeq(stack, 1, Len(stack) - 1)
ClaimFrame(h, i) == [f |-> "claim", h |-> h, n |-> i, at |-> "look", todo |-> {}]
SetFrame(h, c) == [f |-> "set", h |-> h, n |-> c, at |-> "start", todo |-> {}]
In(f, at) == ~Idle /\ Top.f = f /\ Top.at = at

\* The return to the caller; libusb's core keeps the claims that succeeded.
Return(r) ==
    /\ stack' = Caller /\ UNCHANGED nested
    /\ ret' = IF Caller # <<>> /\ Top.f = "set" THEN r ELSE "SUCCESS"
    /\ claimed' = IF Caller = <<>> /\ Top.f = "claim" /\ r = "SUCCESS"
                  THEN [claimed EXCEPT ![Top.h] = @ \cup {Top.n}] ELSE claimed

\* Recursion is cut at MaxDepth.
Waiting(at, todo) == [f |-> Top.f, h |-> Top.h, n |-> Top.n, at |-> at, todo |-> todo]
CallOf(frame, at, todo) ==
    Len(stack) < MaxDepth /\ stack' = Append(Append(Caller, Waiting(at, todo)), frame)

Begin(h) ==
    /\ Idle /\ h \in opened
    /\ \/ \E i \in Interfaces \ claimed[h] : stack' = <<ClaimFrame(h, i)>>
       \/ \E c \in Configs \cup {0} : stack' = <<SetFrame(h, c)>>
    /\ UNCHANGED <<configured, dpriv, hpriv, claimed, ifaces, ret, nested>>

Exists == Top.n \in Present(configured)

\* Mutant: the configuration is set whether or not the interface is there.
ClaimConfiguresAlways ==
    /\ In("claim", "look")
    /\ CallOf(SetFrame(Top.h, first_config), "configured", {})
    /\ nested' = (nested \/ Len(stack) > 1)
    /\ UNCHANGED <<configured, dpriv, hpriv, claimed, ifaces, ret>>

\* darwin_claim_interface: "no interface found; setting configuration".
ClaimConfigures ==
    /\ In("claim", "look") /\ ~Exists
    /\ CallOf(SetFrame(Top.h, first_config), "configured", {})
    /\ nested' = (nested \/ Len(stack) > 1)
    /\ UNCHANGED <<configured, dpriv, hpriv, claimed, ifaces, ret>>

\* The interface cannot be looked up, the configuration not be set or the
\* plug-in not be made, or there is still no interface: nothing was touched.
ClaimFails ==
    /\ In("claim", "look") \/ In("claim", "configured")
    /\ Return(IF Top.at = "configured" /\ ret # "SUCCESS" THEN ret ELSE "OTHER")
    /\ UNCHANGED <<configured, dpriv, hpriv, ifaces>>

Claimable ==
    /\ In("claim", "look") \/ (In("claim", "configured") /\ ret = "SUCCESS")
    /\ Exists

Put(f, x) == [f EXCEPT ![Top.h][Top.n] = x]

\* QueryInterface writes over the object in the handle's table: nothing, and
\* if it reports no error then so does the claim.
QueryFails ==
    /\ Claimable /\ interface' = Put(interface, "null")
    /\ \E r \in {"OTHER", "SUCCESS"} : Return(r)
    /\ UNCHANGED <<configured, dpriv, hpriv, endpoints, source, opener>>

\* USBInterfaceOpen fails: the object stays in the handle's table.
OpenFails ==
    /\ Claimable /\ interface' = Put(interface, "object") /\ Return("ACCESS")
    /\ UNCHANGED <<configured, dpriv, hpriv, endpoints, source, opener>>

CanOpen == Claimable /\ opener[Top.n] = "none"

\* "This should not happen": get_endpoints fails and darwin_release_interface
\* follows, which finds the event source of an earlier claim.
EndpointsUnknown ==
    /\ CanOpen /\ Return("OTHER")
    /\ interface' = Put(interface, "null") /\ endpoints' = Put(endpoints, FALSE)
    /\ source' = Put(source, CFRelease(source[Top.h][Top.n]))
    /\ UNCHANGED <<configured, dpriv, hpriv, opener>>

\* No event source can be made: the interface is released.
NoSource ==
    /\ CanOpen /\ Return("OTHER")
    /\ interface' = Put(interface, "null") /\ endpoints' = Put(endpoints, FALSE)
    /\ source' = Put(source, "null")
    /\ UNCHANGED <<configured, dpriv, hpriv, opener>>

ClaimSucceeds ==
    /\ CanOpen /\ Return("SUCCESS")
    /\ interface' = Put(interface, "open") /\ endpoints' = Put(endpoints, TRUE)
    /\ source' = Put(source, "live") /\ opener' = [opener EXCEPT ![Top.n] = Top.h]
    /\ UNCHANGED <<configured, dpriv, hpriv>>

\* darwin_set_configuration: what the handle claimed is released, but stays
\* in "claimed"; the interfaces of another configuration are others.
SetConfiguration ==
    /\ In("set", "start") /\ configured' = Top.n
    /\ Released(Top.h, claimed[Top.h]) /\ opener' = [i \in Interfaces |-> "none"]
    /\ stack' = Append(Caller, Waiting("reclaim", claimed[Top.h]))
    /\ UNCHANGED <<dpriv, hpriv, claimed, ret, nested>>

SetConfigurationFails ==
    /\ In("set", "start") /\ Return("OTHER")
    /\ Released(Top.h, claimed[Top.h]) /\ opener' = OpenerAfter(Top.h, claimed[Top.h])
    /\ UNCHANGED <<configured, dpriv, hpriv>>

\* The result of claiming an interface again is ignored.
Reclaim ==
    /\ In("set", "reclaim") /\ Top.todo # {}
    /\ LET i == CHOOSE i \in Top.todo : \A j \in Top.todo : i <= j
       IN CallOf(ClaimFrame(Top.h, i), "reclaim", Top.todo \ {i})
    /\ UNCHANGED <<configured, dpriv, hpriv, claimed, ifaces, ret, nested>>

Configured ==
    /\ In("set", "reclaim") /\ Top.todo = {} /\ active_config' = Top.n /\ Return("SUCCESS")
    /\ UNCHANGED <<configured, open_count, device, hpriv, ifaces>>

-----------------------------------------------------------------------------
(* Calls that call no other *)

\* If IOKit reports an error of the release, the core keeps the claim.
darwin_release_interface(h, i) ==
    /\ Idle /\ i \in claimed[h]
    /\ claimed' = [claimed EXCEPT ![h] = @ \ {i}] \/ UNCHANGED claimed
    /\ Released(h, {i}) /\ opener' = OpenerAfter(h, {i})
    /\ UNCHANGED <<configured, dpriv, hpriv, calls>>

\* ResetDevice leaves the device unconfigured, or fails.
AfterReset(is_reset, before) ==
    /\ configured' = IF is_reset THEN 0 ELSE configured
    /\ opener' = IF is_reset THEN [i \in Interfaces |-> "none"] ELSE before

darwin_reset_device(h) ==
    /\ Idle /\ h \in opened /\ AfterReset(TRUE, opener)
    /\ UNCHANGED <<dpriv, hpriv, claimed, interface, endpoints, source, calls>>

\* A SetAlternateInterface that fails resets the device.  If the endpoints
\* cannot be read the interface is released, and stays claimed.
darwin_set_interface_altsetting(h, i) ==
    /\ Idle /\ i \in claimed[h] /\ interface[h][i] # "null"
    /\ \E is_reset \in BOOLEAN :
         \/ Released(h, {i}) /\ AfterReset(is_reset, OpenerAfter(h, {i}))
         \/ /\ endpoints' = [endpoints EXCEPT ![h][i] = TRUE] /\ AfterReset(is_reset, opener)
            /\ UNCHANGED <<interface, source>>
    /\ UNCHANGED <<dpriv, hpriv, claimed, calls>>

\* process_new_device describes the known device again; a GetConfiguration
\* that fails leaves what was known.
Scan ==
    /\ Idle /\ active_config' = Described
    /\ UNCHANGED <<configured, open_count, device, hpriv, claimed, ifaces, calls>>

Next ==
    \/ \E h \in Handles :
         \/ darwin_open(h) \/ darwin_close(h) \/ darwin_reset_device(h) \/ Begin(h)
         \/ \E i \in Interfaces :
              darwin_release_interface(h, i) \/ darwin_set_interface_altsetting(h, i)
    \/ ClaimConfigures \/ ClaimFails \/ QueryFails \/ OpenFails \/ EndpointsUnknown \/ NoSource
    \/ ClaimSucceeds \/ SetConfiguration \/ SetConfigurationFails \/ Reclaim
    \/ Configured \/ Scan

Spec == Init /\ [][Next]_vars

-----------------------------------------------------------------------------
\* The device is there as long as a handle of it is open.
TypeOK ==
    /\ configured \in Configs \cup {0} /\ active_config \in Configs \cup {0}
    /\ open_count = Cardinality(opened) /\ device = (open_count > 0)
    /\ \A h \in Handles : claimed[h] # {} => h \in opened
    /\ Len(stack) <= MaxDepth /\ opener \in [Interfaces -> Handles \cup {"none"}]

\* An interface that is open has its event source in the run loop and its
\* endpoints in the table, whatever failed before.  ep_to_pipeRef, which looks
\* through the endpoints of what is claimed, never leads to an interface that
\* is not there; unless a claim that was to restore an interface has set the
\* configuration, after which the claim that had begun all this may fail at
\* QueryInterface and forget the object, but not its endpoints.
InterfacesWhole ==
    \A h \in Handles, i \in Interfaces :
        /\ interface[h][i] = "open" => source[h][i] = "live" /\ endpoints[h][i]
        /\ endpoints[h][i] /\ ~nested => interface[h][i] # "null"

\* A darwin_set_configuration that succeeds reports the configuration that the
\* device has then, with one exception: the handle had claimed an interface
\* that the new configuration lacks, so that claiming it again has set the
\* first one.
ConfigurationKnown ==
    In("set", "reclaim") /\ stack' = Caller =>
        \/ active_config' = configured
        \/ configured = first_config /\ ~(claimed[Top.h] \subseteq Present(Top.n))

\* "You will only ever be asked to release an interface which was successfully
\* claimed earlier": no event source is released that was released before.
SourcesFreedOnce == \A h \in Handles, i \in Interfaces : source[h][i] # "twice"

\* "Your backend should destroy any resources that were allocated in the open
\* path": the device is closed and its event source gone with the last handle.
OpenResourcesFreed == \A h \in Handles : is_open[h] => h \in opened
=============================================================================
