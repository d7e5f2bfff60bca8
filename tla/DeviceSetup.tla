---------------------------- MODULE DeviceSetup ----------------------------
(***************************************************************************)
(* How one new device becomes an object: build_device() reads its          *)
(* descriptors from its usbdevfs node (build_config, build_interface,      *)
(* build_endpoint and get_descriptor of jni/JavaxUsbTopologyUpdater.c), and *)
(* setActiveConfigAndInterfaceSettings() of LinuxUsbServices asks it,      *)
(* through jni/JavaxUsbActive.c, which configuration is active.  Topology  *)
(* has the tree of all devices; here is what is inside one of them.        *)
(*                                                                         *)
(* Meanwhile the device may go, another one may get its address, and       *)
(* anybody may configure it.  A descriptor is a sequence of bytes that     *)
(* begins with its length and its type and keeps only the fields that      *)
(* matter, so lengths are smaller than in USB.                             *)
(***************************************************************************)
EXTENDS Integers, FiniteSets, Sequences, SequencesExt

CONSTANTS
    Devices,    \* sequences of [value, body]: the configurations of a device
    Garbage,    \* what may be read beyond the end of a descriptor
    MaxChanges  \* bound: how often a device is plugged, unplugged, configured

None == <<>>

ASSUME DevicesAssumption ==
    /\ Devices \subseteq Seq([value : Nat, body : Seq(Seq(Nat))]) \ {None}
    /\ Garbage \subseteq Nat
    /\ MaxChanges \in Nat

VARIABLES
    device,     \* the device that has the address, or None
    configured, \* the number of its active configuration, 0 if not configured
    changes,    \* how much has happened to it (bounded)
    phase,      \* how far the update has come with it
    opened,     \* the device behind the open file
    lost,       \* whether that device was unplugged since
    offset,     \* of the open file
    end,        \* what pos and wTotalLength leave to read of the configuration
    tree,       \* UsbDeviceImp: its configurations, their interface settings
    number,     \* what nativeGetActiveConfigurationNumber() has returned
    active,     \* UsbDeviceImp: the active configuration number
    setting,    \* UsbInterfaceImp: the setting made active for an interface
    answered    \* history: what the device said that it is configured to

bus == <<device, configured, changes>>
vars == <<bus, phase, opened, lost, offset, end, tree, number, active, setting, answered>>

DT_DEVICE == 1
DT_CONFIG == 2
DT_INTERFACE == 4
DT_ENDPOINT == 5
Unset == -1

\* What the device holds of a configuration, and the values of all of them.
Header(c) == <<4, DT_CONFIG, 4 + Len(FlattenSeq(c.body)), c.value>>
Values(d) == {d[i].value : i \in DOMAIN d}

\* The usbdevfs node: the device descriptor, then every configuration in full.
File(d) ==
    <<3, DT_DEVICE, Len(d)>>
        \o FlattenSeq([i \in DOMAIN d |-> Header(d[i]) \o FlattenSeq(d[i].body)])

TypeOK ==
    /\ device \in Devices \cup {None} /\ opened \in Devices \cup {None}
    /\ configured \in Nat /\ offset \in Nat /\ changes \in 0..MaxChanges /\ lost \in BOOLEAN
    /\ phase \in {"idle", "device", "described", "header", "body", "built", "asked", "attached",
                 "failed", "refused"}
    /\ number \in Int /\ active \in Nat /\ answered \in Int /\ end \in Int
    /\ tree \in Seq([value : Nat, settings : Seq([number : Nat, setting : Nat, endpoints : Seq(Nat)])])

Init ==
    /\ device \in Devices
    /\ configured \in {0} \cup Values(device)
    /\ changes = 0
    /\ phase = "idle"
    /\ opened = None
    /\ lost = TRUE
    /\ offset = 0
    /\ end = 0
    /\ tree = <<>>
    /\ number = 0
    /\ active = 0
    /\ setting = <<>>
    /\ answered = Unset

-----------------------------------------------------------------------------
(* The device and whoever else uses it.                                    *)

Change ==
    /\ changes < MaxChanges
    /\ changes' = changes + 1
    /\ UNCHANGED <<phase, opened, offset, end, tree, number, active, setting, answered>>

Unplug ==
    /\ device # None
    /\ device' = None
    /\ configured' = 0
    /\ lost' = TRUE
    /\ Change

\* A device is plugged in and gets the address, perhaps while the update is
\* still busy with the last one that had it.
Plug ==
    /\ device = None
    /\ device' \in Devices
    /\ configured' \in {0} \cup Values(device')
    /\ UNCHANGED lost
    /\ Change

SetConfiguration ==
    /\ device # None
    /\ configured' \in ({0} \cup Values(device)) \ {configured}
    /\ UNCHANGED <<device, lost>>
    /\ Change

-----------------------------------------------------------------------------
(* get_descriptor(): a descriptor is read in full or not at all.           *)

Rest == SubSeq(File(opened), offset + 1, Len(File(opened)))

\* Mutant: a descriptor of two bytes is taken to be a short read.
CanReadLong == ~lost /\ Rest # <<>> /\ Rest[1] > 2 /\ Rest[1] <= Len(Rest)

CanRead == ~lost /\ Rest # <<>> /\ Rest[1] # 0 /\ Rest[1] <= Len(Rest)
Descriptor == SubSeq(Rest, 1, Rest[1])

\* A field of a structure that is longer than what was read can be anything.
Field(i) == IF i \in DOMAIN Descriptor THEN {Descriptor[i]} ELSE Garbage

Read ==
    /\ CanRead
    /\ offset' = offset + Len(Descriptor)

\* build_device() gives up: checkUsbDeviceImp() never gets to see the object. It does so
\* over the descriptors ("failed"), or over open() or an ioctl ("refused").
GiveUp(as) ==
    /\ phase' = as
    /\ UNCHANGED <<bus, opened, lost, offset, end, tree, number, active, setting, answered>>

BetweenUpdates == phase \in {"idle", "attached", "failed", "refused"}

\* The node cannot be opened, whoever has the address: the device that is there may even
\* have an object, which then goes.
OpenFails ==
    /\ BetweenUpdates
    /\ device # None
    /\ GiveUp("refused")

\* The object of a device that is still there, or that looks the same, is kept.
Open ==
    /\ BetweenUpdates
    /\ device # None
    /\ phase = "attached" => device # opened
    /\ phase' = "device"
    /\ opened' = device
    /\ lost' = FALSE
    /\ offset' = 0
    /\ tree' = <<>>
    /\ active' = 0
    /\ setting' = <<>>
    /\ answered' = Unset
    /\ end' = 0
    /\ number' = 0
    /\ UNCHANGED bus

\* The device descriptor.
BuildDevice ==
    /\ phase = "device"
    /\ Read
    /\ phase' = "described"
    /\ UNCHANGED <<bus, opened, lost, end, tree, number, active, setting, answered>>

\* HUB_PORTINFO, if it is a hub, and CONNECTINFO, both on the same file; then
\* configureUsbDeviceImp() stores what the descriptor says.
ConnectInfo ==
    /\ phase = "described"
    /\ ~lost
    /\ phase' = "header"
    /\ UNCHANGED <<bus, opened, lost, offset, end, tree, number, active, setting, answered>>

\* One of the two fails: always when the device has gone, and for all the code knows with
\* a device that is there.
IoctlFails ==
    /\ phase = "described"
    /\ GiveUp("refused")

\* build_config() for the next of bNumConfigurations.
BuildConfig ==
    /\ phase = "header"
    /\ Len(tree) < Len(opened)
    /\ Read
    /\ \E total \in Field(3), value \in Field(4) :
          /\ end' = total - Len(Descriptor)
          /\ tree' = Append(tree, [value |-> value, settings |-> <<>>])
    /\ phase' = "body"
    /\ UNCHANGED <<bus, opened, lost, number, active, setting, answered>>

AddSetting(n, s) ==
    tree' = [tree EXCEPT ![Len(tree)].settings =
                Append(@, [number |-> n, setting |-> s, endpoints |-> <<>>])]

\* The interface settings l, number n of which gets an endpoint.
WithEndpoint(l, n, a) ==
    [i \in DOMAIN l |-> IF i = n THEN [l[i] EXCEPT !.endpoints = Append(@, a)] ELSE l[i]]

\* Mutant: build_endpoint() gets the first interface of the configuration.
AddEndpointFirst(a) ==
    tree' = [tree EXCEPT ![Len(tree)].settings = WithEndpoint(@, 1, a)]

\* build_endpoint() gets the interface built last, and does nothing without one.
AddEndpoint(a) ==
    tree' = [tree EXCEPT ![Len(tree)].settings = WithEndpoint(@, Len(@), a)]

BuildNext ==
    /\ phase = "body"
    /\ end > 0
    /\ Read
    /\ Len(Descriptor) >= 2
    /\ end' = end - Len(Descriptor)
    /\ \/ /\ Descriptor[2] = DT_INTERFACE
          /\ \E n \in Field(3), s \in Field(4) : AddSetting(n, s)
       \/ /\ Descriptor[2] = DT_ENDPOINT
          /\ \E a \in Field(3) : AddEndpoint(a)
       \/ /\ Descriptor[2] \notin {DT_DEVICE, DT_CONFIG, DT_INTERFACE, DT_ENDPOINT}
          /\ UNCHANGED tree
    /\ UNCHANGED <<bus, phase, opened, lost, number, active, setting, answered>>

ConfigDone ==
    /\ phase = "body"
    /\ end <= 0
    /\ phase' = "header"
    /\ UNCHANGED <<bus, opened, lost, offset, end, tree, number, active, setting, answered>>

\* The object goes to checkUsbDeviceImp(): it is a new device.
DeviceDone ==
    /\ phase = "header"
    /\ Len(tree) = Len(opened)
    /\ phase' = "built"
    /\ UNCHANGED <<bus, opened, lost, offset, end, tree, number, active, setting, answered>>

\* The descriptors cannot be read, or not be used.
BuildFails ==
    /\ \/ phase = "device" /\ ~CanRead
       \/ phase = "header" /\ Len(tree) < Len(opened) /\ ~CanRead
       \/ phase = "body" /\ end > 0 /\ ~CanRead
       \/ phase = "body" /\ end > 0 /\ CanRead /\ Len(Descriptor) < 2
       \/ /\ phase = "body" /\ end > 0 /\ CanRead /\ Len(Descriptor) >= 2
          /\ Descriptor[2] \in {DT_DEVICE, DT_CONFIG}
    /\ GiveUp("failed")

-----------------------------------------------------------------------------
(* setActiveConfigAndInterfaceSettings().                                  *)

\* getActiveConfig() as it is built: ask the device, and take 1 if that fails.
\* Mutant: it does not ask.
GetActiveConfigUnasked(ask) == 1
GetActiveConfig(ask) == IF 0 > ask THEN 1 ELSE ask

\* nativeGetActiveConfigurationNumber(): by the address, whoever has it now.
AskDevice ==
    /\ phase = "built"
    /\ device # None
    /\ number' = GetActiveConfig(configured)
    /\ answered' = IF lost THEN answered ELSE configured
    /\ phase' = "asked"
    /\ UNCHANGED <<bus, opened, lost, offset, end, tree, active, setting>>

\* GET_CONFIGURATION fails or times out.
AskFails ==
    /\ phase = "built"
    /\ device # None
    /\ number' = GetActiveConfig(-1)
    /\ phase' = "asked"
    /\ UNCHANGED <<bus, opened, lost, offset, end, tree, active, setting, answered>>

\* The device cannot be opened.
AskGone ==
    /\ phase = "built"
    /\ device = None
    /\ number' = -1
    /\ phase' = "asked"
    /\ UNCHANGED <<bus, opened, lost, offset, end, tree, active, setting, answered>>

ContainsUsbConfiguration(n) == \E i \in DOMAIN tree : tree[i].value = n

\* Mutant: any number is made active.
ChosenUnchecked == IF number < 0 THEN {} ELSE {number}

\* The configuration that is made active: at most one number. With only one
\* configuration it is taken whatever the device says, 0 (not configured) too.
Chosen ==
    IF number < 0 THEN {}
    ELSE IF ContainsUsbConfiguration(number) THEN {number}
    ELSE IF Len(tree) = 1 THEN {tree[1].value}
    ELSE {}

SettingsOf(value) ==
    UNION {ToSet(tree[i].settings) : i \in {j \in DOMAIN tree : tree[j].value = value}}

\* An interface with one setting gets that one. With more it keeps what the
\* constructor gave it: getActiveInterfaceSetting() as built always fails.
SettingFor(value) ==
    [n \in {s.number : s \in SettingsOf(value)} |->
        LET its == {s.setting : s \in {t \in SettingsOf(value) : t.number = n}}
        IN IF \E s \in its : its = {s} THEN CHOOSE s \in its : TRUE ELSE Unset]

SetActive ==
    /\ phase = "asked"
    /\ IF Chosen = {}
       THEN active' = 0 /\ setting' = <<>>
       ELSE \E c \in Chosen : active' = c /\ setting' = SettingFor(c)
    /\ phase' = "attached"
    /\ UNCHANGED <<bus, opened, lost, offset, end, tree, number, answered>>

Next ==
    \/ Unplug \/ Plug \/ SetConfiguration
    \/ Open \/ BuildDevice \/ ConnectInfo \/ BuildConfig \/ BuildNext \/ ConfigDone \/ DeviceDone
    \/ OpenFails \/ IoctlFails \/ BuildFails
    \/ AskDevice \/ AskFails \/ AskGone \/ SetActive

Spec == Init /\ [][Next]_vars

-----------------------------------------------------------------------------
(* What is expected, from the list of descriptors and not from the loop.   *)

\* Every descriptor has the length it states, and its fields; none is a device or
\* a configuration.
WellFormed(d) ==
    \A i \in DOMAIN d : \A j \in DOMAIN d[i].body :
        LET b == d[i].body[j]
        IN /\ Len(b) >= 2 /\ b[1] = Len(b)
           /\ b[2] \notin {DT_DEVICE, DT_CONFIG}
           /\ b[2] = DT_INTERFACE => Len(b) >= 4
           /\ b[2] = DT_ENDPOINT => Len(b) >= 3

\* Of the first n descriptors of a configuration, the interfaces, and the endpoints
\* that come after interface j and before the next one.
Interfaces(c, n) == {j \in 1..n : c.body[j][2] = DT_INTERFACE}
EndpointsOf(c, n, j) ==
    {k \in 1..n : /\ c.body[k][2] = DT_ENDPOINT /\ j < k
                  /\ \A i \in Interfaces(c, n) : ~(j < i /\ i < k)}

\* Which in the order of S j is.
Rank(j, S) == Cardinality({i \in S : i <= j})

\* An interface setting is that of descriptor j, and has its endpoints in their order.
HasSetting(s, c, n, j) ==
    /\ s.number = c.body[j][3] /\ s.setting = c.body[j][4]
    /\ Len(s.endpoints) = Cardinality(EndpointsOf(c, n, j))
    /\ \A k \in EndpointsOf(c, n, j) :
          s.endpoints[Rank(k, EndpointsOf(c, n, j))] = c.body[k][3]

\* An object has what the first n descriptors of a configuration say, in their order.
Shows(t, c, n) ==
    /\ t.value = c.value
    /\ Len(t.settings) = Cardinality(Interfaces(c, n))
    /\ \A j \in Interfaces(c, n) : HasSetting(t.settings[Rank(j, Interfaces(c, n))], c, n, j)

\* The object of a device with well formed descriptors has the configurations,
\* interface settings and endpoints of the device, each below the one it
\* belongs to, when class specific descriptors stand between them too, and
\* whatever happens to the device meanwhile.
TreeMatchesDevice ==
    phase \in {"built", "asked", "attached"} /\ WellFormed(opened)
        => /\ Len(tree) = Len(opened)
           /\ \A i \in DOMAIN opened : Shows(tree[i], opened[i], Len(opened[i].body))

\* build_device() does not misread descriptors: it gives up over them only with a device
\* that went away while it was read, or that has one it cannot read past. A device that
\* open() or one of the ioctls refuses is left out of this: the kernel decides that, and
\* the code then gives up on a device that is there.
NoFalseRejection ==
    phase = "failed" => lost \/ ~WellFormed(opened)

\* The active configuration is one that the object has, also when another device
\* has answered, or none has: getActiveUsbConfiguration() finds something.
ActiveExists ==
    phase = "attached" => active = 0 \/ ContainsUsbConfiguration(active)

\* An interface has no other setting than s in the configuration.
OnlySetting(s, value) == \A t \in SettingsOf(value) : t.number = s.number => t.setting = s.setting

\* A device that says that it is configured is shown so: the configuration it
\* has named is the active one, an interface that has one setting there has it, and none
\* is given a setting of several.
ActiveIsTheDevices ==
    phase = "attached" /\ answered > 0 /\ WellFormed(opened)
        => /\ active = answered
           /\ \A s \in SettingsOf(answered) :
                 setting[s.number] = IF OnlySetting(s, answered) THEN s.setting ELSE Unset
=============================================================================
