------------------------------ MODULE Topology ------------------------------
(***************************************************************************)
(* LinuxUsbServices.updateTopology(): the polling thread scans what is     *)
(* plugged in (jni/JavaxUsbTopologyUpdater.c) and makes the tree of hubs   *)
(* and devices below the virtual root hub follow it, while things are      *)
(* plugged and unplugged.                                                  *)
(*                                                                         *)
(* A member of Devices is one thing at one place with one address: what is *)
(* plugged in at two places, or comes back with another address, is two    *)
(* members.  Object is a UsbDeviceImp (or UsbHubImp).                      *)
(***************************************************************************)
EXTENDS Naturals, FiniteSets, SequencesExt

CONSTANTS
    Devices,        \* what can be plugged in, host controllers included
    ParentOf,       \* the hub of a device; RootHub for a host controller
    PortOf,         \* its port there; for a host controller the number of its bus
    KeyOf,          \* the device node: bus and address
    DescOf,         \* its speed and its descriptors, which say whether it is a hub
    Objects,        \* the UsbDeviceImps that may exist at one time
    RootHub,        \* the virtual root hub
    None,
    MaxChanges      \* bound: plugs, unplugs and failures of the scan

ASSUME DevicesAssumption ==
    /\ IsFiniteSet(Devices)
    /\ RootHub \notin Devices \cup Objects
    /\ None \notin Devices \cup Objects \cup [parent : Objects \cup {RootHub}, port : Nat]
    /\ ParentOf \in [Devices -> Devices \cup {RootHub}]
    /\ PortOf \in [Devices -> Nat \ {0}]
    /\ DOMAIN KeyOf = Devices /\ DOMAIN DescOf = Devices
    /\ MaxChanges \in Nat

\* Hubs are not plugged into each other in a circle: some device of every set of
\* devices is plugged into something else.
ASSUME TreeAssumption ==
    \A S \in SUBSET Devices : S # {} => \E d \in S : ParentOf[d] \notin S

VARIABLES
    plugged,        \* the devices on the busses
    changes,        \* how much of MaxChanges is used
    phase,          \* where the update is
    pending,        \* the calls of build_device() still to be made
    connected,      \* connectedDevices, each with its parent UsbPortImp
    disconnected,   \* disconnectedDevices
    devOf,          \* the device an object was built for
    place,          \* the hub and port an object is attached to
    announced,      \* the objects that listeners were told about
    \* History, read by properties only.
    quiet,          \* nothing changed or failed since the update began
    steady,         \* devices plugged, and read without failure, since then
    settled         \* the objects that were in the right place when it began

busVars == <<plugged, changes>>
scanVars == <<pending, connected, disconnected>>
treeVars == <<devOf, place, announced>>
history == <<quiet, steady, settled>>
vars == <<busVars, phase, scanVars, treeVars, history>>

Attached == {o \in Objects : place[o] # None}

Places == [parent : Objects \cup {RootHub}, port : Nat]

Calls == [key : {KeyOf[d] : d \in Devices}, at : Places]

TypeOK ==
    /\ plugged \subseteq Devices
    /\ changes \in 0..MaxChanges
    /\ phase \in {"idle", "scan", "disconnect", "attach", "detached", "announce"}
    /\ pending \in Seq(Calls)
    /\ connected \in Seq([obj : Objects, at : Places])
    /\ disconnected \subseteq Objects
    /\ devOf \in [Objects -> Devices \cup {None}]
    /\ place \in [Objects -> Places \cup {None}]
    /\ announced \subseteq Objects
    /\ \A o \in Attached : devOf[o] # None
    /\ quiet \in BOOLEAN /\ steady \subseteq plugged /\ settled \subseteq Objects

\* What can be plugged in at the same time: no two things with the same address, or in
\* the same port.
Fits(d, e) == KeyOf[d] # KeyOf[e] /\ (ParentOf[d] # ParentOf[e] \/ PortOf[d] # PortOf[e])

Init ==
    /\ plugged \in SUBSET {d \in Devices : ParentOf[d] = RootHub}
    /\ \A d, e \in plugged : d # e => Fits(d, e)
    /\ changes = 0 /\ phase = "idle"
    /\ pending = <<>> /\ connected = <<>> /\ disconnected = {}
    /\ devOf = [o \in Objects |-> None]
    /\ place = [o \in Objects |-> None]
    /\ announced = {}
    /\ quiet = FALSE /\ steady = {} /\ settled = {}

-----------------------------------------------------------------------------
(* The busses.                                                             *)

HostControllers == {d \in plugged : ParentOf[d] = RootHub}
PluggedInto(d) == {e \in plugged : ParentOf[e] = d}

\* The place of a device among others, by port.
PortRank(d, ds) == Cardinality({e \in ds : PortOf[e] <= PortOf[d]})

\* Everything that is plugged into one of S is in S.
DownClosed(S) == \A e \in Devices : ParentOf[e] \in S => e \in S

\* d and what is attached below it.
Below == [d \in Devices |->
    {e \in Devices : \A S \in SUBSET Devices : d \in S /\ DownClosed(S) => e \in S}]

Change == changes < MaxChanges /\ changes' = changes + 1 /\ quiet' = FALSE

Plug(d) ==
    /\ Change
    /\ d \notin plugged
    /\ ParentOf[d] \in plugged \cup {RootHub}
    /\ \A e \in plugged : Fits(d, e)
    /\ plugged' = plugged \cup {d}
    /\ UNCHANGED <<phase, scanVars, treeVars, steady, settled>>

Unplug(d) ==
    /\ Change
    /\ d \in plugged
    /\ plugged' = plugged \ Below[d]
    /\ steady' = steady \ Below[d]
    /\ UNCHANGED <<phase, scanVars, treeVars, settled>>

-----------------------------------------------------------------------------
(* What the tree should say of the busses (read by properties only).       *)

\* What the tree can show of a device.
LooksLike(d, e) == KeyOf[d] = KeyOf[e] /\ DescOf[d] = DescOf[e]

\* The object stands for the device: same looks, same port, and so do their hubs.
StandsFor(o, d) ==
    /\ LooksLike(devOf[o], d)
    /\ IF ParentOf[d] = RootHub
         THEN /\ place[o].parent = RootHub
              /\ place[o].port = PortRank(d, HostControllers)
         ELSE /\ place[o].parent # RootHub
              /\ LooksLike(devOf[place[o].parent], ParentOf[d])
              /\ place[o].port = PortOf[d]

\* The objects that stand for something plugged in, and whose hubs do too.
Settled ==
    UNION {H \in SUBSET Attached :
              \A o \in H : /\ \E d \in plugged : StandsFor(o, d)
                            /\ place[o].parent \in H \cup {RootHub}}

-----------------------------------------------------------------------------
(* The scan.                                                               *)

\* A call of build_device() for a device node, at a port of a hub.
Call(key, hub, port) == [key |-> key, at |-> [parent |-> hub, port |-> port]]

\* In the order of their ports.
ByPort(ds) == [i \in 1..Cardinality(ds) |-> CHOOSE d \in ds : PortRank(d, ds) = i]

\* scandir() sorts the directories of the busses; the port is the place in that order.
BusCalls ==
    LET hcs == ByPort(HostControllers)
    IN [i \in DOMAIN hcs |-> Call(KeyOf[hcs[i]], RootHub, i)]

\* Mutation of PortCalls: the index of the port, not its number.
PortCallsZeroBased(d, hub) ==
    LET children == ByPort(PluggedInto(d))
    IN [i \in DOMAIN children |-> Call(KeyOf[children[i]], hub, PortOf[children[i]] - 1)]

\* USBDEVFS_HUB_PORTINFO of the hub d, whose object is hub.
PortCalls(d, hub) ==
    LET children == ByPort(PluggedInto(d))
    IN [i \in DOMAIN children |-> Call(KeyOf[children[i]], hub, PortOf[children[i]])]

\* fillDeviceList() lists the whole tree, without its root.
StartScan(calls) ==
    /\ phase = "idle"
    /\ phase' = "scan"
    /\ pending' = calls
    /\ connected' = <<>>
    /\ disconnected' = Attached

\* updateTopology(), and nativeTopologyUpdater() lists the busses ...
StartUpdate ==
    /\ StartScan(BusCalls)
    /\ quiet' = TRUE
    /\ steady' = plugged
    /\ settled' = Settled
    /\ UNCHANGED <<busVars, treeVars>>

\* ... or cannot. The error it returns is stored and not looked at.
StartUpdateFails ==
    /\ Change
    /\ StartScan(<<>>)
    /\ steady' = {}
    /\ settled' = {}
    /\ UNCHANGED <<plugged, treeVars>>

\* Mutation of IsUsbDevicesEqual: the descriptors are not compared.
IsUsbDevicesEqualByKey(d, e) == KeyOf[d] = KeyOf[e]

\* isUsbDevicesEqual(): whether they appear to be equal.
IsUsbDevicesEqual(d, e) == KeyOf[d] = KeyOf[e] /\ DescOf[d] = DescOf[e]

\* A new object is none that anybody still knows. The Java heap bounds their number.
NewDevices == {connected[i].obj : i \in DOMAIN connected}
Unknown == Objects \ (Attached \cup disconnected \cup announced \cup NewDevices)
NewObject == CHOOSE o \in Unknown : TRUE

\* Mutation of KeepExisting: the device is not removed from disconnectedDevices.
KeepExistingListed(o, d) ==
    /\ IsUsbDevicesEqual(devOf[o], d)
    /\ pending' = PortCalls(d, o) \o Tail(pending)
    /\ UNCHANGED <<connected, disconnected, devOf>>

\* checkUsbDeviceImp(): the object attached there appears to be equal, and stays.
KeepExisting(o, d) ==
    /\ IsUsbDevicesEqual(devOf[o], d)
    /\ disconnected' = disconnected \ {o}
    /\ pending' = PortCalls(d, o) \o Tail(pending)
    /\ UNCHANGED <<connected, devOf>>

\* Mutation of AddNew: the new device is put in front of connectedDevices.
AddNewInFront(o, at, d) ==
    /\ Unknown # {}
    /\ connected' = <<[obj |-> o, at |-> at]>> \o connected
    /\ devOf' = [devOf EXCEPT ![o] = d]
    /\ pending' = PortCalls(d, o) \o Tail(pending)
    /\ UNCHANGED disconnected

\* checkUsbDeviceImp(): the new object gets its port, and is attached later.
AddNew(o, at, d) ==
    /\ Unknown # {}
    /\ connected' = Append(connected, [obj |-> o, at |-> at])
    /\ devOf' = [devOf EXCEPT ![o] = d]
    /\ pending' = PortCalls(d, o) \o Tail(pending)
    /\ UNCHANGED disconnected

\* Mutation of CheckUsbDeviceImp: a device that is replaced is not left in
\* disconnectedDevices.
CheckUsbDeviceImpReplaces(at, d) ==
    \/ \E o \in Objects : place[o] = at /\ KeepExisting(o, d)
    \/ /\ \A o \in Objects : place[o] = at => ~IsUsbDevicesEqual(devOf[o], d)
       /\ Unknown # {}
       /\ connected' = Append(connected, [obj |-> NewObject, at |-> at])
       /\ devOf' = [devOf EXCEPT ![NewObject] = d]
       /\ pending' = PortCalls(d, NewObject) \o Tail(pending)
       /\ disconnected' = {o \in disconnected : place[o] # at}

CheckUsbDeviceImp(at, d) ==
    \/ \E o \in Objects : place[o] = at /\ KeepExisting(o, d)
    \/ /\ \A o \in Objects : place[o] = at => ~IsUsbDevicesEqual(devOf[o], d)
       /\ AddNew(NewObject, at, d)

\* build_device() reads the device that now has the address, and the ports of a hub.
BuildDevice ==
    /\ phase = "scan"
    /\ pending # <<>>
    /\ \E d \in plugged :
          /\ KeyOf[d] = Head(pending).key
          /\ CheckUsbDeviceImp(Head(pending).at, d)
    /\ UNCHANGED <<busVars, phase, place, announced, history>>

\* It is gone: neither it nor anything below it is built.
BuildGone ==
    /\ phase = "scan"
    /\ pending # <<>>
    /\ \A d \in plugged : KeyOf[d] # Head(pending).key
    /\ pending' = Tail(pending)
    /\ UNCHANGED <<busVars, phase, connected, disconnected, treeVars, history>>

\* The node cannot be opened, or its descriptors not be read, this time.
BuildFails ==
    /\ Change
    /\ phase = "scan"
    /\ pending # <<>>
    /\ steady' = steady \ UNION {Below[d] : d \in {e \in plugged : KeyOf[e] = Head(pending).key}}
    /\ pending' = Tail(pending)
    /\ UNCHANGED <<plugged, phase, connected, disconnected, treeVars, settled>>

-----------------------------------------------------------------------------
(* The loops of updateTopology(), which take one device at a time.         *)

\* What is still to be disconnected.
Leaving == disconnected \cap Attached

\* disconnect() of a device that was not found again: a hub stands before everything
\* that hangs on it in the list that fillDeviceList() made.
Disconnect ==
    /\ phase = "disconnect"
    /\ \E o \in Leaving :
          /\ place[o].parent \notin Leaving
          /\ place' = [place EXCEPT ![o] = None]
    /\ UNCHANGED <<busVars, phase, scanVars, devOf, announced, history>>

\* connectedDevices.get(i) is the next one, when those in done are behind the loop.
IsNext(i, done) ==
    /\ connected[i].obj \notin done
    /\ \A j \in 1..(i - 1) : connected[j].obj \in done

\* attachUsbDeviceImp() of the next new device, to the port it got in the scan.
Attach ==
    /\ phase = "attach"
    /\ \E i \in DOMAIN connected :
          /\ IsNext(i, Attached)
          /\ place' = [place EXCEPT ![connected[i].obj] = connected[i].at]
    /\ UNCHANGED <<busVars, phase, scanVars, devOf, announced, history>>

\* usbDeviceDetached(), for one device after the other; in which order is left open.
AnnounceDetached ==
    /\ phase = "detached"
    /\ \E o \in disconnected \cap announced : announced' = announced \ {o}
    /\ UNCHANGED <<busVars, phase, scanVars, devOf, place, history>>

\* Mutation of AnnounceAttached: the list is walked from its end.
AnnounceAttachedBackwards ==
    /\ phase = "announce"
    /\ \E i \in DOMAIN connected :
          /\ connected[i].obj \notin announced
          /\ \A j \in DOMAIN connected : j > i => connected[j].obj \in announced
          /\ announced' = announced \cup {connected[i].obj}
    /\ UNCHANGED <<busVars, phase, scanVars, devOf, place, history>>

\* usbDeviceAttached(), each after a sleep that lets the driver of the device before
\* talk to it.
AnnounceAttached ==
    /\ phase = "announce"
    /\ \E i \in DOMAIN connected :
          /\ IsNext(i, announced)
          /\ announced' = announced \cup {connected[i].obj}
    /\ UNCHANGED <<busVars, phase, scanVars, devOf, place, history>>

\* The scan or a loop is at its end, and the next loop begins.
NextLoop ==
    /\ \/ phase = "scan" /\ pending = <<>> /\ phase' = "disconnect"
       \/ phase = "disconnect" /\ Leaving = {} /\ phase' = "attach"
       \/ phase = "attach" /\ NewDevices \subseteq Attached /\ phase' = "detached"
       \/ phase = "detached" /\ disconnected \cap announced = {} /\ phase' = "announce"
    /\ UNCHANGED <<busVars, scanVars, treeVars, history>>

\* updateTopology() returns; its lists go, and the objects that nobody knows any more.
UpdateDone ==
    /\ phase = "announce"
    /\ NewDevices \subseteq announced
    /\ phase' = "idle"
    /\ connected' = <<>> /\ disconnected' = {}
    /\ devOf' = [o \in Objects |-> IF o \in disconnected THEN None ELSE devOf[o]]
    /\ UNCHANGED <<busVars, pending, place, announced, history>>

Update ==
    \/ StartUpdate \/ BuildDevice \/ BuildGone
    \/ Disconnect \/ Attach \/ AnnounceDetached \/ AnnounceAttached
    \/ NextLoop \/ UpdateDone

Next ==
    \/ Update
    \/ StartUpdateFails \/ BuildFails
    \/ \E d \in Devices : Plug(d) \/ Unplug(d)

Spec == Init /\ [][Next]_vars

\* The polling thread sleeps for a while, updates, and does so for ever. Nothing makes
\* anything be plugged, unplugged or fail.
FairSpec == Spec /\ WF_vars(Update)

-----------------------------------------------------------------------------
(* Properties.                                                             *)

\* A port never has two devices: what a new device replaces is disconnected before the
\* new one is attached.
PortHoldsOne == \A o, p \in Attached : place[o] = place[p] => o = p

\* Everything in the tree hangs on a hub that is in the tree. Only disconnect() of a hub
\* leaves it open for a while, and only for devices that the same loop disconnects: what
\* is new is attached when its hub is, although the objects the scan builds may be
\* thrown away for existing ones.
TreeRooted ==
    \A o \in Attached :
        \/ place[o].parent \in Attached \cup {RootHub}
        \/ phase = "disconnect" /\ o \in disconnected

TreeIsBus ==
    /\ \A d \in plugged : \E o \in Attached : StandsFor(o, d)
    /\ \A o \in Attached : \E d \in plugged : StandsFor(o, d)

\* After an update during which nothing changed the tree is what is plugged in, whatever
\* earlier updates saw.
UpdateIsFaithful == quiet /\ phase = "idle" => TreeIsBus

\* Between updates listeners know exactly what is attached; and at every moment, whatever
\* they know of and is still attached hangs on a hub that they know of: they hear of a
\* new hub before they hear of what hangs on it.
EventsMatchTree ==
    /\ phase = "idle" => announced = Attached
    /\ \A o \in announced \cap Attached : place[o].parent \in announced \cup {RootHub}

\* A device that is there all the time and can be read keeps its object, if that was
\* in the right place: an earlier update that read an address which had got to another
\* device meanwhile has put that device into the wrong port, and a bus that comes or
\* goes moves the ports of the others.
SteadyDevicesKept ==
    [][\A o \in settled \cap Attached :
          (\E d \in steady : LooksLike(devOf[o], d)) => place'[o] = place[o]]_vars

\* Once the busses stay as they are the tree becomes what is plugged in, and stays so.
TreeSettles == <>[]TreeIsBus
=============================================================================
