--------------------------- MODULE TopologyProofs ---------------------------
(***************************************************************************)
(* The tree of an update and the busses it was made from: proofs about     *)
(* Topology, for any tree of devices, however many things change.          *)
(***************************************************************************)
EXTENDS Topology, ListTheorems

\* The port an object got when it was added to connectedDevices.
NewPlace(o) == connected[CHOOSE i \in DOMAIN connected : connected[i].obj = o].at

\* The tree as it will be: what was found again, and what is new.
InTree == (Attached \ disconnected) \cup NewDevices
Spot(o) == IF o \in NewDevices THEN NewPlace(o) ELSE place[o]

\* What is plugged in does fit, hubs included.
BusInv ==
    /\ \A d, e \in plugged : d # e => Fits(d, e)
    /\ \A d \in plugged : ParentOf[d] \in plugged \cup {RootHub}
    /\ \A d \in steady : ParentOf[d] \in steady \cup {RootHub}

\* The lists of an update and what they say of the tree, at each point of it.
ListsInv ==
    /\ phase # "scan" => pending = <<>>
    /\ phase = "idle" => connected = <<>> /\ disconnected = {}
    /\ phase = "scan" => disconnected \subseteq Attached
    /\ phase \in {"attach", "detached", "announce"} => disconnected \cap Attached = {}
    /\ NewDevices \cap disconnected = {}
    /\ phase \in {"idle", "scan", "disconnect"} => NewDevices \cap Attached = {}
    /\ phase \in {"detached", "announce"} => NewDevices \subseteq Attached
    /\ \A o \in NewDevices \cap Attached : place[o] = NewPlace(o)
    /\ \A i, j \in DOMAIN connected : connected[i].obj = connected[j].obj => i = j
    /\ \A o \in NewDevices : devOf[o] # None

\* A new hub is in the list before what hangs on it; nothing old hangs on a new hub; and
\* a hub that is gone while something still hangs on it was disconnected in this update.
OrderInv ==
    /\ \A i \in DOMAIN connected : connected[i].at.parent \in NewDevices =>
          \E j \in 1..(i - 1) : connected[j].obj = connected[i].at.parent
    /\ \A o \in Attached \ NewDevices : place[o].parent \notin NewDevices
    /\ \A o \in Attached : place[o].parent \in Attached \cup disconnected \cup {RootHub}

\* What listeners know in the middle of an update.
EventsInv ==
    /\ Attached \ NewDevices \subseteq announced
    /\ phase \in {"idle", "scan", "disconnect", "attach"} =>
          announced = (Attached \ NewDevices) \cup disconnected
    /\ phase = "detached" => announced \subseteq (Attached \ NewDevices) \cup disconnected
    /\ phase = "announce" =>
          /\ announced \subseteq Attached
          /\ \A i \in DOMAIN connected : connected[i].obj \in announced =>
                \A j \in 1..(i - 1) : connected[j].obj \in announced

\* The tree and what listeners know of it.
TreeInv == PortHoldsOne /\ TreeRooted /\ OrderInv /\ EventsInv

\* Every port of that tree is taken once, by an object or by a call still to be made,
\* and is a port of a hub of that tree.
PortsInv ==
    /\ \A o, p \in InTree : Spot(o) = Spot(p) => o = p
    /\ \A o \in InTree : Spot(o).parent \in InTree \cup {RootHub}
    /\ \A c \in ToSet(pending) :
          /\ c.at.parent \in InTree \cup {RootHub}
          /\ \A o \in InTree : Spot(o) # c.at
    /\ \A i, j \in DOMAIN pending : pending[i].at = pending[j].at => i = j

\* A port is the one of device d, and of the right hub.
FittedAt(at, d) ==
    IF ParentOf[d] = RootHub
      THEN /\ at.parent = RootHub
           /\ at.port = PortRank(d, HostControllers)
      ELSE /\ at.parent # RootHub
           /\ LooksLike(devOf[at.parent], ParentOf[d])
           /\ at.port = PortOf[d]

Shown(d) == \E o \in InTree : LooksLike(devOf[o], d)
Called(d) == \E c \in ToSet(pending) : c.key = KeyOf[d]

\* While nothing changes, only what is plugged in is shown or called, at its port; and
\* all that is plugged into something shown is shown or called.
FaithInv ==
    quiet => /\ \A o \in InTree : \E d \in plugged : LooksLike(devOf[o], d) /\ FittedAt(Spot(o), d)
             /\ \A c \in ToSet(pending) : \E d \in plugged : KeyOf[d] = c.key /\ FittedAt(c.at, d)
             /\ \A d \in plugged : ParentOf[d] = RootHub \/ Shown(ParentOf[d])
                                   => Shown(d) \/ Called(d)

\* An object that was in the right place is found again there, when its hub was: until
\* then its call is still to be made. After the scan none of them is left in the list.
SettledInv ==
    /\ phase = "scan" =>
        /\ settled \subseteq Attached
        /\ \A o \in settled, d \in steady : LooksLike(devOf[o], d) =>
              /\ \/ ParentOf[d] = RootHub
                 \/ /\ place[o].parent \in settled
                    /\ LooksLike(devOf[place[o].parent], ParentOf[d])
                    /\ place[o].port = PortOf[d]
              /\ \/ o \notin disconnected
                 \/ \E c \in ToSet(pending) : c.key = KeyOf[d] /\ c.at = place[o]
                 \/ ParentOf[d] # RootHub /\ place[o].parent \in disconnected
    /\ phase = "disconnect" =>
        \A o \in settled, d \in steady : LooksLike(devOf[o], d) => o \notin disconnected

TopologyInv ==
    /\ TypeOK /\ BusInv /\ ListsInv /\ PortsInv /\ FaithInv /\ SettledInv /\ TreeInv

-----------------------------------------------------------------------------
(* The busses.                                                             *)

\* d is below d, and so is everything that is plugged into what is.
LEMMA BelowClosed ==
    ASSUME NEW d \in Devices
    PROVE  d \in Below[d] /\ DownClosed(Below[d])
<1>1. d \in Below[d]
    BY DEF Below
<1>2. ASSUME NEW e \in Devices, ParentOf[e] \in Below[d]
      PROVE  e \in Below[d]
    <2>1. ASSUME NEW S \in SUBSET Devices, d \in S, DownClosed(S)
          PROVE  e \in S
        BY <1>2, <2>1 DEF Below, DownClosed
    <2> QED BY <2>1 DEF Below
<1> QED BY <1>1, <1>2 DEF DownClosed

LEMMA BusInit == Init => BusInv
BY DEF Init, BusInv

LEMMA BusStep ==
    ASSUME TypeOK, BusInv, [Next]_vars
    PROVE  BusInv'
<1>1. CASE \E d \in Devices : Plug(d)
    <2>1. PICK d \in Devices : Plug(d)
        BY <1>1
    <2>2. /\ plugged' = plugged \cup {d} /\ steady' = steady
          /\ \A e \in plugged : Fits(d, e)
          /\ ParentOf[d] \in plugged \cup {RootHub}
        BY <2>1 DEF Plug
    <2>3. \A e \in plugged : Fits(e, d)
        BY <2>2 DEF Fits
    <2> QED BY <2>2, <2>3 DEF BusInv
<1>2. CASE \E d \in Devices : Unplug(d)
    <2>1. PICK d \in Devices : Unplug(d)
        BY <1>2
    <2>2. /\ plugged' = plugged \ Below[d]
          /\ steady' = steady \ Below[d]
        BY <2>1 DEF Unplug
    <2>3. \A e \in plugged : ParentOf[e] \in Below[d] => e \in Below[d]
        BY BelowClosed DEF DownClosed, TypeOK
    <2>4. steady \subseteq plugged
        BY DEF TypeOK
    <2> QED BY <2>2, <2>3, <2>4, DevicesAssumption DEF BusInv
<1>3. CASE BuildFails
    <2> DEFINE read == {e \in plugged : KeyOf[e] = Head(pending).key}
               lost == UNION {Below[d] : d \in read}
    <2>1. plugged' = plugged /\ steady' = steady \ lost
        BY <1>3 DEF BuildFails
    <2>2. \A e \in steady : ParentOf[e] \in lost => e \in lost
        BY BelowClosed DEF DownClosed, TypeOK
    <2> HIDE DEF lost
    <2> QED BY <2>1, <2>2 DEF BusInv
<1>4. CASE StartUpdate \/ StartUpdateFails
    <2>1. plugged' = plugged /\ (steady' = plugged \/ steady' = {})
        BY <1>4 DEF StartUpdate, StartUpdateFails, busVars
    <2> QED BY <2>1 DEF BusInv
<1>5. CASE \/ BuildDevice \/ BuildGone \/ Disconnect \/ Attach \/ AnnounceDetached
           \/ AnnounceAttached \/ NextLoop \/ UpdateDone \/ UNCHANGED vars
    <2>1. plugged' = plugged /\ steady' = steady
        BY <1>5 DEF BuildDevice, BuildGone, Disconnect, Attach, AnnounceDetached,
                    AnnounceAttached, NextLoop, UpdateDone, vars, busVars, history
    <2> QED BY <2>1 DEF BusInv
<1> QED BY <1>1, <1>2, <1>3, <1>4, <1>5 DEF Next, Update

\* Two devices that are plugged in do not have the same address.
LEMMA KeyIsUnique ==
    ASSUME BusInv, NEW d \in plugged, NEW e \in plugged, KeyOf[d] = KeyOf[e]
    PROVE  d = e
BY DEF BusInv, Fits

\* ByPort() lists devices of different ports, each at its rank.
LEMMA ByPortRanks ==
    ASSUME NEW ds \in SUBSET Devices,
           \A d, e \in ds : PortOf[d] = PortOf[e] => d = e
    PROVE  /\ Cardinality(ds) \in Nat
           /\ DOMAIN ByPort(ds) = 1..Cardinality(ds)
           /\ \A i \in 1..Cardinality(ds) :
                 ByPort(ds)[i] \in ds /\ PortRank(ByPort(ds)[i], ds) = i
           /\ \A d \in ds : /\ PortRank(d, ds) \in 1..Cardinality(ds)
                            /\ ByPort(ds)[PortRank(d, ds)] = d
<1> DEFINE n == Cardinality(ds)
<1>1. IsFiniteSet(ds)
    BY DevicesAssumption, FS_Subset
<1>2. n \in Nat
    BY <1>1, FS_CardinalityType
<1>3. \A d \in ds : PortOf[d] \in Int
    BY DevicesAssumption
<1>4. /\ \A d \in ds : PortRank(d, ds) \in 1..n
      /\ \A d, e \in ds : PortRank(d, ds) = PortRank(e, ds) => d = e
      /\ \A i \in 1..n : \E d \in ds : PortRank(d, ds) = i
    <2> DEFINE upto == [d \in ds |-> {e \in ds : PortOf[e] <= PortOf[d]}]
    <2>1. \A d \in ds : upto[d] \subseteq ds /\ PortRank(d, ds) = Cardinality(upto[d])
        BY DEF PortRank
    <2>2. \A d, e \in ds : e \in upto[d] <=> PortOf[e] <= PortOf[d]
        OBVIOUS
    <2> HIDE DEF upto
    <2>3. /\ \A d \in ds : Cardinality(upto[d]) \in 1..n
          /\ \A d, e \in ds : Cardinality(upto[d]) = Cardinality(upto[e]) => d = e
          /\ \A i \in 1..n : \E d \in ds : Cardinality(upto[d]) = i
        BY <1>1, <1>3, <2>1, <2>2, RankNumbers
    <2> QED BY <2>1, <2>3
<1>5. DOMAIN ByPort(ds) = 1..n
    BY DEF ByPort
<1> HIDE DEF n
<1>6. ASSUME NEW i \in 1..n
      PROVE  ByPort(ds)[i] \in ds /\ PortRank(ByPort(ds)[i], ds) = i
    <2>1. ByPort(ds)[i] = CHOOSE d \in ds : PortRank(d, ds) = i
        BY DEF ByPort, n
    <2> QED BY <2>1, <1>4
<1>7. ASSUME NEW d \in ds
      PROVE  ByPort(ds)[PortRank(d, ds)] = d
    BY <1>4, <1>6
<1> QED BY <1>2, <1>4, <1>5, <1>6, <1>7 DEF n

\* The devices of one hub have different ports.
LEMMA PortsDiffer ==
    ASSUME BusInv, NEW p, NEW ds, ds \subseteq plugged, \A d \in ds : ParentOf[d] = p
    PROVE  \A d, e \in ds : PortOf[d] = PortOf[e] => d = e
BY DEF BusInv, Fits

Distinct(calls) == \A i, j \in DOMAIN calls : calls[i].at = calls[j].at => i = j

\* The calls for the ports of a hub: one for each device, at its port.
LEMMA PortCallsList ==
    ASSUME TypeOK, BusInv, NEW d \in Devices, NEW o \in Objects
    PROVE  /\ PortCalls(d, o) \in Seq(Calls)
           /\ Distinct(PortCalls(d, o))
           /\ \A c \in ToSet(PortCalls(d, o)) :
                 \E e \in PluggedInto(d) : c = Call(KeyOf[e], o, PortOf[e])
           /\ \A e \in PluggedInto(d) : Call(KeyOf[e], o, PortOf[e]) \in ToSet(PortCalls(d, o))
<1> DEFINE ds == PluggedInto(d)
           n == Cardinality(ds)
           cs == PortCalls(d, o)
<1>1. ds \subseteq plugged /\ ds \in SUBSET Devices /\ \A e \in ds : ParentOf[e] = d
    BY DEF PluggedInto, TypeOK
<1>2. \A e, f \in ds : PortOf[e] = PortOf[f] => e = f
    BY <1>1, PortsDiffer
<1>3. /\ n \in Nat /\ DOMAIN ByPort(ds) = 1..n
      /\ \A i \in 1..n : ByPort(ds)[i] \in ds /\ PortRank(ByPort(ds)[i], ds) = i
      /\ \A e \in ds : PortRank(e, ds) \in 1..n /\ ByPort(ds)[PortRank(e, ds)] = e
    BY <1>1, <1>2, ByPortRanks
<1>4. cs = [i \in 1..n |-> Call(KeyOf[ByPort(ds)[i]], o, PortOf[ByPort(ds)[i]])]
    BY <1>3 DEF PortCalls
<1> HIDE DEF ds, n, cs
<1>5. \A e \in ds : Call(KeyOf[e], o, PortOf[e]) \in Calls
    BY <1>1, DevicesAssumption DEF Call, Calls, Places
<1>6. cs \in [1..n -> Calls]
    BY <1>3, <1>4, <1>5
<1>7. cs \in Seq(Calls)
    BY <1>3, <1>6
<1>8. Distinct(cs)
    <2> SUFFICES ASSUME NEW i \in 1..n, NEW j \in 1..n, cs[i].at = cs[j].at PROVE i = j
        BY <1>4 DEF Distinct
    <2>1. PortOf[ByPort(ds)[i]] = PortOf[ByPort(ds)[j]]
        BY <1>4 DEF Call
    <2>2. ByPort(ds)[i] = ByPort(ds)[j]
        BY <2>1, <1>2, <1>3
    <2> QED BY <2>2, <1>3
<1>9. \A c \in ToSet(cs) : \E e \in ds : c = Call(KeyOf[e], o, PortOf[e])
    BY <1>3, <1>4 DEF ToSet
<1>10. ASSUME NEW e \in ds PROVE Call(KeyOf[e], o, PortOf[e]) \in ToSet(cs)
    <2>1. PortRank(e, ds) \in 1..n /\ cs[PortRank(e, ds)] = Call(KeyOf[e], o, PortOf[e])
        BY <1>3, <1>4
    <2> QED BY <2>1, <1>6 DEF ToSet
<1> QED BY <1>7, <1>8, <1>9, <1>10 DEF cs, ds

\* The calls for the busses: one for each host controller, at its rank.
LEMMA BusCallsList ==
    ASSUME TypeOK, BusInv
    PROVE  /\ BusCalls \in Seq(Calls)
           /\ Distinct(BusCalls)
           /\ \A c \in ToSet(BusCalls) : \E e \in HostControllers :
                 c = Call(KeyOf[e], RootHub, PortRank(e, HostControllers))
           /\ \A e \in HostControllers :
                 Call(KeyOf[e], RootHub, PortRank(e, HostControllers)) \in ToSet(BusCalls)
<1> DEFINE ds == HostControllers
           n == Cardinality(ds)
           cs == BusCalls
<1>1. ds \subseteq plugged /\ ds \in SUBSET Devices /\ \A e \in ds : ParentOf[e] = RootHub
    BY DEF HostControllers, TypeOK
<1>2. \A e, f \in ds : PortOf[e] = PortOf[f] => e = f
    BY <1>1, PortsDiffer
<1>3. /\ n \in Nat /\ DOMAIN ByPort(ds) = 1..n
      /\ \A i \in 1..n : ByPort(ds)[i] \in ds /\ PortRank(ByPort(ds)[i], ds) = i
      /\ \A e \in ds : PortRank(e, ds) \in 1..n /\ ByPort(ds)[PortRank(e, ds)] = e
    BY <1>1, <1>2, ByPortRanks
<1>4. cs = [i \in 1..n |-> Call(KeyOf[ByPort(ds)[i]], RootHub, i)]
    BY <1>3 DEF BusCalls
<1> HIDE DEF ds, n, cs
<1>5. \A e \in ds, i \in 1..n : Call(KeyOf[e], RootHub, i) \in Calls
    BY <1>1, <1>3, DevicesAssumption DEF Call, Calls, Places
<1>6. cs \in [1..n -> Calls]
    BY <1>3, <1>4, <1>5
<1>7. cs \in Seq(Calls)
    BY <1>3, <1>6
<1>8. Distinct(cs)
    BY <1>4 DEF Distinct, Call
<1>9. \A c \in ToSet(cs) : \E e \in ds : c = Call(KeyOf[e], RootHub, PortRank(e, ds))
    BY <1>3, <1>4 DEF ToSet
<1>10. ASSUME NEW e \in ds PROVE Call(KeyOf[e], RootHub, PortRank(e, ds)) \in ToSet(cs)
    <2>1. /\ PortRank(e, ds) \in 1..n
          /\ cs[PortRank(e, ds)] = Call(KeyOf[e], RootHub, PortRank(e, ds))
        BY <1>3, <1>4
    <2> QED BY <2>1, <1>6 DEF ToSet
<1> QED BY <1>7, <1>8, <1>9, <1>10 DEF cs, ds

-----------------------------------------------------------------------------
(* The lists of an update.                                                 *)

\* The port an object is to get is the one it was added with.
LEMMA NewPlaceIs ==
    ASSUME TypeOK, ListsInv, NEW i \in DOMAIN connected
    PROVE  NewPlace(connected[i].obj) = connected[i].at
<1>1. \A j \in DOMAIN connected : connected[j].obj = connected[i].obj => j = i
    BY DEF ListsInv
<1> QED BY <1>1 DEF NewPlace

LEMMA NewDevicesType ==
    ASSUME TypeOK
    PROVE  /\ \A i \in DOMAIN connected : connected[i].obj \in Objects /\ connected[i].at \in Places
           /\ NewDevices \subseteq Objects
           /\ \A o \in NewDevices : NewPlace(o) \in Places
<1>1. \A i \in DOMAIN connected : connected[i].obj \in Objects /\ connected[i].at \in Places
    <2> DEFINE E == [obj : Objects, at : Places]
    <2>1. connected \in Seq(E)
        BY DEF TypeOK
    <2>2. \A e \in E : e.obj \in Objects /\ e.at \in Places
        OBVIOUS
    <2> HIDE DEF E
    <2>3. \A i \in DOMAIN connected : connected[i] \in E
        BY <2>1, LenProperties, ElementOfSeq
    <2> QED BY <2>2, <2>3
<1>2. ASSUME NEW o \in NewDevices PROVE NewPlace(o) \in Places
    <2>1. \E i \in DOMAIN connected : connected[i].obj = o
        BY DEF NewDevices
    <2> QED BY <1>1, <2>1 DEF NewPlace
<1> QED BY <1>1, <1>2 DEF NewDevices

\* Adding an object to connectedDevices.
LEMMA AddedToList ==
    ASSUME TypeOK, ListsInv, NEW o \in Objects, o \notin NewDevices, NEW at \in Places,
           connected' = Append(connected, [obj |-> o, at |-> at])
    PROVE  /\ connected' \in Seq([obj : Objects, at : Places])
           /\ NewDevices' = NewDevices \cup {o}
           /\ NewPlace(o)' = at
           /\ \A p \in NewDevices : NewPlace(p)' = NewPlace(p)
           /\ \A i, j \in DOMAIN connected' : connected'[i].obj = connected'[j].obj => i = j
<1> DEFINE n == Len(connected)
           e == [obj |-> o, at |-> at]
           E == [obj : Objects, at : Places]
<1>1. connected \in Seq(E) /\ e \in E /\ e.obj = o /\ e.at = at
    BY DEF TypeOK
<1> HIDE DEF e, E
<1>2. /\ n \in Nat /\ DOMAIN connected = 1..n
      /\ connected' \in Seq(E)
      /\ DOMAIN connected' = 1..(n + 1)
      /\ \A i \in 1..n : connected'[i] = connected[i]
      /\ connected'[n + 1] = e
    <2>1. connected' = Append(connected, e)
        BY DEF e
    <2> QED BY <1>1, <2>1, AppendProperties, LenProperties
<1> HIDE DEF n
<1>3. \A i \in 1..(n + 1) : i \in 1..n \/ i = n + 1
    BY <1>2
<1>4. (\A i \in 1..n : i \in 1..(n + 1)) /\ n + 1 \in 1..(n + 1)
    BY <1>2
<1>5. \A i \in 1..n : connected[i].obj # o
    BY <1>2 DEF NewDevices
<1>6. \A i, j \in 1..n : connected[i].obj = connected[j].obj => i = j
    BY <1>2 DEF ListsInv
<1>7. \A i, j \in DOMAIN connected' : connected'[i].obj = connected'[j].obj => i = j
    BY <1>1, <1>2, <1>3, <1>4, <1>5, <1>6
<1>8. NewDevices' = NewDevices \cup {o}
    BY <1>1, <1>2, <1>3, <1>4 DEF NewDevices
<1>9. NewPlace(o)' = at
    <2>1. connected'[n + 1].obj = o /\ connected'[n + 1].at = at /\ n + 1 \in DOMAIN connected'
        BY <1>1, <1>2, <1>4
    <2>2. \A i \in DOMAIN connected' : connected'[i].obj = o <=> i = n + 1
        BY <1>7, <2>1
    <2> QED BY <2>1, <2>2 DEF NewPlace
<1>10. ASSUME NEW p \in NewDevices PROVE NewPlace(p)' = NewPlace(p)
    <2>1. PICK i \in 1..n : connected[i].obj = p
        BY <1>2 DEF NewDevices
    <2>2. i \in DOMAIN connected' /\ connected'[i] = connected[i]
        BY <1>2, <1>4
    <2>3. \A j \in DOMAIN connected' : connected'[j].obj = p <=> j = i
        BY <1>7, <2>1, <2>2
    <2>4. NewPlace(p)' = connected'[i].at
        BY <2>2, <2>3 DEF NewPlace
    <2>5. NewPlace(p) = connected[i].at
        BY <2>1, <1>2, NewPlaceIs
    <2> QED BY <2>2, <2>4, <2>5
<1> QED BY <1>2, <1>7, <1>8, <1>9, <1>10 DEF E

\* What is left of the calls when the first was made.
LEMMA FirstCall ==
    ASSUME TypeOK, pending # <<>>
    PROVE  /\ Head(pending) \in Calls
           /\ Head(pending).at \in Places
           /\ Head(pending) \in ToSet(pending)
           /\ Tail(pending) \in Seq(Calls)
           /\ ToSet(pending) = ToSet(Tail(pending)) \cup {Head(pending)}
           /\ Distinct(pending) => /\ Distinct(Tail(pending))
                                   /\ \A c \in ToSet(Tail(pending)) : c.at # Head(pending).at
<1> DEFINE n == Len(pending)
           t == Tail(pending)
<1>1. pending \in Seq(Calls)
    BY DEF TypeOK
<1>2. /\ Head(pending) \in Calls /\ t \in Seq(Calls)
      /\ Head(pending) \in ToSet(pending)
      /\ ToSet(pending) = ToSet(t) \cup {Head(pending)}
    BY <1>1, TailElements
<1>3. Head(pending).at \in Places
    BY <1>2 DEF Calls
<1>4. /\ n \in Nat \ {0} /\ DOMAIN pending = 1..n
      /\ DOMAIN t = 1..(n - 1)
      /\ \A i \in 1..(n - 1) : t[i] = pending[i + 1]
      /\ Head(pending) = pending[1]
    BY <1>1, HeadTailProperties, LenProperties, EmptySeq
<1> HIDE DEF n, t
<1>5. \A i \in 1..(n - 1) : i + 1 \in 1..n /\ i + 1 # 1
    BY <1>4
<1>6. 1 \in 1..n
    BY <1>4
<1>7. ASSUME Distinct(pending)
      PROVE  Distinct(t) /\ \A c \in ToSet(t) : c.at # Head(pending).at
    <2>1. \A i, j \in 1..n : pending[i].at = pending[j].at => i = j
        BY <1>4, <1>7 DEF Distinct
    <2>2. \A i, j \in 1..(n - 1) : t[i].at = t[j].at => i + 1 = j + 1
        BY <1>4, <1>5, <2>1
    <2>3. \A i, j \in 1..(n - 1) : i + 1 = j + 1 => i = j
        BY <1>4
    <2>4. \A i \in 1..(n - 1) : t[i].at # pending[1].at
        BY <1>4, <1>5, <1>6, <2>1
    <2> QED BY <1>4, <2>2, <2>3, <2>4 DEF Distinct, ToSet
<1> QED BY <1>2, <1>3, <1>7 DEF t

\* Calls with ports of their own go before the others.
LEMMA MoreCalls ==
    ASSUME NEW s \in Seq(Calls), NEW t \in Seq(Calls)
    PROVE  /\ s \o t \in Seq(Calls)
           /\ ToSet(s \o t) = ToSet(s) \cup ToSet(t)
           /\ /\ Distinct(s) /\ Distinct(t)
              /\ \A c \in ToSet(s), e \in ToSet(t) : c.at # e.at
              => Distinct(s \o t)
<1> DEFINE m == Len(s)
           n == Len(t)
           u == s \o t
<1>1. u \in Seq(Calls) /\ ToSet(u) = ToSet(s) \cup ToSet(t)
    BY ConcatElements
<1>2. /\ m \in Nat /\ DOMAIN s = 1..m
      /\ n \in Nat /\ DOMAIN t = 1..n
      /\ DOMAIN u = 1..(m + n)
      /\ \A i \in 1..(m + n) : u[i] = IF i <= m THEN s[i] ELSE t[i - m]
    <2>1. /\ Len(u) = m + n /\ u \in Seq(Calls)
          /\ \A i \in 1..(m + n) : u[i] = IF i <= m THEN s[i] ELSE t[i - m]
        BY ConcatProperties
    <2> QED BY <2>1, LenProperties
<1> HIDE DEF m, n, u
<1>3. \A i \in 1..(m + n) : \/ i \in 1..m /\ u[i] = s[i]
                            \/ i - m \in 1..n /\ u[i] = t[i - m]
    <2> SUFFICES ASSUME NEW i \in 1..(m + n)
                 PROVE  \/ i \in 1..m /\ u[i] = s[i]
                        \/ i - m \in 1..n /\ u[i] = t[i - m]
        OBVIOUS
    <2>1. CASE i <= m
        BY <2>1, <1>2
    <2>2. CASE ~(i <= m)
        BY <2>2, <1>2
    <2> QED BY <2>1, <2>2
<1>4. ASSUME Distinct(s), Distinct(t),
             \A c \in ToSet(s), e \in ToSet(t) : c.at # e.at
      PROVE  Distinct(u)
    <2>1. \A i, j \in 1..m : s[i].at = s[j].at => i = j
        BY <1>2, <1>4 DEF Distinct
    <2>2. \A i, j \in 1..n : t[i].at = t[j].at => i = j
        BY <1>2, <1>4 DEF Distinct
    <2>3. \A i \in 1..m, j \in 1..n : s[i].at # t[j].at
        BY <1>2, <1>4 DEF ToSet
    <2>4. ASSUME NEW i \in 1..(m + n), NEW j \in 1..(m + n), u[i].at = u[j].at
          PROVE  i = j
        <3>1. CASE i - m \in 1..n /\ u[i] = t[i - m] /\ j - m \in 1..n /\ u[j] = t[j - m]
            <4>1. i - m = j - m
                BY <2>2, <2>4, <3>1
            <4> QED BY <4>1, <1>2
        <3> QED BY <1>3, <2>1, <2>3, <2>4, <3>1
    <2> QED BY <1>2, <2>4 DEF Distinct
<1> QED BY <1>1, <1>4 DEF u

-----------------------------------------------------------------------------
(* One call of build_device() that finds a device, whether its object is   *)
(* kept or new.                                                            *)

\* Some facts about the next call that every case uses.
Found(o, d) ==
    /\ o \in Objects \ InTree
    /\ InTree' = InTree \cup {o}
    /\ \A p \in InTree : Spot(p)' = Spot(p) /\ devOf'[p] = devOf[p]
    /\ Spot(o)' = Head(pending).at
    /\ d \in plugged /\ KeyOf[d] = Head(pending).key
    /\ LooksLike(devOf'[o], d)
    /\ pending' = PortCalls(d, o) \o Tail(pending)
    /\ UNCHANGED <<plugged, quiet>>

LEMMA FoundCalls ==
    ASSUME TypeOK, BusInv, PortsInv, pending # <<>>, NEW o, NEW d, Found(o, d)
    PROVE  /\ pending' \in Seq(Calls)
           /\ ToSet(pending') = ToSet(PortCalls(d, o)) \cup ToSet(Tail(pending))
           /\ Distinct(pending')
           /\ \A c \in ToSet(PortCalls(d, o)) :
                 \E e \in PluggedInto(d) : c = Call(KeyOf[e], o, PortOf[e])
           /\ \A e \in PluggedInto(d) : Call(KeyOf[e], o, PortOf[e]) \in ToSet(PortCalls(d, o))
<1>1. d \in Devices /\ o \in Objects /\ o \notin InTree
    BY DEF Found, TypeOK
<1>2. /\ PortCalls(d, o) \in Seq(Calls)
      /\ Distinct(PortCalls(d, o))
      /\ \A c \in ToSet(PortCalls(d, o)) :
            \E e \in PluggedInto(d) : c = Call(KeyOf[e], o, PortOf[e])
      /\ \A e \in PluggedInto(d) : Call(KeyOf[e], o, PortOf[e]) \in ToSet(PortCalls(d, o))
    BY <1>1, PortCallsList
<1>3. Distinct(pending)
    BY DEF PortsInv, Distinct
<1>4. /\ Tail(pending) \in Seq(Calls) /\ Distinct(Tail(pending))
      /\ ToSet(pending) = ToSet(Tail(pending)) \cup {Head(pending)}
    BY <1>3, FirstCall
<1>5. \A c \in ToSet(PortCalls(d, o)) : c.at.parent = o
    BY <1>2 DEF Call
<1>6. \A c \in ToSet(Tail(pending)) : c.at.parent # o
    BY <1>1, <1>4, DevicesAssumption DEF PortsInv
<1>7. \A c \in ToSet(PortCalls(d, o)), e \in ToSet(Tail(pending)) : c.at # e.at
    BY <1>5, <1>6
<1>8. pending' = PortCalls(d, o) \o Tail(pending)
    BY DEF Found
<1> QED BY <1>2, <1>4, <1>7, <1>8, MoreCalls

LEMMA FoundPorts ==
    ASSUME TypeOK, BusInv, PortsInv, pending # <<>>, NEW o, NEW d, Found(o, d)
    PROVE  PortsInv'
<1> DEFINE head == Head(pending)
<1>1. /\ o \in Objects /\ o \notin InTree /\ o # RootHub
      /\ InTree' = InTree \cup {o}
      /\ \A p \in InTree : Spot(p)' = Spot(p)
      /\ Spot(o)' = head.at
    BY DevicesAssumption DEF Found
<1>2. /\ head \in ToSet(pending)
      /\ ToSet(pending) = ToSet(Tail(pending)) \cup {head}
      /\ \A c \in ToSet(Tail(pending)) : c.at # head.at
    BY FirstCall DEF PortsInv, Distinct
<1>3. /\ ToSet(pending') = ToSet(PortCalls(d, o)) \cup ToSet(Tail(pending))
      /\ Distinct(pending')
      /\ \A c \in ToSet(PortCalls(d, o)) : c.at.parent = o
    BY FoundCalls DEF Call
<1> HIDE DEF head
<1>4. \A p, q \in InTree' : Spot(p)' = Spot(q)' => p = q
    BY <1>1, <1>2 DEF PortsInv
<1>5. \A p \in InTree' : (Spot(p)').parent \in InTree' \cup {RootHub}
    BY <1>1, <1>2 DEF PortsInv
<1>6. \A p \in InTree' : (Spot(p)').parent # o
    BY <1>1, <1>2 DEF PortsInv
<1>7. ASSUME NEW c \in ToSet(pending')
      PROVE  /\ c.at.parent \in InTree' \cup {RootHub}
             /\ \A p \in InTree' : Spot(p)' # c.at
    <2>1. CASE c \in ToSet(PortCalls(d, o))
        BY <2>1, <1>1, <1>3, <1>6
    <2>2. CASE c \in ToSet(Tail(pending))
        BY <2>2, <1>1, <1>2 DEF PortsInv
    <2> QED BY <2>1, <2>2, <1>3
<1> QED BY <1>3, <1>4, <1>5, <1>7 DEF PortsInv, Distinct

LEMMA FoundFaith ==
    ASSUME TypeOK, BusInv, PortsInv, FaithInv, pending # <<>>, NEW o, NEW d, Found(o, d)
    PROVE  FaithInv'
<1> DEFINE head == Head(pending)
<1> SUFFICES ASSUME quiet
             PROVE  /\ \A p \in InTree' : \E e \in plugged :
                          LooksLike(devOf'[p], e) /\ FittedAt(Spot(p), e)'
                    /\ \A c \in ToSet(pending') : \E e \in plugged :
                          KeyOf[e] = c.key /\ FittedAt(c.at, e)'
                    /\ \A e \in plugged : ParentOf[e] = RootHub \/ Shown(ParentOf[e])'
                                          => Shown(e)' \/ Called(e)'
    BY DEF FaithInv, Found, LooksLike
<1>1. /\ o \in Objects /\ o \notin InTree /\ o # RootHub
      /\ InTree' = InTree \cup {o}
      /\ \A p \in InTree : Spot(p)' = Spot(p) /\ devOf'[p] = devOf[p]
      /\ Spot(o)' = head.at
      /\ d \in plugged /\ KeyOf[d] = head.key
      /\ LooksLike(devOf'[o], d)
      /\ plugged' = plugged
    BY DevicesAssumption DEF Found
<1>2. /\ head \in ToSet(pending)
      /\ ToSet(pending) = ToSet(Tail(pending)) \cup {head}
    BY FirstCall
<1>3. /\ ToSet(pending') = ToSet(PortCalls(d, o)) \cup ToSet(Tail(pending))
      /\ \A c \in ToSet(PortCalls(d, o)) :
            \E e \in PluggedInto(d) : c = Call(KeyOf[e], o, PortOf[e])
      /\ \A e \in PluggedInto(d) : Call(KeyOf[e], o, PortOf[e]) \in ToSet(PortCalls(d, o))
    BY FoundCalls
<1>4. /\ \A p \in InTree : \E e \in plugged : LooksLike(devOf[p], e) /\ FittedAt(Spot(p), e)
      /\ \A c \in ToSet(pending) : \E e \in plugged : KeyOf[e] = c.key /\ FittedAt(c.at, e)
      /\ \A e \in plugged : ParentOf[e] = RootHub \/ Shown(ParentOf[e]) => Shown(e) \/ Called(e)
    BY DEF FaithInv
<1> HIDE DEF head
\* What fitted still fits: the hubs of the tree stay what they are.
<1>5. ASSUME NEW at, NEW e, at.parent \in InTree \cup {RootHub}, FittedAt(at, e)
      PROVE  FittedAt(at, e)'
    <2>1. at.parent # RootHub => devOf'[at.parent] = devOf[at.parent]
        BY <1>1, <1>5
    <2>2. PortRank(e, HostControllers)' = PortRank(e, HostControllers)
        BY <1>1 DEF PortRank, HostControllers
    <2> QED BY <1>5, <2>1, <2>2 DEF FittedAt, LooksLike
<1>6. \A p \in InTree : Spot(p).parent \in InTree \cup {RootHub}
    BY DEF PortsInv
<1>7. \A c \in ToSet(pending) : c.at.parent \in InTree \cup {RootHub}
    BY DEF PortsInv
<1>8. ASSUME NEW p \in InTree'
      PROVE  \E e \in plugged : LooksLike(devOf'[p], e) /\ FittedAt(Spot(p), e)'
    <2>1. CASE p \in InTree
        <3>1. PICK e \in plugged : LooksLike(devOf[p], e) /\ FittedAt(Spot(p), e)
            BY <2>1, <1>4
        <3>2. FittedAt(Spot(p), e)'
            <4>1. \A at : at = Spot(p) => FittedAt(at, e)'
                BY <3>1, <2>1, <1>5, <1>6
            <4>2. Spot(p)' = Spot(p)
                BY <2>1, <1>1
            <4> QED BY <4>1, <4>2 DEF FittedAt
        <3> QED BY <3>1, <3>2, <2>1, <1>1
    <2>2. CASE p = o
        <3>1. PICK e \in plugged : KeyOf[e] = head.key /\ FittedAt(head.at, e)
            BY <1>2, <1>4
        <3>2. e = d
            BY <3>1, <1>1, KeyIsUnique
        <3>3. FittedAt(Spot(o), d)'
            <4>1. \A at : at = head.at => FittedAt(at, d)'
                BY <3>1, <3>2, <1>2, <1>5, <1>7
            <4>2. Spot(o)' = head.at
                BY <1>1
            <4> QED BY <4>1, <4>2 DEF FittedAt
        <3> QED BY <3>3, <2>2, <1>1
    <2> QED BY <2>1, <2>2, <1>1
<1>9. ASSUME NEW c \in ToSet(pending')
      PROVE  \E e \in plugged : KeyOf[e] = c.key /\ FittedAt(c.at, e)'
    <2>1. CASE c \in ToSet(PortCalls(d, o))
        <3>1. PICK e \in PluggedInto(d) : c = Call(KeyOf[e], o, PortOf[e])
            BY <2>1, <1>3
        <3>2. e \in plugged /\ ParentOf[e] = d /\ d # RootHub
            BY <1>1, DevicesAssumption DEF PluggedInto, TypeOK
        <3>3. c.key = KeyOf[e] /\ c.at.parent = o /\ c.at.port = PortOf[e]
            BY <3>1 DEF Call
        <3>4. FittedAt(c.at, e)'
            BY <3>2, <3>3, <1>1 DEF FittedAt, LooksLike
        <3> QED BY <3>2, <3>3, <3>4
    <2>2. CASE c \in ToSet(Tail(pending))
        BY <2>2, <1>2, <1>4, <1>5, <1>7
    <2> QED BY <2>1, <2>2, <1>3
<1>10. ASSUME NEW e \in plugged, ParentOf[e] = RootHub \/ Shown(ParentOf[e])'
       PROVE  Shown(e)' \/ Called(e)'
    <2>1. CASE e = d
        BY <2>1, <1>1 DEF Shown, LooksLike
    <2>2. CASE e \in PluggedInto(d)
        <3>1. Call(KeyOf[e], o, PortOf[e]) \in ToSet(pending')
            BY <2>2, <1>3
        <3>2. Call(KeyOf[e], o, PortOf[e]).key = KeyOf[e]
            BY DEF Call
        <3> QED BY <3>1, <3>2 DEF Called
    <2>3. CASE e # d /\ e \notin PluggedInto(d)
        <3>1. ParentOf[e] # d
            BY <2>3 DEF PluggedInto
        <3>2. ParentOf[e] = RootHub \/ Shown(ParentOf[e])
            <4>1. CASE ParentOf[e] # RootHub
                <5>1. PICK p \in InTree' : LooksLike(devOf'[p], ParentOf[e])
                    BY <4>1, <1>10 DEF Shown, LooksLike
                <5>2. ParentOf[e] \in plugged
                    BY <4>1 DEF BusInv
                <5>3. p # o
                    <6>1. p = o => KeyOf[ParentOf[e]] = KeyOf[d]
                        BY <5>1, <1>1 DEF LooksLike
                    <6> QED BY <6>1, <5>2, <3>1, <1>1, KeyIsUnique
                <5> QED BY <5>1, <5>3, <1>1 DEF Shown
            <4> QED BY <4>1
        <3>3. Shown(e) \/ Called(e)
            BY <3>2, <1>4
        <3>4. Shown(e) => Shown(e)'
            BY <1>1 DEF Shown, LooksLike
        <3>5. Called(e) => Called(e)'
            <4>1. KeyOf[e] # head.key
                BY <2>3, <1>1, KeyIsUnique
            <4> QED BY <4>1, <1>2, <1>3 DEF Called
        <3> QED BY <3>3, <3>4, <3>5
    <2> QED BY <2>1, <2>2, <2>3
<1> QED BY <1>8, <1>9, <1>10

-----------------------------------------------------------------------------
(* build_device() for an object that is kept, and for a new one.           *)

KeepStep(o, d) ==
    /\ phase = "scan" /\ pending # <<>>
    /\ d \in plugged /\ KeyOf[d] = Head(pending).key
    /\ o \in Objects /\ place[o] = Head(pending).at
    /\ KeepExisting(o, d)
    /\ UNCHANGED <<busVars, phase, place, announced, history>>

AddStep(o, d) ==
    /\ phase = "scan" /\ pending # <<>>
    /\ d \in plugged /\ KeyOf[d] = Head(pending).key
    /\ \A p \in Objects : place[p] = Head(pending).at => ~IsUsbDevicesEqual(devOf[p], d)
    /\ o \in Unknown
    /\ AddNew(o, Head(pending).at, d)
    /\ UNCHANGED <<busVars, phase, place, announced, history>>

LEMMA BuildCases ==
    ASSUME BuildDevice
    PROVE  \E o, d : KeepStep(o, d) \/ AddStep(o, d)
<1>1. PICK d \in plugged : /\ KeyOf[d] = Head(pending).key
                           /\ CheckUsbDeviceImp(Head(pending).at, d)
    BY DEF BuildDevice
<1>2. /\ phase = "scan" /\ pending # <<>>
      /\ UNCHANGED <<busVars, phase, place, announced, history>>
    BY DEF BuildDevice
<1>3. CASE \E o \in Objects : place[o] = Head(pending).at /\ KeepExisting(o, d)
    BY <1>1, <1>2, <1>3 DEF KeepStep
<1>4. CASE /\ \A o \in Objects : place[o] = Head(pending).at
                                 => ~IsUsbDevicesEqual(devOf[o], d)
           /\ AddNew(NewObject, Head(pending).at, d)
    <2>1. NewObject \in Unknown
        BY <1>4 DEF AddNew, NewObject
    <2> QED BY <1>1, <1>2, <1>4, <2>1 DEF AddStep
<1> QED BY <1>1, <1>3, <1>4 DEF CheckUsbDeviceImp

LEMMA NoneIsNoPlace == None \notin Places
BY DevicesAssumption DEF Places

\* The object that is kept was in the tree, and not found yet.
LEMMA KeepFound ==
    ASSUME TypeOK, ListsInv, PortsInv, NEW o, NEW d, KeepStep(o, d)
    PROVE  /\ Found(o, d)
           /\ o \in Attached /\ o \in disconnected
           /\ disconnected' = disconnected \ {o}
           /\ UNCHANGED <<connected, devOf, place, phase, announced, plugged>>
<1>1. /\ phase = "scan" /\ pending # <<>>
      /\ d \in plugged /\ KeyOf[d] = Head(pending).key
      /\ o \in Objects /\ place[o] = Head(pending).at
      /\ disconnected' = disconnected \ {o}
      /\ pending' = PortCalls(d, o) \o Tail(pending)
      /\ IsUsbDevicesEqual(devOf[o], d)
      /\ UNCHANGED <<connected, devOf, place, phase, announced, plugged, quiet>>
    BY DEF KeepStep, KeepExisting, busVars, history
<1>2. Head(pending).at \in Places /\ Head(pending) \in ToSet(pending)
    BY <1>1, FirstCall
<1>3. o \in Attached
    BY <1>1, <1>2, NoneIsNoPlace DEF Attached
<1>4. NewDevices \cap Attached = {} /\ disconnected \subseteq Attached
    BY <1>1 DEF ListsInv
<1>5. o \notin InTree
    <2>1. Spot(o) = Head(pending).at
        BY <1>1, <1>3, <1>4 DEF Spot
    <2> QED BY <2>1, <1>2 DEF PortsInv
<1>6. o \in disconnected
    BY <1>3, <1>5 DEF InTree
<1>7. Attached' = Attached /\ NewDevices' = NewDevices /\ \A p : NewPlace(p)' = NewPlace(p)
    BY <1>1 DEF Attached, NewDevices, NewPlace
<1>8. InTree' = InTree \cup {o}
    BY <1>1, <1>3, <1>7 DEF InTree
<1>9. \A p : Spot(p)' = Spot(p)
    BY <1>1, <1>7 DEF Spot
<1>10. Spot(o)' = Head(pending).at
    BY <1>1, <1>3, <1>4, <1>9 DEF Spot
<1>11. LooksLike(devOf'[o], d)
    BY <1>1 DEF IsUsbDevicesEqual, LooksLike
<1> QED BY <1>1, <1>3, <1>5, <1>6, <1>8, <1>9, <1>10, <1>11 DEF Found

\* Nobody knew the new object.
LEMMA AddFound ==
    ASSUME TypeOK, ListsInv, NEW o, NEW d, AddStep(o, d)
    PROVE  /\ Found(o, d)
           /\ o \in Unknown /\ d \in Devices
           /\ connected' = Append(connected, [obj |-> o, at |-> Head(pending).at])
           /\ connected' \in Seq([obj : Objects, at : Places])
           /\ NewDevices' = NewDevices \cup {o}
           /\ \A i, j \in DOMAIN connected' : connected'[i].obj = connected'[j].obj => i = j
           /\ devOf' = [devOf EXCEPT ![o] = d]
           /\ UNCHANGED <<disconnected, place, phase, announced, plugged>>
<1>1. /\ phase = "scan" /\ pending # <<>>
      /\ d \in plugged /\ d \in Devices /\ KeyOf[d] = Head(pending).key
      /\ o \in Unknown
      /\ connected' = Append(connected, [obj |-> o, at |-> Head(pending).at])
      /\ devOf' = [devOf EXCEPT ![o] = d]
      /\ pending' = PortCalls(d, o) \o Tail(pending)
      /\ UNCHANGED <<disconnected, place, phase, announced, plugged, quiet>>
    BY DEF AddStep, AddNew, busVars, history, TypeOK
<1>2. Head(pending).at \in Places
    BY <1>1, FirstCall
<1>3. /\ o \in Objects /\ o \notin NewDevices /\ o \notin Attached /\ o \notin disconnected
    BY <1>1 DEF Unknown
<1>4. /\ connected' \in Seq([obj : Objects, at : Places])
      /\ NewDevices' = NewDevices \cup {o}
      /\ NewPlace(o)' = Head(pending).at
      /\ \A p \in NewDevices : NewPlace(p)' = NewPlace(p)
      /\ \A i, j \in DOMAIN connected' : connected'[i].obj = connected'[j].obj => i = j
    BY <1>1, <1>2, <1>3, AddedToList
<1>5. Attached' = Attached
    BY <1>1 DEF Attached
<1>6. o \notin InTree /\ InTree' = InTree \cup {o}
    BY <1>1, <1>3, <1>4, <1>5 DEF InTree
<1>7. Spot(o)' = Head(pending).at
    BY <1>4 DEF Spot
<1>8. ASSUME NEW p \in InTree PROVE Spot(p)' = Spot(p) /\ devOf'[p] = devOf[p]
    <2>1. p # o
        BY <1>6
    <2>2. Spot(p)' = Spot(p)
        BY <2>1, <1>1, <1>4 DEF Spot
    <2>3. devOf'[p] = devOf[p]
        BY <2>1, <1>1 DEF TypeOK
    <2> QED BY <2>2, <2>3
<1>9. devOf'[o] = d
    BY <1>1, <1>3 DEF TypeOK
<1>10. LooksLike(devOf'[o], d)
    BY <1>9 DEF LooksLike
<1> QED BY <1>1, <1>3, <1>4, <1>6, <1>7, <1>8, <1>10 DEF Found

LEMMA KeepLists ==
    ASSUME TypeOK, ListsInv, PortsInv, NEW o, NEW d, KeepStep(o, d)
    PROVE  ListsInv'
<1>1. /\ o \in Attached /\ o \in disconnected
      /\ disconnected' = disconnected \ {o}
      /\ UNCHANGED <<connected, devOf, place, phase, announced, plugged>>
    BY KeepFound
<1>2. phase = "scan"
    BY DEF KeepStep
<1>3. Attached' = Attached /\ NewDevices' = NewDevices
    BY <1>1 DEF Attached, NewDevices
<1>4. o \notin NewDevices
    BY <1>1 DEF ListsInv
<1>5. \A p : NewPlace(p)' = NewPlace(p)
    BY <1>1 DEF NewPlace
<1> QED BY <1>1, <1>2, <1>3, <1>4, <1>5 DEF ListsInv

LEMMA KeepTree ==
    ASSUME TypeOK, ListsInv, PortsInv, TreeInv, NEW o, NEW d, KeepStep(o, d)
    PROVE  TreeInv'
<1>1. /\ o \in Attached /\ o \in disconnected
      /\ disconnected' = disconnected \ {o}
      /\ UNCHANGED <<connected, devOf, place, phase, announced, plugged>>
    BY KeepFound
<1>2. phase = "scan"
    BY DEF KeepStep
<1>3. Attached' = Attached /\ NewDevices' = NewDevices
    BY <1>1 DEF Attached, NewDevices
<1>4. o \notin NewDevices
    BY <1>1 DEF ListsInv
<1>5. PortHoldsOne' /\ TreeRooted'
    BY <1>1, <1>2, <1>3 DEF TreeInv, PortHoldsOne, TreeRooted
<1>6. OrderInv'
    BY <1>1, <1>2, <1>3 DEF TreeInv, OrderInv, TreeRooted
<1>7. EventsInv'
    BY <1>1, <1>2, <1>3, <1>4 DEF TreeInv, EventsInv
<1> QED BY <1>5, <1>6, <1>7 DEF TreeInv

LEMMA AddLists ==
    ASSUME TypeOK, ListsInv, NEW o, NEW d, AddStep(o, d)
    PROVE  ListsInv'
<1>1. /\ o \in Unknown /\ d \in Devices
      /\ NewDevices' = NewDevices \cup {o}
      /\ \A i, j \in DOMAIN connected' : connected'[i].obj = connected'[j].obj => i = j
      /\ devOf' = [devOf EXCEPT ![o] = d]
      /\ UNCHANGED <<disconnected, place, phase, announced>>
    BY AddFound
<1>2. phase = "scan"
    BY DEF AddStep
<1>3. Attached' = Attached
    BY <1>1 DEF Attached
<1>4. o \in Objects /\ o \notin Attached /\ o \notin disconnected
    BY <1>1 DEF Unknown
<1>5. \A p \in NewDevices' : devOf'[p] # None
    BY <1>1, <1>4, NewDevicesType, DevicesAssumption DEF TypeOK, ListsInv
<1>6. NewDevices' \cap Attached' = {}
    BY <1>1, <1>2, <1>3, <1>4 DEF ListsInv
<1> QED BY <1>1, <1>2, <1>3, <1>4, <1>5, <1>6 DEF ListsInv

\* The hub of a new device is an old one, or already in the list.
LEMMA AddTree ==
    ASSUME TypeOK, ListsInv, PortsInv, TreeInv, NEW o, NEW d, AddStep(o, d)
    PROVE  TreeInv'
<1> DEFINE n == Len(connected)
           e == [obj |-> o, at |-> Head(pending).at]
<1>1. /\ o \in Unknown
      /\ connected' = Append(connected, e)
      /\ NewDevices' = NewDevices \cup {o}
      /\ UNCHANGED <<disconnected, place, phase, announced>>
    BY AddFound
<1>2. phase = "scan" /\ pending # <<>>
    BY DEF AddStep
<1>3. Attached' = Attached
    BY <1>1 DEF Attached
<1>4. /\ o \in Objects /\ o \notin Attached /\ o \notin disconnected
      /\ o \notin NewDevices /\ o # RootHub
    BY <1>1, DevicesAssumption DEF Unknown
<1>5. PortHoldsOne' /\ TreeRooted'
    BY <1>1, <1>3 DEF TreeInv, PortHoldsOne, TreeRooted
<1>6. /\ n \in Nat /\ DOMAIN connected = 1..n
      /\ DOMAIN connected' = 1..(n + 1)
      /\ \A i \in 1..n : connected'[i] = connected[i]
      /\ connected'[n + 1] = e
      /\ e.at = Head(pending).at
    <2> DEFINE E == [obj : Objects, at : Places]
    <2>1. connected \in Seq(E) /\ e \in E
        BY <1>2, <1>4, FirstCall DEF TypeOK
    <2>2. e.at = Head(pending).at
        OBVIOUS
    <2> HIDE DEF e, E
    <2> QED BY <2>1, <2>2, <1>1, AppendProperties, LenProperties
<1> HIDE DEF n, e
<1>7. ASSUME NEW i \in DOMAIN connected', connected'[i].at.parent \in NewDevices'
      PROVE  \E j \in 1..(i - 1) : connected'[j].obj = connected'[i].at.parent
    <2>1. CASE i \in 1..n
        <3>1. \A j \in 1..(i - 1) : j \in 1..n
            BY <2>1, <1>6
        <3>2. connected[i].at.parent # o
            <4>1. connected[i].at.parent \in InTree \cup {RootHub}
                <5>1. connected[i].obj \in NewDevices /\ NewPlace(connected[i].obj) = connected[i].at
                    BY <2>1, <1>6, NewPlaceIs DEF NewDevices
                <5> QED BY <5>1 DEF PortsInv, InTree, Spot
            <4> QED BY <4>1, <1>4 DEF InTree
        <3>3. \E j \in 1..(i - 1) : connected[j].obj = connected[i].at.parent
            BY <2>1, <3>2, <1>1, <1>6, <1>7 DEF TreeInv, OrderInv
        <3> QED BY <3>1, <3>3, <2>1, <1>6
    <2>2. CASE i = n + 1
        <3>1. Head(pending).at.parent \in InTree \cup {RootHub}
            BY <1>2, FirstCall DEF PortsInv
        <3>2. Head(pending).at.parent \in NewDevices
            BY <3>1, <2>2, <1>1, <1>4, <1>6, <1>7 DEF InTree
        <3>3. PICK j \in 1..n : connected[j].obj = Head(pending).at.parent
            BY <3>2, <1>6 DEF NewDevices
        <3>4. j \in 1..(i - 1)
            BY <2>2, <1>6
        <3> QED BY <3>3, <3>4, <2>2, <1>6
    <2>3. i \in 1..n \/ i = n + 1
        BY <1>6
    <2> QED BY <2>1, <2>2, <2>3
<1>8. \A p \in Attached : place[p].parent \in Attached \cup {RootHub}
    BY <1>2 DEF TreeInv, TreeRooted
<1>9. OrderInv'
    BY <1>1, <1>3, <1>4, <1>7, <1>8 DEF TreeInv, OrderInv
<1>10. EventsInv'
    BY <1>1, <1>2, <1>3, <1>4 DEF TreeInv, EventsInv
<1> QED BY <1>5, <1>9, <1>10 DEF TreeInv

\* The call that a settled object waits for finds it, or its ports are called next.
LEMMA KeepSettled ==
    ASSUME TypeOK, BusInv, ListsInv, PortsInv, SettledInv, PortHoldsOne,
           NEW o, NEW d, KeepStep(o, d)
    PROVE  SettledInv'
<1>1. /\ Found(o, d) /\ o \in Attached
      /\ disconnected' = disconnected \ {o}
      /\ UNCHANGED <<connected, devOf, place, phase, plugged>>
    BY KeepFound
<1>2. /\ pending # <<>> /\ phase = "scan" /\ d \in plugged /\ KeyOf[d] = Head(pending).key
      /\ place[o] = Head(pending).at /\ LooksLike(devOf[o], d)
      /\ UNCHANGED <<steady, settled>>
    BY DEF KeepStep, KeepExisting, IsUsbDevicesEqual, LooksLike, history
<1>3. /\ ToSet(pending') = ToSet(PortCalls(d, o)) \cup ToSet(Tail(pending))
      /\ \A e \in PluggedInto(d) : Call(KeyOf[e], o, PortOf[e]) \in ToSet(PortCalls(d, o))
    BY <1>1, <1>2, FoundCalls
<1>4. ToSet(pending) = ToSet(Tail(pending)) \cup {Head(pending)}
    BY <1>2, FirstCall
<1>5. steady \subseteq plugged /\ settled \subseteq Attached /\ Attached' = Attached
    BY <1>1, <1>2 DEF TypeOK, SettledInv, Attached
<1>6. ASSUME NEW p \in settled, NEW e \in steady, LooksLike(devOf[p], e)
      PROVE  \/ p \notin disconnected'
             \/ \E c \in ToSet(pending') : c.key = KeyOf[e] /\ c.at = place[p]
             \/ ParentOf[e] # RootHub /\ place[p].parent \in disconnected'
    <2>1. CASE p \notin disconnected
        BY <2>1, <1>1
    <2>2. CASE \E c \in ToSet(pending) : c.key = KeyOf[e] /\ c.at = place[p]
        <3>1. PICK c \in ToSet(pending) : c.key = KeyOf[e] /\ c.at = place[p]
            BY <2>2
        <3>2. CASE c = Head(pending)
            <4>1. place[p] = place[o]
                BY <3>1, <3>2, <1>2
            <4>2. p = o
                BY <4>1, <1>1, <1>5 DEF PortHoldsOne
            <4> QED BY <4>2, <1>1
        <3>3. CASE c \in ToSet(Tail(pending))
            BY <3>1, <3>3, <1>3
        <3> QED BY <3>2, <3>3, <1>4
    <2>3. CASE ParentOf[e] # RootHub /\ place[p].parent \in disconnected
        <3>1. CASE place[p].parent # o
            BY <2>3, <3>1, <1>1
        <3>2. CASE place[p].parent = o
            <4>1. LooksLike(devOf[o], ParentOf[e]) /\ place[p].port = PortOf[e]
                BY <2>3, <3>2, <1>2, <1>6 DEF SettledInv
            <4>2. ParentOf[e] \in plugged
                BY <2>3, <1>5 DEF BusInv
            <4>3. ParentOf[e] = d
                <5>1. KeyOf[ParentOf[e]] = KeyOf[d]
                    BY <4>1, <1>2 DEF LooksLike
                <5> QED BY <5>1, <4>2, <1>2, KeyIsUnique
            <4>4. e \in PluggedInto(d)
                BY <4>3, <1>5 DEF PluggedInto
            <4>5. Call(KeyOf[e], o, PortOf[e]) \in ToSet(pending')
                BY <4>4, <1>3
            <4>6. place[p] = [parent |-> o, port |-> PortOf[e]]
                <5>1. place[p] \in Places
                    BY <1>5 DEF TypeOK, Attached
                <5> QED BY <5>1, <4>1, <3>2 DEF Places
            <4>7. /\ Call(KeyOf[e], o, PortOf[e]).key = KeyOf[e]
                  /\ Call(KeyOf[e], o, PortOf[e]).at = place[p]
                BY <4>6 DEF Call
            <4> QED BY <4>5, <4>7
        <3> QED BY <3>1, <3>2
    <2> QED BY <2>1, <2>2, <2>3, <1>2, <1>6 DEF SettledInv
<1>7. ASSUME NEW p \in settled, NEW e \in steady, LooksLike(devOf[p], e)
      PROVE  \/ ParentOf[e] = RootHub
             \/ /\ place[p].parent \in settled
                /\ LooksLike(devOf[place[p].parent], ParentOf[e])
                /\ place[p].port = PortOf[e]
    BY <1>2, <1>7 DEF SettledInv
<1> QED BY <1>1, <1>2, <1>5, <1>6, <1>7 DEF SettledInv, LooksLike

LEMMA AddSettled ==
    ASSUME TypeOK, BusInv, ListsInv, PortsInv, SettledInv, NEW o, NEW d, AddStep(o, d)
    PROVE  SettledInv'
<1>1. /\ Found(o, d) /\ o \in Unknown
      /\ devOf' = [devOf EXCEPT ![o] = d]
      /\ UNCHANGED <<disconnected, place, phase, plugged>>
    BY AddFound
<1>2. /\ pending # <<>> /\ phase = "scan" /\ d \in plugged /\ KeyOf[d] = Head(pending).key
      /\ \A p \in Objects : place[p] = Head(pending).at => ~IsUsbDevicesEqual(devOf[p], d)
      /\ UNCHANGED <<steady, settled>>
    BY DEF AddStep, history
<1>3. ToSet(pending') = ToSet(PortCalls(d, o)) \cup ToSet(Tail(pending))
    BY <1>1, <1>2, FoundCalls
<1>4. ToSet(pending) = ToSet(Tail(pending)) \cup {Head(pending)}
    BY <1>2, FirstCall
<1>5. /\ steady \subseteq plugged /\ settled \subseteq Attached /\ Attached' = Attached
      /\ settled \subseteq Objects
    BY <1>1, <1>2 DEF TypeOK, SettledInv, Attached
<1>6. \A p \in settled : devOf'[p] = devOf[p]
    BY <1>1, <1>5 DEF Unknown, TypeOK
<1>7. ASSUME NEW p \in settled, NEW e \in steady, LooksLike(devOf[p], e)
      PROVE  /\ \/ ParentOf[e] = RootHub
                \/ /\ place[p].parent \in settled
                   /\ LooksLike(devOf[place[p].parent], ParentOf[e])
                   /\ place[p].port = PortOf[e]
             /\ \/ p \notin disconnected
                \/ \E c \in ToSet(pending) : c.key = KeyOf[e] /\ c.at = place[p]
                \/ ParentOf[e] # RootHub /\ place[p].parent \in disconnected
    BY <1>2, <1>7 DEF SettledInv
<1>8. ASSUME NEW p \in settled, NEW e \in steady, LooksLike(devOf[p], e),
             NEW c \in ToSet(pending), c.key = KeyOf[e], c.at = place[p]
      PROVE  c \in ToSet(pending')
    <2>1. c # Head(pending)
        <3> SUFFICES ASSUME c = Head(pending) PROVE FALSE
            OBVIOUS
        <3>1. e = d
            BY <1>2, <1>5, <1>8, KeyIsUnique
        <3> QED BY <3>1, <1>2, <1>5, <1>8 DEF IsUsbDevicesEqual, LooksLike
    <2> QED BY <2>1, <1>3, <1>4
<1>9. ASSUME NEW p \in settled, NEW e \in steady, LooksLike(devOf[p], e)
      PROVE  /\ \/ ParentOf[e] = RootHub
                \/ /\ place[p].parent \in settled
                   /\ LooksLike(devOf'[place[p].parent], ParentOf[e])
                   /\ place[p].port = PortOf[e]
             /\ \/ p \notin disconnected
                \/ \E c \in ToSet(pending') : c.key = KeyOf[e] /\ c.at = place[p]
                \/ ParentOf[e] # RootHub /\ place[p].parent \in disconnected
    BY <1>6, <1>7, <1>8, <1>9
<1> QED BY <1>1, <1>2, <1>5, <1>6, <1>9 DEF SettledInv, LooksLike

-----------------------------------------------------------------------------
(* What each action does to the invariant.                                 *)

LEMMA InvInit == Init => TopologyInv
<1> SUFFICES ASSUME Init PROVE TopologyInv
    OBVIOUS
<1>1. Attached = {} /\ NewDevices = {} /\ InTree = {} /\ ToSet(pending) = {}
    BY DEF Init, Attached, NewDevices, InTree, ToSet
<1>2. TypeOK
    <2>1. pending \in Seq(Calls) /\ connected \in Seq([obj : Objects, at : Places])
        BY EmptySeq DEF Init
    <2>2. changes \in 0..MaxChanges
        BY DevicesAssumption DEF Init
    <2>3. devOf \in [Objects -> Devices \cup {None}] /\ place \in [Objects -> Places \cup {None}]
        BY DEF Init
    <2>4. plugged \subseteq Devices /\ quiet \in BOOLEAN
        BY DEF Init
    <2> QED BY <1>1, <2>1, <2>2, <2>3, <2>4 DEF Init, TypeOK
<1>3. BusInv
    BY BusInit
<1>4. ListsInv
    BY <1>1 DEF Init, ListsInv
<1>5. PortsInv
    BY <1>1 DEF Init, PortsInv
<1>6. FaithInv /\ SettledInv
    BY DEF Init, FaithInv, SettledInv
<1>7. TreeInv
    BY <1>1 DEF Init, TreeInv, PortHoldsOne, TreeRooted, OrderInv, EventsInv
<1> QED BY <1>2, <1>3, <1>4, <1>5, <1>6, <1>7 DEF TopologyInv

\* A step that leaves the tree to be as it is.
SameTreeStep ==
    /\ InTree' = InTree
    /\ \A o \in InTree : Spot(o)' = Spot(o) /\ devOf'[o] = devOf[o]
    /\ pending' = pending
    /\ quiet' => quiet /\ plugged' = plugged

LEMMA SameTree ==
    ASSUME PortsInv, FaithInv, SameTreeStep
    PROVE  PortsInv' /\ FaithInv'
<1>1. /\ InTree' = InTree
      /\ \A o \in InTree : Spot(o)' = Spot(o) /\ devOf'[o] = devOf[o]
      /\ pending' = pending
      /\ quiet' => quiet /\ plugged' = plugged
    BY DEF SameTreeStep
<1>2. PortsInv'
    BY <1>1 DEF PortsInv
<1>3. ASSUME quiet'
      PROVE  /\ \A p \in InTree' : \E e \in plugged' :
                   LooksLike(devOf'[p], e) /\ FittedAt(Spot(p), e)'
             /\ \A c \in ToSet(pending') : \E e \in plugged' :
                   KeyOf[e] = c.key /\ FittedAt(c.at, e)'
             /\ \A e \in plugged' : ParentOf[e] = RootHub \/ Shown(ParentOf[e])'
                                    => Shown(e)' \/ Called(e)'
    <2>1. quiet /\ plugged' = plugged
        BY <1>1, <1>3
    <2>2. /\ \A p \in InTree : \E e \in plugged : LooksLike(devOf[p], e) /\ FittedAt(Spot(p), e)
          /\ \A c \in ToSet(pending) : \E e \in plugged : KeyOf[e] = c.key /\ FittedAt(c.at, e)
          /\ \A e \in plugged : ParentOf[e] = RootHub \/ Shown(ParentOf[e])
                                => Shown(e) \/ Called(e)
        BY <2>1 DEF FaithInv
    <2>3. ASSUME NEW at, NEW e, at.parent \in InTree \cup {RootHub}, FittedAt(at, e)
          PROVE  FittedAt(at, e)'
        <3>1. at.parent # RootHub => devOf'[at.parent] = devOf[at.parent]
            BY <1>1, <2>3
        <3>2. PortRank(e, HostControllers)' = PortRank(e, HostControllers)
            BY <2>1 DEF PortRank, HostControllers
        <3> QED BY <2>3, <3>1, <3>2 DEF FittedAt, LooksLike
    <2>4. ASSUME NEW p \in InTree
          PROVE  \E e \in plugged : LooksLike(devOf'[p], e) /\ FittedAt(Spot(p), e)'
        <3>1. PICK e \in plugged : LooksLike(devOf[p], e) /\ FittedAt(Spot(p), e)
            BY <2>2
        <3>2. \A at : at = Spot(p) => FittedAt(at, e)'
            BY <3>1, <2>3 DEF PortsInv
        <3>3. Spot(p)' = Spot(p) /\ devOf'[p] = devOf[p]
            BY <1>1
        <3>4. FittedAt(Spot(p), e)'
            BY <3>2, <3>3 DEF FittedAt
        <3> QED BY <3>1, <3>3, <3>4
    <2>5. ASSUME NEW c \in ToSet(pending)
          PROVE  \E e \in plugged : KeyOf[e] = c.key /\ FittedAt(c.at, e)'
        BY <2>2, <2>3 DEF PortsInv
    <2>6. \A e : (Shown(e)' <=> Shown(e)) /\ (Called(e)' <=> Called(e))
        BY <1>1 DEF Shown, Called, LooksLike
    <2> QED BY <1>1, <2>1, <2>2, <2>4, <2>5, <2>6
<1>4. FaithInv'
    BY <1>3 DEF FaithInv, LooksLike
<1> QED BY <1>2, <1>4

\* A step that changes neither the tree nor the lists of devices.
SameListsStep ==
    /\ UNCHANGED <<phase, connected, disconnected, devOf, place, announced, settled>>
    /\ steady' \subseteq steady

\* What it does to the calls: only those go that no device in steady is waiting for.
LEMMA SameLists ==
    ASSUME ListsInv, SettledInv, TreeInv, SameListsStep,
           phase = "scan" \/ pending' = pending,
           \A c \in ToSet(pending), d \in steady' :
              c.key = KeyOf[d] => c \in ToSet(pending')
    PROVE  /\ InTree' = InTree /\ (\A o : Spot(o)' = Spot(o))
           /\ ListsInv' /\ SettledInv' /\ TreeInv'
<1>1. /\ UNCHANGED <<phase, connected, disconnected, devOf, place, announced, settled>>
      /\ steady' \subseteq steady
    BY DEF SameListsStep
<1>2. Attached' = Attached /\ NewDevices' = NewDevices /\ \A o : NewPlace(o)' = NewPlace(o)
    BY <1>1 DEF Attached, NewDevices, NewPlace
<1>3. InTree' = InTree /\ (\A o : Spot(o)' = Spot(o))
    BY <1>1, <1>2 DEF InTree, Spot
<1>4. ListsInv'
    BY <1>1, <1>2 DEF ListsInv
<1>5. PortHoldsOne' /\ TreeRooted'
    BY <1>1, <1>2 DEF TreeInv, PortHoldsOne, TreeRooted
<1>6. OrderInv' /\ EventsInv'
    BY <1>1, <1>2 DEF TreeInv, OrderInv, EventsInv
<1>7. SettledInv'
    <2>1. CASE phase = "scan"
        BY <1>1, <1>2, <2>1 DEF SettledInv, LooksLike
    <2>2. CASE phase # "scan"
        BY <1>1, <1>2, <2>2 DEF SettledInv, LooksLike
    <2> QED BY <2>1, <2>2
<1>8. TreeInv'
    BY <1>5, <1>6 DEF TreeInv
<1> QED BY <1>3, <1>4, <1>7, <1>8

LEMMA PlugInv ==
    ASSUME TopologyInv, BusInv', NEW d \in Devices, Plug(d) \/ Unplug(d)
    PROVE  TopologyInv'
<1>1. /\ changes < MaxChanges /\ changes' = changes + 1 /\ quiet' = FALSE
      /\ plugged' \subseteq Devices
      /\ steady' \subseteq plugged' /\ steady' \subseteq steady
      /\ UNCHANGED <<phase, pending, connected, disconnected, devOf, place, announced, settled>>
    BY DEF Plug, Unplug, Change, TopologyInv, TypeOK, scanVars, treeVars
<1>2. TypeOK'
    <2>1. changes' \in 0..MaxChanges
        BY <1>1, DevicesAssumption DEF TopologyInv, TypeOK
    <2>2. Attached' = Attached
        BY <1>1 DEF Attached
    <2> QED BY <1>1, <2>1, <2>2 DEF TopologyInv, TypeOK
<1>3. SameListsStep
    BY <1>1 DEF SameListsStep
<1>4. /\ InTree' = InTree /\ (\A o : Spot(o)' = Spot(o))
      /\ ListsInv' /\ SettledInv' /\ TreeInv'
    BY <1>1, <1>3, SameLists DEF TopologyInv
<1>5. SameTreeStep
    BY <1>1, <1>4 DEF SameTreeStep
<1>6. PortsInv' /\ FaithInv'
    BY <1>5, SameTree DEF TopologyInv
<1> QED BY <1>2, <1>4, <1>6 DEF TopologyInv

\* The lists of an update that begins, with the given calls.
LEMMA StartScanInv ==
    ASSUME TopologyInv, NEW calls \in Seq(Calls), StartScan(calls), Distinct(calls),
           \A c \in ToSet(calls) : c.at.parent = RootHub,
           plugged' = plugged, UNCHANGED treeVars
    PROVE  /\ InTree' = {} /\ Attached' = Attached /\ disconnected' = Attached
           /\ pending' = calls /\ phase' = "scan"
           /\ UNCHANGED <<devOf, place, announced>>
           /\ ListsInv' /\ PortsInv' /\ TreeInv'
<1>1. /\ phase = "idle" /\ phase' = "scan" /\ pending' = calls
      /\ connected' = <<>> /\ disconnected' = Attached
      /\ UNCHANGED <<devOf, place, announced>>
    BY DEF StartScan, treeVars
<1>2. Attached' = Attached /\ NewDevices' = {} /\ InTree' = {}
    BY <1>1 DEF Attached, NewDevices, InTree
<1>3. connected = <<>> /\ disconnected = {} /\ NewDevices = {}
    BY <1>1 DEF TopologyInv, ListsInv, NewDevices
<1>4. ListsInv'
    BY <1>1, <1>2, <1>3 DEF TopologyInv, ListsInv
<1>5. PortsInv'
    BY <1>1, <1>2 DEF PortsInv, Distinct
<1>6. PortHoldsOne' /\ TreeRooted'
    BY <1>1, <1>2 DEF TopologyInv, TreeInv, PortHoldsOne, TreeRooted
<1>7. OrderInv' /\ EventsInv'
    BY <1>1, <1>2, <1>3 DEF TopologyInv, TreeInv, OrderInv, EventsInv
<1>8. TreeInv'
    BY <1>6, <1>7 DEF TreeInv
<1> QED BY <1>1, <1>2, <1>4, <1>5, <1>8

LEMMA StartTypes ==
    ASSUME TypeOK, NEW calls \in Seq(Calls), StartScan(calls), plugged' = plugged,
           changes' \in 0..MaxChanges, quiet' \in BOOLEAN, steady' \subseteq plugged,
           settled' \subseteq Objects, UNCHANGED treeVars
    PROVE  TypeOK'
<1>1. /\ phase = "idle" /\ phase' = "scan" /\ pending' = calls
      /\ connected' = <<>> /\ disconnected' = Attached
      /\ UNCHANGED <<devOf, place, announced>>
    BY DEF StartScan, treeVars
<1>2. Attached' = Attached /\ Attached \subseteq Objects
    BY <1>1 DEF Attached
<1>3. connected' \in Seq([obj : Objects, at : Places])
    BY <1>1, EmptySeq
<1> QED BY <1>1, <1>2, <1>3 DEF TypeOK

LEMMA StartUpdateFailsInv ==
    ASSUME TopologyInv, BusInv', StartUpdateFails
    PROVE  TopologyInv'
<1> DEFINE none == <<>>
<1>1. /\ changes < MaxChanges /\ changes' = changes + 1 /\ quiet' = FALSE
      /\ StartScan(none) /\ steady' = {} /\ settled' = {}
      /\ plugged' = plugged /\ UNCHANGED treeVars
    BY DEF StartUpdateFails, Change
<1>2. none \in Seq(Calls) /\ Distinct(none) /\ ToSet(none) = {}
    BY EmptySeq DEF Distinct, ToSet
<1> HIDE DEF none
<1>3. ListsInv' /\ PortsInv' /\ TreeInv' /\ phase' = "scan"
    BY <1>1, <1>2, StartScanInv
<1>4. changes' \in 0..MaxChanges
    BY <1>1, DevicesAssumption DEF TopologyInv, TypeOK
<1>5. TypeOK'
    BY <1>1, <1>2, <1>4, StartTypes DEF TopologyInv
<1>6. FaithInv' /\ SettledInv'
    BY <1>1, <1>3 DEF FaithInv, SettledInv
<1> QED BY <1>3, <1>5, <1>6 DEF TopologyInv

LEMMA SettledIs ==
    ASSUME NEW o \in Settled
    PROVE  /\ o \in Attached
           /\ \E d \in plugged : StandsFor(o, d)
           /\ place[o].parent \in Settled \cup {RootHub}
<1>1. PICK H \in SUBSET Attached :
         /\ o \in H
         /\ \A p \in H : /\ \E d \in plugged : StandsFor(p, d)
                         /\ place[p].parent \in H \cup {RootHub}
    BY DEF Settled
<1>2. H \subseteq Settled
    BY <1>1 DEF Settled
<1> QED BY <1>1, <1>2

LEMMA StartUpdateInv ==
    ASSUME TopologyInv, BusInv', StartUpdate
    PROVE  TopologyInv'
<1>1. /\ StartScan(BusCalls) /\ quiet' = TRUE /\ steady' = plugged /\ settled' = Settled
      /\ UNCHANGED <<plugged, changes>> /\ UNCHANGED treeVars
    BY DEF StartUpdate, busVars
<1>2. /\ BusCalls \in Seq(Calls)
      /\ Distinct(BusCalls)
      /\ \A c \in ToSet(BusCalls) : \E e \in HostControllers :
            c = Call(KeyOf[e], RootHub, PortRank(e, HostControllers))
      /\ \A e \in HostControllers :
            Call(KeyOf[e], RootHub, PortRank(e, HostControllers)) \in ToSet(BusCalls)
    BY BusCallsList DEF TopologyInv
<1>3. \A c \in ToSet(BusCalls) : c.at.parent = RootHub
    BY <1>2 DEF Call
<1>4. /\ InTree' = {} /\ Attached' = Attached /\ disconnected' = Attached
      /\ pending' = BusCalls /\ phase' = "scan"
      /\ UNCHANGED <<devOf, place, announced>>
      /\ ListsInv' /\ PortsInv' /\ TreeInv'
    BY <1>1, <1>2, <1>3, StartScanInv
<1>5. HostControllers' = HostControllers
    BY <1>1 DEF HostControllers
<1>6. FaithInv'
    <2>1. ASSUME NEW c \in ToSet(BusCalls)
          PROVE  \E e \in plugged : KeyOf[e] = c.key /\ FittedAt(c.at, e)'
        <3>1. PICK e \in HostControllers :
                 c = Call(KeyOf[e], RootHub, PortRank(e, HostControllers))
            BY <1>2
        <3>2. e \in plugged /\ ParentOf[e] = RootHub
            BY DEF HostControllers
        <3>3. c.key = KeyOf[e] /\ c.at.parent = RootHub /\ c.at.port = PortRank(e, HostControllers)
            BY <3>1 DEF Call
        <3>4. PortRank(e, HostControllers)' = PortRank(e, HostControllers)
            BY <1>5 DEF PortRank
        <3> QED BY <3>2, <3>3, <3>4 DEF FittedAt
    <2>2. ASSUME NEW e \in plugged, ParentOf[e] = RootHub PROVE Called(e)'
        <3>1. Call(KeyOf[e], RootHub, PortRank(e, HostControllers)) \in ToSet(pending')
            BY <2>2, <1>2, <1>4 DEF HostControllers
        <3>2. Call(KeyOf[e], RootHub, PortRank(e, HostControllers)).key = KeyOf[e]
            BY DEF Call
        <3> QED BY <3>1, <3>2 DEF Called
    <2>3. \A e : ~Shown(e)'
        BY <1>4 DEF Shown
    <2> QED BY <1>1, <1>4, <2>1, <2>2, <2>3 DEF FaithInv
<1>7. SettledInv'
    <2>1. Settled \subseteq Attached
        BY SettledIs
    <2>2. ASSUME NEW o \in Settled, NEW d \in plugged, LooksLike(devOf[o], d)
          PROVE  /\ \/ ParentOf[d] = RootHub
                    \/ /\ place[o].parent \in Settled
                       /\ LooksLike(devOf[place[o].parent], ParentOf[d])
                       /\ place[o].port = PortOf[d]
                 /\ \/ \E c \in ToSet(BusCalls) : c.key = KeyOf[d] /\ c.at = place[o]
                    \/ ParentOf[d] # RootHub /\ place[o].parent \in Attached
        <3>1. PICK e \in plugged : StandsFor(o, e)
            BY SettledIs
        <3>2. e = d
            <4>1. KeyOf[e] = KeyOf[d]
                BY <2>2, <3>1 DEF StandsFor, LooksLike
            <4> QED BY <4>1, KeyIsUnique DEF TopologyInv
        <3>3. CASE ParentOf[d] = RootHub
            <4>1. place[o].parent = RootHub /\ place[o].port = PortRank(d, HostControllers)
                BY <3>1, <3>2, <3>3 DEF StandsFor
            <4>2. place[o] \in Places
                BY <2>1 DEF TopologyInv, TypeOK, Attached
            <4>3. place[o] = [parent |-> RootHub, port |-> PortRank(d, HostControllers)]
                BY <4>1, <4>2 DEF Places
            <4>4. Call(KeyOf[d], RootHub, PortRank(d, HostControllers)) \in ToSet(BusCalls)
                BY <1>2, <3>3 DEF HostControllers
            <4>5. /\ Call(KeyOf[d], RootHub, PortRank(d, HostControllers)).key = KeyOf[d]
                  /\ Call(KeyOf[d], RootHub, PortRank(d, HostControllers)).at = place[o]
                BY <4>3 DEF Call
            <4> QED BY <3>3, <4>4, <4>5
        <3>4. CASE ParentOf[d] # RootHub
            BY <2>1, <3>1, <3>2, <3>4, SettledIs DEF StandsFor
        <3> QED BY <3>3, <3>4
    <2> QED BY <1>1, <1>4, <2>1, <2>2 DEF SettledInv, LooksLike
<1>8. TypeOK'
    BY <1>1, <1>2, SettledIs, StartTypes DEF TopologyInv, TypeOK, Attached
<1> QED BY <1>4, <1>6, <1>7, <1>8 DEF TopologyInv

LEMMA BuildGoneInv ==
    ASSUME TopologyInv, BusInv', BuildGone
    PROVE  TopologyInv'
<1>1. /\ phase = "scan" /\ pending # <<>>
      /\ \A d \in plugged : KeyOf[d] # Head(pending).key
      /\ pending' = Tail(pending)
      /\ UNCHANGED <<plugged, changes, phase, connected, disconnected, devOf, place, announced,
                     quiet, steady, settled>>
    BY DEF BuildGone, busVars, treeVars, history
<1>2. /\ Head(pending) \in ToSet(pending)
      /\ Tail(pending) \in Seq(Calls)
      /\ ToSet(pending) = ToSet(Tail(pending)) \cup {Head(pending)}
      /\ Distinct(Tail(pending))
    BY <1>1, FirstCall DEF TopologyInv, PortsInv, Distinct
<1>3. TypeOK'
    <2>1. Attached' = Attached
        BY <1>1 DEF Attached
    <2> QED BY <1>1, <1>2, <2>1 DEF TopologyInv, TypeOK
<1>4. SameListsStep
    BY <1>1 DEF SameListsStep
<1>5. \A c \in ToSet(pending), d \in steady' : c.key = KeyOf[d] => c \in ToSet(pending')
    BY <1>1, <1>2 DEF TopologyInv, TypeOK
<1>6. /\ InTree' = InTree /\ (\A o : Spot(o)' = Spot(o))
      /\ ListsInv' /\ SettledInv' /\ TreeInv'
    BY <1>1, <1>4, <1>5, SameLists DEF TopologyInv
<1>7. PortsInv'
    BY <1>1, <1>2, <1>6 DEF TopologyInv, PortsInv, Distinct
<1>8. FaithInv'
    <2>1. ~quiet
        BY <1>1, <1>2 DEF TopologyInv, FaithInv
    <2> QED BY <1>1, <2>1 DEF FaithInv
<1> QED BY <1>3, <1>6, <1>7, <1>8 DEF TopologyInv

LEMMA BuildFailsInv ==
    ASSUME TopologyInv, BusInv', BuildFails
    PROVE  TopologyInv'
<1> DEFINE read == {e \in plugged : KeyOf[e] = Head(pending).key}
           lost == UNION {Below[d] : d \in read}
<1>1. /\ phase = "scan" /\ pending # <<>>
      /\ changes < MaxChanges /\ changes' = changes + 1 /\ quiet' = FALSE
      /\ steady' = steady \ lost
      /\ pending' = Tail(pending)
      /\ UNCHANGED <<plugged, phase, connected, disconnected, devOf, place, announced, settled>>
    BY DEF BuildFails, Change, treeVars
<1>2. \A d \in steady' : KeyOf[d] # Head(pending).key
    <2> SUFFICES ASSUME NEW d \in steady, KeyOf[d] = Head(pending).key PROVE d \in lost
        BY <1>1
    <2>1. d \in read /\ d \in Devices
        BY DEF TopologyInv, TypeOK
    <2> QED BY <2>1, BelowClosed
<1> HIDE DEF lost
<1>3. /\ Head(pending) \in ToSet(pending)
      /\ Tail(pending) \in Seq(Calls)
      /\ ToSet(pending) = ToSet(Tail(pending)) \cup {Head(pending)}
      /\ Distinct(Tail(pending))
    BY <1>1, FirstCall DEF TopologyInv, PortsInv, Distinct
<1>4. TypeOK'
    <2>1. changes' \in 0..MaxChanges
        BY <1>1, DevicesAssumption DEF TopologyInv, TypeOK
    <2>2. Attached' = Attached
        BY <1>1 DEF Attached
    <2> QED BY <1>1, <1>3, <2>1, <2>2 DEF TopologyInv, TypeOK
<1>5. SameListsStep
    BY <1>1 DEF SameListsStep
<1>6. \A c \in ToSet(pending), d \in steady' : c.key = KeyOf[d] => c \in ToSet(pending')
    BY <1>1, <1>2, <1>3
<1>7. /\ InTree' = InTree /\ (\A o : Spot(o)' = Spot(o))
      /\ ListsInv' /\ SettledInv' /\ TreeInv'
    BY <1>1, <1>5, <1>6, SameLists DEF TopologyInv
<1>8. PortsInv'
    BY <1>1, <1>3, <1>7 DEF TopologyInv, PortsInv, Distinct
<1>9. FaithInv'
    BY <1>1 DEF FaithInv
<1> QED BY <1>4, <1>7, <1>8, <1>9 DEF TopologyInv

LEMMA BuildDeviceInv ==
    ASSUME TopologyInv, BusInv', BuildDevice
    PROVE  TopologyInv'
<1>1. PICK o, d : KeepStep(o, d) \/ AddStep(o, d)
    BY BuildCases
<1>2. /\ pending # <<>> /\ phase = "scan"
      /\ UNCHANGED <<plugged, changes, phase, place, announced, quiet, steady, settled>>
    BY <1>1 DEF KeepStep, AddStep, busVars, history
<1>3. Found(o, d)
    BY <1>1, KeepFound, AddFound DEF TopologyInv
<1>4. PortsInv' /\ FaithInv' /\ pending' \in Seq(Calls)
    BY <1>2, <1>3, FoundPorts, FoundFaith, FoundCalls DEF TopologyInv
<1>5. ListsInv' /\ SettledInv'
    BY <1>1, KeepLists, AddLists, KeepSettled, AddSettled DEF TopologyInv, TreeInv
<1>6. Attached' = Attached
    BY <1>2 DEF Attached
<1>7. TreeInv'
    BY <1>1, KeepTree, AddTree DEF TopologyInv
<1>8. TypeOK'
    <2>1. CASE KeepStep(o, d)
        <3>1. /\ disconnected' = disconnected \ {o}
              /\ UNCHANGED <<connected, devOf>>
            BY <2>1, KeepFound DEF TopologyInv
        <3> QED BY <3>1, <1>2, <1>4, <1>6 DEF TopologyInv, TypeOK
    <2>2. CASE AddStep(o, d)
        <3>1. /\ o \in Unknown /\ d \in Devices
              /\ connected' \in Seq([obj : Objects, at : Places])
              /\ devOf' = [devOf EXCEPT ![o] = d]
              /\ disconnected' = disconnected
            BY <2>2, AddFound DEF TopologyInv
        <3>2. o \in Objects /\ o \notin Attached
            BY <3>1 DEF Unknown
        <3>3. devOf' \in [Objects -> Devices \cup {None}]
            BY <3>1, <3>2 DEF TopologyInv, TypeOK
        <3>4. \A p \in Attached : devOf'[p] # None
            BY <3>1, <3>2 DEF TopologyInv, TypeOK, Attached
        <3> QED BY <3>1, <3>3, <3>4, <1>2, <1>4, <1>6 DEF TopologyInv, TypeOK
    <2> QED BY <2>1, <2>2, <1>1
<1> QED BY <1>4, <1>5, <1>7, <1>8 DEF TopologyInv

LEMMA StutterInv ==
    ASSUME TopologyInv, BusInv', UNCHANGED vars
    PROVE  TopologyInv'
<1>1. UNCHANGED <<plugged, changes, phase, pending, connected, disconnected, devOf, place,
                  announced, quiet, steady, settled>>
    BY DEF vars, busVars, scanVars, treeVars, history
<1>2. TypeOK'
    <2>1. Attached' = Attached
        BY <1>1 DEF Attached
    <2> QED BY <1>1, <2>1 DEF TopologyInv, TypeOK
<1>3. SameListsStep
    BY <1>1 DEF SameListsStep
<1>4. /\ InTree' = InTree /\ (\A o : Spot(o)' = Spot(o))
      /\ ListsInv' /\ SettledInv' /\ TreeInv'
    BY <1>1, <1>3, SameLists DEF TopologyInv
<1>5. SameTreeStep
    BY <1>1, <1>4 DEF SameTreeStep
<1>6. PortsInv' /\ FaithInv'
    BY <1>5, SameTree DEF TopologyInv
<1> QED BY <1>2, <1>4, <1>6 DEF TopologyInv

\* When the scan is done, everything settled whose device was there all the time has been
\* found again: if not, neither has its hub, and so on up to the root hub.
LEMMA SettledFound ==
    ASSUME TopologyInv, phase = "scan", pending = <<>>,
           NEW o \in settled, NEW d \in steady, LooksLike(devOf[o], d)
    PROVE  o \notin disconnected
<1> DEFINE missed == [e \in steady |->
              \E p \in settled \cap disconnected : LooksLike(devOf[p], e)]
           U == {e \in steady : missed[e]}
<1>1. ToSet(pending) = {}
    BY DEF ToSet
<1>2. ASSUME NEW e \in steady, missed[e]
      PROVE  ParentOf[e] \in steady /\ missed[ParentOf[e]]
    <2>1. PICK p \in settled \cap disconnected : LooksLike(devOf[p], e)
        BY <1>2
    <2>2. ParentOf[e] # RootHub /\ place[p].parent \in disconnected
        BY <2>1, <1>1 DEF TopologyInv, SettledInv
    <2>3. place[p].parent \in settled /\ LooksLike(devOf[place[p].parent], ParentOf[e])
        BY <2>1, <2>2 DEF TopologyInv, SettledInv
    <2>4. ParentOf[e] \in steady
        BY <2>2 DEF TopologyInv, BusInv
    <2> QED BY <2>2, <2>3, <2>4
<1>3. U \in SUBSET Devices
    BY DEF TopologyInv, TypeOK
<1>4. U = {}
    <2> HIDE DEF missed
    <2> SUFFICES ASSUME U # {} PROVE FALSE
        OBVIOUS
    <2>1. PICK e \in U : ParentOf[e] \notin U
        BY <1>3, TreeAssumption
    <2> QED BY <2>1, <1>2
<1> QED BY <1>4

\* The end of the scan, and of each loop: what the next one relies on.
LEMMA NextLoopInv ==
    ASSUME TopologyInv, BusInv', NextLoop
    PROVE  TopologyInv'
<1>1. /\ \/ phase = "scan" /\ pending = <<>> /\ phase' = "disconnect"
         \/ phase = "disconnect" /\ Leaving = {} /\ phase' = "attach"
         \/ phase = "attach" /\ NewDevices \subseteq Attached /\ phase' = "detached"
         \/ phase = "detached" /\ disconnected \cap announced = {} /\ phase' = "announce"
      /\ UNCHANGED <<plugged, changes, pending, connected, disconnected, devOf, place, announced,
                     quiet, steady, settled>>
    BY DEF NextLoop, busVars, scanVars, treeVars, history
<1>2. Attached' = Attached /\ NewDevices' = NewDevices /\ \A o : NewPlace(o)' = NewPlace(o)
    BY <1>1 DEF Attached, NewDevices, NewPlace
<1>3. TypeOK'
    BY <1>1, <1>2 DEF TopologyInv, TypeOK
<1>4. InTree' = InTree /\ (\A o : Spot(o)' = Spot(o))
    BY <1>1, <1>2 DEF InTree, Spot
<1>5. SameTreeStep
    BY <1>1, <1>4 DEF SameTreeStep
<1>6. PortsInv' /\ FaithInv'
    BY <1>5, SameTree DEF TopologyInv
<1>7. ListsInv'
    BY <1>1, <1>2 DEF TopologyInv, ListsInv, Leaving
<1>8. SettledInv'
    <2>1. CASE phase = "scan"
        <3>1. \A o \in settled, d \in steady : LooksLike(devOf[o], d) => o \notin disconnected
            BY <2>1, <1>1, SettledFound
        <3> QED BY <3>1, <2>1, <1>1 DEF SettledInv, LooksLike
    <2>2. CASE phase # "scan"
        BY <2>2, <1>1 DEF SettledInv
    <2> QED BY <2>1, <2>2
<1>9. PortHoldsOne' /\ TreeRooted'
    BY <1>1, <1>2 DEF TopologyInv, TreeInv, PortHoldsOne, TreeRooted, Leaving
<1>10. OrderInv'
    BY <1>1, <1>2 DEF TopologyInv, TreeInv, OrderInv
<1>11. EventsInv'
    BY <1>1, <1>2 DEF TopologyInv, TreeInv, EventsInv, NewDevices, ListsInv
<1> QED BY <1>3, <1>6, <1>7, <1>8, <1>9, <1>10, <1>11 DEF TopologyInv, TreeInv

\* A device that was not found again goes: nothing that stays hangs on it.
LEMMA DisconnectInv ==
    ASSUME TopologyInv, BusInv', Disconnect
    PROVE  TopologyInv'
<1>1. PICK o \in Leaving : place' = [place EXCEPT ![o] = None]
    BY DEF Disconnect
<1>2. /\ phase = "disconnect" /\ phase' = phase
      /\ UNCHANGED <<plugged, changes, pending, connected, disconnected, devOf, announced,
                     quiet, steady, settled>>
    BY DEF Disconnect, busVars, scanVars, history
<1>3. o \in Objects /\ o \in disconnected /\ o \in Attached
    BY <1>1 DEF Leaving, Attached
<1>4. /\ Attached' = Attached \ {o}
      /\ \A p \in Attached' : place'[p] = place[p]
      /\ NewDevices' = NewDevices /\ \A p : NewPlace(p)' = NewPlace(p)
    BY <1>1, <1>2, <1>3 DEF TopologyInv, TypeOK, Attached, NewDevices, NewPlace
<1>5. NewDevices \cap Attached = {} /\ NewDevices \cap disconnected = {}
    BY <1>2 DEF TopologyInv, ListsInv
<1>6. InTree' = InTree
    BY <1>2, <1>3, <1>4, <1>5 DEF InTree
<1>7. \A p \in InTree : Spot(p)' = Spot(p)
    BY <1>3, <1>4, <1>5 DEF InTree, Spot
<1>8. SameTreeStep
    BY <1>2, <1>6, <1>7 DEF SameTreeStep
<1>9. PortsInv' /\ FaithInv'
    BY <1>8, SameTree DEF TopologyInv
<1>10. ListsInv'
    BY <1>2, <1>3, <1>4, <1>5 DEF TopologyInv, ListsInv
<1>11. SettledInv'
    BY <1>2 DEF TopologyInv, SettledInv, LooksLike
<1>12. PortHoldsOne'
    BY <1>4 DEF TopologyInv, TreeInv, PortHoldsOne
<1>13. TreeRooted'
    <2> SUFFICES ASSUME NEW p \in Attached', p \notin disconnected
                 PROVE  place[p].parent \in Attached' \cup {RootHub}
        BY <1>2, <1>4 DEF TreeRooted
    <2>1. p \in Attached /\ p \in InTree /\ Spot(p) = place[p]
        BY <1>4, <1>5 DEF InTree, Spot
    <2>2. place[p].parent \in InTree \cup {RootHub}
        BY <2>1 DEF TopologyInv, PortsInv
    <2>3. place[p].parent \in Attached \cup {RootHub}
        BY <2>1 DEF TopologyInv, TreeInv, TreeRooted
    <2>4. o \notin InTree
        BY <1>3, <1>5 DEF InTree
    <2> QED BY <2>2, <2>3, <2>4, <1>3, <1>4
<1>14. OrderInv'
    BY <1>2, <1>3, <1>4 DEF TopologyInv, TreeInv, OrderInv
<1>15. EventsInv'
    BY <1>2, <1>3, <1>4 DEF TopologyInv, TreeInv, EventsInv
<1>16. TypeOK'
    BY <1>1, <1>2, <1>3, <1>4 DEF TopologyInv, TypeOK
<1> QED BY <1>9, <1>10, <1>11, <1>12, <1>13, <1>14, <1>15, <1>16 DEF TopologyInv, TreeInv

\* A new device comes: its port is free, and its hub is there.
LEMMA AttachInv ==
    ASSUME TopologyInv, BusInv', Attach
    PROVE  TopologyInv'
<1>1. PICK i \in DOMAIN connected :
         /\ IsNext(i, Attached)
         /\ place' = [place EXCEPT ![connected[i].obj] = connected[i].at]
    BY DEF Attach
<1> DEFINE o == connected[i].obj
           at == connected[i].at
<1>2. /\ phase = "attach" /\ phase' = phase
      /\ UNCHANGED <<plugged, changes, pending, connected, disconnected, devOf, announced,
                     quiet, steady, settled>>
    BY DEF Attach, busVars, scanVars, history
<1>3. /\ o \in Objects /\ o \in NewDevices /\ o \notin Attached
      /\ at \in Places /\ at # None /\ NewPlace(o) = at
      /\ \A j \in 1..(i - 1) : connected[j].obj \in Attached
    BY <1>1, NewDevicesType, NewPlaceIs, NoneIsNoPlace DEF TopologyInv, IsNext, NewDevices
<1>4. at.parent \in NewDevices => at.parent \in Attached
    BY <1>3 DEF TopologyInv, TreeInv, OrderInv
<1>5. place' = [place EXCEPT ![o] = at]
    BY <1>1
<1> HIDE DEF o, at
<1>6. /\ Attached' = Attached \cup {o}
      /\ place'[o] = at /\ \A p \in Attached : place'[p] = place[p]
      /\ NewDevices' = NewDevices /\ \A p : NewPlace(p)' = NewPlace(p)
    BY <1>2, <1>3, <1>5 DEF TopologyInv, TypeOK, Attached, NewDevices, NewPlace
<1>7. NewDevices \cap disconnected = {} /\ disconnected \cap Attached = {}
    BY <1>2 DEF TopologyInv, ListsInv
<1>8. InTree' = InTree
    BY <1>2, <1>3, <1>6, <1>7 DEF InTree
<1>9. \A p \in InTree : Spot(p)' = Spot(p)
    BY <1>6 DEF InTree, Spot
<1>10. \A p \in Attached' : p \in InTree /\ Spot(p) = place'[p]
    BY <1>3, <1>6, <1>7 DEF TopologyInv, ListsInv, InTree, Spot
<1>11. SameTreeStep
    BY <1>2, <1>8, <1>9 DEF SameTreeStep
<1>12. PortsInv' /\ FaithInv'
    BY <1>11, SameTree DEF TopologyInv
<1>13. ListsInv'
    BY <1>2, <1>3, <1>6, <1>7 DEF TopologyInv, ListsInv
<1>14. SettledInv'
    BY <1>2 DEF SettledInv
<1>15. PortHoldsOne'
    BY <1>10 DEF TopologyInv, PortsInv, PortHoldsOne
<1>16. TreeRooted'
    <2>1. at.parent \in Attached \cup {RootHub}
        <3>1. at.parent \in InTree \cup {RootHub}
            BY <1>3, <1>10, <1>6 DEF TopologyInv, PortsInv
        <3> QED BY <3>1, <1>4 DEF InTree
    <2>2. \A p \in Attached : place[p].parent \in Attached \cup {RootHub}
        BY <1>2 DEF TopologyInv, TreeInv, TreeRooted
    <2> QED BY <2>1, <2>2, <1>6 DEF TreeRooted
<1>17. OrderInv'
    <2>1. \A p \in Attached' : place'[p].parent \in Attached' \cup {RootHub}
        BY <1>2, <1>16 DEF TreeRooted
    <2> QED BY <2>1, <1>2, <1>3, <1>6 DEF TopologyInv, TreeInv, OrderInv
<1>18. EventsInv'
    BY <1>2, <1>3, <1>6 DEF TopologyInv, TreeInv, EventsInv
<1>19. TypeOK'
    <2>1. place' \in [Objects -> Places \cup {None}]
        BY <1>3, <1>5 DEF TopologyInv, TypeOK
    <2>2. \A p \in Attached' : devOf[p] # None
        BY <1>3, <1>6 DEF TopologyInv, TypeOK, ListsInv
    <2> QED BY <1>2, <2>1, <2>2 DEF TopologyInv, TypeOK
<1> QED BY <1>12, <1>13, <1>14, <1>15, <1>16, <1>17, <1>18, <1>19 DEF TopologyInv, TreeInv

\* An event is fired: listeners forget one that is gone, or hear of the next new one.
LEMMA EventInv ==
    ASSUME TopologyInv, BusInv', AnnounceDetached \/ AnnounceAttached
    PROVE  TopologyInv'
<1>1. /\ phase \in {"detached", "announce"}
      /\ UNCHANGED <<plugged, changes, phase, pending, connected, disconnected, devOf, place,
                     quiet, steady, settled>>
    BY DEF AnnounceDetached, AnnounceAttached, busVars, scanVars, history
<1>2. Attached' = Attached /\ NewDevices' = NewDevices /\ \A o : NewPlace(o)' = NewPlace(o)
    BY <1>1 DEF Attached, NewDevices, NewPlace
<1>3. InTree' = InTree /\ (\A o : Spot(o)' = Spot(o))
    BY <1>1, <1>2 DEF InTree, Spot
<1>4. SameTreeStep
    BY <1>1, <1>3 DEF SameTreeStep
<1>5. PortsInv' /\ FaithInv'
    BY <1>4, SameTree DEF TopologyInv
<1>6. ListsInv'
    BY <1>1, <1>2 DEF TopologyInv, ListsInv
<1>7. SettledInv'
    BY <1>1 DEF SettledInv
<1>8. PortHoldsOne' /\ TreeRooted' /\ OrderInv'
    BY <1>1, <1>2 DEF TopologyInv, TreeInv, PortHoldsOne, TreeRooted, OrderInv
<1>9. /\ NewDevices \cap disconnected = {} /\ disconnected \cap Attached = {}
      /\ NewDevices \subseteq Attached /\ NewDevices \subseteq Objects
    BY <1>1, NewDevicesType DEF TopologyInv, ListsInv
<1>10. EventsInv' /\ announced' \subseteq Objects
    <2>1. CASE AnnounceDetached
        <3>1. phase = "detached" /\ \E o \in disconnected : announced' = announced \ {o}
            BY <2>1 DEF AnnounceDetached
        <3> QED BY <3>1, <1>1, <1>2, <1>9 DEF TopologyInv, TypeOK, TreeInv, EventsInv
    <2>2. CASE AnnounceAttached
        <3>1. PICK i \in DOMAIN connected :
                 /\ IsNext(i, announced)
                 /\ announced' = announced \cup {connected[i].obj}
            BY <2>2 DEF AnnounceAttached
        <3>2. phase = "announce" /\ connected[i].obj \in NewDevices
            BY <2>2 DEF AnnounceAttached, NewDevices
        <3>3. \A j \in DOMAIN connected : connected[j].obj = connected[i].obj => j = i
            BY DEF TopologyInv, ListsInv
        <3> QED BY <3>1, <3>2, <3>3, <1>1, <1>2, <1>9
                DEF TopologyInv, TypeOK, TreeInv, EventsInv, IsNext
    <2> QED BY <2>1, <2>2
<1>11. TypeOK'
    BY <1>1, <1>2, <1>10 DEF TopologyInv, TypeOK
<1> QED BY <1>5, <1>6, <1>7, <1>8, <1>10, <1>11 DEF TopologyInv, TreeInv

LEMMA UpdateDoneInv ==
    ASSUME TopologyInv, BusInv', UpdateDone
    PROVE  TopologyInv'
<1>1. /\ phase = "announce" /\ phase' = "idle" /\ NewDevices \subseteq announced
      /\ devOf' = [o \in Objects |-> IF o \in disconnected THEN None ELSE devOf[o]]
      /\ connected' = <<>> /\ disconnected' = {}
      /\ UNCHANGED <<plugged, changes, pending, place, announced, quiet, steady, settled>>
    BY DEF UpdateDone, busVars, history
<1>2. Attached' = Attached /\ NewDevices' = {}
    BY <1>1 DEF Attached, NewDevices
<1>3. /\ NewDevices \subseteq Attached /\ \A o \in NewDevices : place[o] = NewPlace(o)
      /\ NewDevices \cap disconnected = {} /\ disconnected \cap Attached = {}
      /\ pending = <<>>
    BY <1>1 DEF TopologyInv, ListsInv
<1>4. announced = Attached
    BY <1>1, <1>3 DEF TopologyInv, TreeInv, EventsInv
<1>5. InTree = Attached /\ InTree' = Attached
    BY <1>1, <1>2, <1>3 DEF InTree
<1>6. \A o \in InTree : Spot(o)' = Spot(o) /\ devOf'[o] = devOf[o]
    BY <1>1, <1>2, <1>3, <1>5 DEF Spot, Attached
<1>7. SameTreeStep
    BY <1>1, <1>5, <1>6 DEF SameTreeStep
<1>8. PortsInv' /\ FaithInv'
    BY <1>7, SameTree DEF TopologyInv
<1>9. ListsInv'
    BY <1>1, <1>2, <1>3 DEF ListsInv
<1>10. SettledInv'
    BY <1>1 DEF SettledInv
<1>11. PortHoldsOne' /\ TreeRooted'
    BY <1>1, <1>2 DEF TopologyInv, TreeInv, PortHoldsOne, TreeRooted
<1>12. OrderInv' /\ EventsInv'
    BY <1>1, <1>2, <1>4 DEF TopologyInv, TreeInv, TreeRooted, OrderInv, EventsInv
<1>13. TypeOK'
    <2>1. connected' \in Seq([obj : Objects, at : Places])
        BY <1>1, EmptySeq
    <2>2. \A o \in Attached' : devOf'[o] # None
        BY <1>2, <1>5, <1>6 DEF TopologyInv, TypeOK
    <2>3. devOf' \in [Objects -> Devices \cup {None}]
        BY <1>1 DEF TopologyInv, TypeOK
    <2> QED BY <1>1, <2>1, <2>2, <2>3 DEF TopologyInv, TypeOK
<1> QED BY <1>8, <1>9, <1>10, <1>11, <1>12, <1>13 DEF TopologyInv, TreeInv

\* No step of the polling thread, and nothing that happens to the busses, breaks it.
LEMMA InvStep == TopologyInv /\ [Next]_vars => TopologyInv'
<1> SUFFICES ASSUME TopologyInv, [Next]_vars PROVE TopologyInv'
    OBVIOUS
<1>1. BusInv'
    BY BusStep DEF TopologyInv
<1>2. CASE \E d \in Devices : Plug(d) \/ Unplug(d)
    BY <1>1, <1>2, PlugInv
<1>3. CASE StartUpdate
    BY <1>1, <1>3, StartUpdateInv
<1>4. CASE StartUpdateFails
    BY <1>1, <1>4, StartUpdateFailsInv
<1>5. CASE BuildDevice
    BY <1>1, <1>5, BuildDeviceInv
<1>6. CASE BuildGone
    BY <1>1, <1>6, BuildGoneInv
<1>7. CASE BuildFails
    BY <1>1, <1>7, BuildFailsInv
<1>8. CASE UNCHANGED vars
    BY <1>1, <1>8, StutterInv
<1>9. CASE NextLoop
    BY <1>1, <1>9, NextLoopInv
<1>10. CASE Disconnect
    BY <1>1, <1>10, DisconnectInv
<1>11. CASE Attach
    BY <1>1, <1>11, AttachInv
<1>12. CASE AnnounceDetached \/ AnnounceAttached
    BY <1>1, <1>12, EventInv
<1>13. CASE UpdateDone
    BY <1>1, <1>13, UpdateDoneInv
<1> QED BY <1>2, <1>3, <1>4, <1>5, <1>6, <1>7, <1>8, <1>9, <1>10, <1>11, <1>12, <1>13
        DEF Next, Update

-----------------------------------------------------------------------------
(* The theorems.                                                           *)

LEMMA AlwaysTopologyInv == Spec => []TopologyInv
BY InvInit, InvStep, PTL DEF Spec

\* The variables of the polling thread keep their types: everything that is attached
\* was built for a device.
THEOREM TopologyTypes == Spec => []TypeOK
<1>1. TopologyInv => TypeOK
    BY DEF TopologyInv
<1> QED BY <1>1, AlwaysTopologyInv, PTL

\* No port of the tree ever has two devices: when attachUsbDeviceImp() is called the port
\* is free.
THEOREM PortsHoldOne == Spec => []PortHoldsOne
<1>1. TopologyInv => PortHoldsOne
    BY DEF TopologyInv, TreeInv
<1> QED BY <1>1, AlwaysTopologyInv, PTL

\* Everything attached hangs on a hub that is attached, but for what the loop of
\* disconnect() is about to take away: it leaves no subtree behind, and no new device
\* gets a port of a hub that goes or is not attached yet.
THEOREM TreeIsRooted == Spec => []TreeRooted
<1>1. TopologyInv => TreeRooted
    BY DEF TopologyInv, TreeInv
<1> QED BY <1>1, AlwaysTopologyInv, PTL

\* Between updates the listeners know exactly the devices that are attached, and at every
\* moment they know the hub of whatever they know of that is attached.
THEOREM EventsMatch == Spec => []EventsMatchTree
<1>1. ASSUME TopologyInv, phase = "idle" PROVE announced = Attached
    <2>1. /\ connected = <<>> /\ disconnected = {}
          /\ announced = (Attached \ NewDevices) \cup disconnected
        BY <1>1 DEF TopologyInv, ListsInv, TreeInv, EventsInv
    <2>2. NewDevices = {}
        BY <2>1 DEF NewDevices
    <2> QED BY <2>1, <2>2
<1>2. ASSUME TopologyInv, NEW o \in announced \cap Attached
      PROVE  place[o].parent \in announced \cup {RootHub}
    <2>1. place[o].parent \in Attached \cup disconnected \cup {RootHub}
        BY <1>2 DEF TopologyInv, TreeInv, OrderInv
    <2>2. CASE o \notin NewDevices
        <3>1. place[o].parent \notin NewDevices
            BY <1>2, <2>2 DEF TopologyInv, TreeInv, OrderInv
        <3>2. CASE phase \in {"idle", "scan", "disconnect", "attach"}
            BY <1>2, <2>1, <3>1, <3>2 DEF TopologyInv, TreeInv, EventsInv
        <3>3. CASE phase \in {"detached", "announce"}
            BY <1>2, <3>1, <3>3 DEF TopologyInv, TreeInv, TreeRooted, EventsInv
        <3> QED BY <1>2, <3>2, <3>3 DEF TopologyInv, TypeOK
    <2>3. CASE o \in NewDevices
        <3>1. phase = "announce"
            BY <1>2, <2>3 DEF TopologyInv, TypeOK, ListsInv, TreeInv, EventsInv
        <3>2. PICK i \in DOMAIN connected : connected[i].obj = o
            BY <2>3 DEF NewDevices
        <3>3. place[o] = connected[i].at
            BY <1>2, <2>3, <3>2, NewPlaceIs DEF TopologyInv, ListsInv
        <3>4. place[o].parent \in Attached \cup {RootHub}
            BY <1>2, <3>1 DEF TopologyInv, TreeInv, TreeRooted
        <3>5. CASE place[o].parent \in NewDevices
            <4>1. PICK j \in 1..(i - 1) : connected[j].obj = place[o].parent
                BY <1>2, <3>3, <3>5 DEF TopologyInv, TreeInv, OrderInv
            <4> QED BY <1>2, <4>1, <3>1, <3>2 DEF TopologyInv, TreeInv, EventsInv
        <3>6. CASE place[o].parent \notin NewDevices
            BY <1>2, <3>4, <3>6 DEF TopologyInv, TreeInv, EventsInv
        <3> QED BY <3>5, <3>6
    <2> QED BY <2>2, <2>3
<1>3. TopologyInv => EventsMatchTree
    BY <1>1, <1>2 DEF EventsMatchTree
<1> QED BY <1>3, AlwaysTopologyInv, PTL

\* An update during which nothing changed and nothing failed makes the tree what is
\* plugged in, from whatever tree the updates before it left.
THEOREM UpdatesAreFaithful == Spec => []UpdateIsFaithful
<1>1. ASSUME TopologyInv, quiet, phase = "idle" PROVE TreeIsBus
    <2>1. /\ connected = <<>> /\ disconnected = {} /\ pending = <<>>
        BY <1>1 DEF TopologyInv, ListsInv
    <2>2. NewDevices = {} /\ ToSet(pending) = {}
        BY <2>1 DEF NewDevices, ToSet
    <2>3. InTree = Attached /\ \A o : Spot(o) = place[o]
        BY <2>1, <2>2 DEF InTree, Spot
    <2>4. /\ \A o \in Attached : \E d \in plugged : LooksLike(devOf[o], d) /\ FittedAt(place[o], d)
          /\ \A d \in plugged : ParentOf[d] = RootHub \/ Shown(ParentOf[d])
                                => Shown(d) \/ Called(d)
        BY <1>1, <2>3 DEF TopologyInv, FaithInv
    <2>5. \A o \in Attached : \E d \in plugged : StandsFor(o, d)
        BY <2>4 DEF StandsFor, FittedAt
    <2>6. \A d : ~Called(d)
        BY <2>2 DEF Called
    <2>7. ASSUME NEW d \in plugged PROVE Shown(d)
        <3> DEFINE U == {e \in plugged : ~Shown(e)}
        <3> SUFFICES ASSUME U # {} PROVE FALSE
            OBVIOUS
        <3>1. U \in SUBSET Devices
            BY <1>1 DEF TopologyInv, TypeOK
        <3>2. PICK e \in U : ParentOf[e] \notin U
            BY <3>1, TreeAssumption
        <3>3. ParentOf[e] \in plugged \cup {RootHub}
            BY <1>1 DEF TopologyInv, BusInv
        <3> QED BY <3>2, <3>3, <2>4, <2>6
    <2>8. ASSUME NEW d \in plugged PROVE \E o \in Attached : StandsFor(o, d)
        <3>1. PICK o \in Attached : LooksLike(devOf[o], d)
            BY <2>3, <2>7 DEF Shown
        <3>2. PICK e \in plugged : StandsFor(o, e)
            BY <2>5
        <3>3. e = d
            <4>1. KeyOf[e] = KeyOf[d]
                BY <3>1, <3>2 DEF StandsFor, LooksLike
            <4> QED BY <4>1, <1>1, KeyIsUnique DEF TopologyInv
        <3> QED BY <3>2, <3>3
    <2> QED BY <2>5, <2>8 DEF TreeIsBus
<1>2. TopologyInv => UpdateIsFaithful
    BY <1>1 DEF UpdateIsFaithful
<1> QED BY <1>2, AlwaysTopologyInv, PTL

\* A device that is there all the time and can be read keeps its object if that was in
\* the right place, whatever else comes, goes or fails.
THEOREM SteadyDevicesAreKept == Spec => SteadyDevicesKept
<1> DEFINE A == \A o \in settled \cap Attached :
                   (\E d \in steady : LooksLike(devOf[o], d)) => place'[o] = place[o]
<1>1. ASSUME TopologyInv, [Next]_vars PROVE [A]_vars
    <2>1. CASE Disconnect
        <3>1. \A o \in settled, d \in steady : LooksLike(devOf[o], d) => o \notin disconnected
            BY <1>1, <2>1 DEF TopologyInv, SettledInv, Disconnect
        <3>2. \E o \in disconnected : place' = [place EXCEPT ![o] = None]
            BY <2>1 DEF Disconnect, Leaving
        <3> QED BY <3>1, <3>2, <1>1 DEF TopologyInv, TypeOK, Attached
    <2>2. CASE Attach
        <3>1. PICK i \in DOMAIN connected :
                 /\ connected[i].obj \notin Attached
                 /\ place' = [place EXCEPT ![connected[i].obj] = connected[i].at]
            BY <2>2 DEF Attach, IsNext
        <3> QED BY <3>1, <1>1 DEF TopologyInv, TypeOK, Attached
    <2>3. CASE place' = place
        BY <2>3
    <2>4. Next => Disconnect \/ Attach \/ place' = place
        BY DEF Next, Update, StartUpdate, StartUpdateFails, BuildDevice, BuildGone, BuildFails,
               AnnounceDetached, AnnounceAttached, NextLoop, UpdateDone, Plug, Unplug, treeVars
    <2> QED BY <1>1, <2>1, <2>2, <2>3, <2>4
<1> QED BY <1>1, AlwaysTopologyInv, PTL DEF Spec, SteadyDevicesKept

=============================================================================
