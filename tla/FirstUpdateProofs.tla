------------------------- MODULE FirstUpdateProofs -------------------------
(***************************************************************************)
(* For any number of callers, changes and polling errors: nobody misses    *)
(* the first update, and no change of the bus is forgotten.                *)
(***************************************************************************)
EXTENDS FirstUpdate, TLAPS

LEMMA Numbers == MaxChanges \in Nat /\ MaxErrors \in Nat /\ 1 <= MaxChanges
BY NumbersAssumption

\* The type invariant: every variable keeps its range.
LEMMA TypeInit == Init => TypeOK
<1> SUFFICES ASSUME Init PROVE TypeOK
    OBVIOUS
<1>1. listener \in {"none", "opening"}
    BY DEF Init
<1>2. /\ topologyUpdateUsePolling \in BOOLEAN /\ eventPending \in BOOLEAN
      /\ firstUpdateDone \in BOOLEAN
    BY Zenon DEF Init
<1>3. /\ bus \in 0..MaxChanges /\ kernelErrors \in 0..MaxErrors
      /\ scanned \in 0..MaxChanges /\ tree \in 0..MaxChanges
    BY Numbers DEF Init
<1> QED BY <1>1, <1>2, <1>3 DEF Init, TypeOK

LEMMA TypeStep == TypeOK /\ [Next]_vars => TypeOK'
<1> SUFFICES ASSUME TypeOK, [Next]_vars PROVE TypeOK'
    OBVIOUS
<1> USE Numbers DEF TypeOK
<1>1. CASE BusChange
    BY <1>1 DEF BusChange, updating, listening
<1>2. CASE PollError
    BY <1>2 DEF PollError, updating, TooMany
<1>3. CASE Listener
    <2>1. NotifyAll => caller' \in [Callers -> {"outside", "blocked", "inside",
                                                "waiting", "leaving", "returned"}]
        BY DEF NotifyAll
    <2>2. CASE Open
        BY <2>2 DEF Open, events, updating
    <2>3. CASE PollIn
        BY <2>3 DEF PollIn, updating
    <2>4. CASE TopologyChange
        BY <2>4 DEF TopologyChange, Queue, events
    <2>5. CASE TopologyListenerExit
        BY <2>1, <2>5 DEF TopologyListenerExit, events, updating
    <2> QED BY <1>3, <2>2, <2>3, <2>4, <2>5 DEF Listener
<1>4. CASE Updater
    <2>1. CASE StartUpdate
        BY <2>1 DEF StartUpdate, events, listening
    <2>2. CASE ChangeTree
        <3>1. tree' \in scanned..bus /\ scanned \in Nat /\ bus \in 0..MaxChanges
            BY <2>2 DEF ChangeTree
        <3>2. tree' \in 0..MaxChanges
            BY <3>1
        <3> QED BY <2>2, <3>2 DEF ChangeTree, events, listening
    <2>3. CASE EndUpdate
        BY <2>3 DEF EndUpdate, AnnounceUpdate, NotifyAll, events, listening
    <2> QED BY <1>4, <2>1, <2>2, <2>3 DEF Updater
<1>5. ASSUME NEW c \in Callers,
             Call(c) \/ Enter(c) \/ CheckFirstUpdate(c) \/ WaitExpires(c) \/ Leave(c)
      PROVE  TypeOK'
    <2>1. UNCHANGED <<events, listening, updating, firstUpdateDone>>
        BY <1>5 DEF Call, Enter, CheckFirstUpdate, WaitExpires, Leave
    <2>2. monitor' \in Callers \cup {None}
        BY <1>5 DEF Call, Enter, CheckFirstUpdate, WaitExpires, Leave
    <2>3. caller' \in [Callers -> {"outside", "blocked", "inside", "waiting", "leaving", "returned"}]
        BY <1>5 DEF Call, Enter, CheckFirstUpdate, WaitExpires, Leave
    <2> QED BY <2>1, <2>2, <2>3 DEF events, listening, updating
<1>6. CASE UNCHANGED vars
    BY <1>6 DEF vars, events, listening, updating
<1> QED BY <1>1, <1>2, <1>3, <1>4, <1>5, <1>6 DEF Next

-----------------------------------------------------------------------------
\* A scan begins with the bus as it is, so it never takes the tree back: what the
\* tree shows and what a scan has read come in the order of the changes.
ScanInv ==
    /\ TypeOK
    /\ tree <= bus /\ scanned <= bus
    /\ update = "scanning" => tree <= scanned
    /\ NoChangeForgotten

LEMMA ScanStep == ScanInv /\ [Next]_vars => ScanInv'
<1> SUFFICES ASSUME ScanInv, [Next]_vars PROVE ScanInv'
    OBVIOUS
<1>1. TypeOK'
    BY TypeStep DEF ScanInv
<1>2. /\ bus \in Nat /\ scanned \in Nat /\ tree \in Nat /\ queued \in Nat
      /\ bus' \in Nat /\ scanned' \in Nat /\ tree' \in Nat /\ queued' \in Nat
    BY <1>1 DEF ScanInv, TypeOK
<1> USE <1>2 DEF ScanInv, NoChangeForgotten
<1>3. CASE BusChange
    BY <1>1, <1>3 DEF BusChange, updating
<1>4. CASE PollError
    BY <1>1, <1>4 DEF PollError, updating, TooMany
<1>5. CASE Listener
    <2>1. CASE Open
        BY <1>1, <2>1 DEF Open, updating, events
    <2>2. CASE PollIn
        BY <1>1, <2>2 DEF PollIn, updating
    <2>3. CASE TopologyChange
        <3>1. queued' > 0
            BY <2>3 DEF TopologyChange, Queue
        <3> QED BY <1>1, <2>3, <3>1 DEF TopologyChange, events
    <2>4. CASE TopologyListenerExit
        BY <1>1, <2>4 DEF TopologyListenerExit, updating, events
    <2> QED BY <1>5, <2>1, <2>2, <2>3, <2>4 DEF Listener
<1>6. CASE StartUpdate
    BY <1>1, <1>6 DEF StartUpdate, events
<1>7. CASE ChangeTree
    <2>1. tree' \in scanned..bus /\ bus' = bus /\ scanned' = scanned /\ update' = "announcing"
        BY <1>7 DEF ChangeTree, events
    <2>2. tree' <= bus' /\ tree <= tree'
        BY <1>7, <2>1 DEF ChangeTree
    <2>3. /\ topologyUpdateUsePolling' = topologyUpdateUsePolling /\ queued' = queued
          /\ listener' = listener /\ eventPending' = eventPending
        BY <1>7 DEF ChangeTree, events, listening
    <2>4. tree' < bus' => tree < bus /\ scanned # bus
        BY <2>1, <2>2
    <2>5. NoChangeForgotten'
        BY <2>3, <2>4
    <2> QED BY <1>1, <2>1, <2>2, <2>5
<1>8. CASE EndUpdate
    BY <1>1, <1>8 DEF EndUpdate, events, listening
<1>9. CASE UNCHANGED vars \/ \E c \in Callers :
              Call(c) \/ Enter(c) \/ CheckFirstUpdate(c) \/ WaitExpires(c) \/ Leave(c)
    <2>1. UNCHANGED <<events, listening, updating>>
        BY <1>9 DEF vars, Call, Enter, CheckFirstUpdate, WaitExpires, Leave
    <2> QED BY <1>1, <2>1 DEF events, listening, updating
<1> QED BY <1>3, <1>4, <1>5, <1>6, <1>7, <1>8, <1>9 DEF Next, Updater

\* Every variable of the listener, the updates and the callers keeps its type, and
\* nothing is seen before it happens: neither the tree nor a scan is ahead of the
\* bus, and a scan that runs is not behind the tree.
THEOREM FirstUpdateTypes == Spec => [](TypeOK /\ ScanInv)
<1>1. Init => ScanInv
    BY TypeInit DEF Init, ScanInv, NoChangeForgotten
<1>2. ScanInv => TypeOK
    BY DEF ScanInv
<1> QED BY <1>1, <1>2, ScanStep, PTL DEF Spec

\* A change of the bus that the tree does not show is on its way through the
\* kernel, the listener, the queue or the scan that runs.
THEOREM ChangesNotForgotten == Spec => []NoChangeForgotten
<1>1. ScanInv => NoChangeForgotten
    BY DEF ScanInv
<1> QED BY <1>1, FirstUpdateTypes, PTL

-----------------------------------------------------------------------------
\* The flag and the callers that wait change under one lock: a step that sets the
\* flag leaves nobody waiting, and with the flag set nobody begins to wait.
LEMMA NoLostStep == TypeOK /\ NoLostFirstUpdate /\ [Next]_vars => NoLostFirstUpdate'
<1> SUFFICES ASSUME TypeOK, NoLostFirstUpdate, [Next]_vars PROVE NoLostFirstUpdate'
    OBVIOUS
<1>1. ASSUME UNCHANGED <<caller, firstUpdateDone>> PROVE NoLostFirstUpdate'
    BY <1>1 DEF NoLostFirstUpdate
<1>2. ASSUME NotifyAll PROVE \A c \in Callers : caller'[c] # "waiting"
    BY <1>2 DEF NotifyAll
<1>3. CASE BusChange \/ PollError \/ Open \/ PollIn \/ TopologyChange \/ StartUpdate
           \/ ChangeTree \/ UNCHANGED vars
    BY <1>1, <1>3 DEF BusChange, PollError, Open, PollIn, TopologyChange, StartUpdate,
       ChangeTree, vars
<1>4. CASE TopologyListenerExit \/ EndUpdate
    <2>1. NotifyAll
        BY <1>4 DEF TopologyListenerExit, EndUpdate, AnnounceUpdate
    <2> QED BY <1>2, <2>1 DEF NoLostFirstUpdate
<1>5. ASSUME NEW d \in Callers,
             Call(d) \/ Enter(d) \/ CheckFirstUpdate(d) \/ WaitExpires(d) \/ Leave(d)
      PROVE  NoLostFirstUpdate'
    <2>1. firstUpdateDone' = firstUpdateDone
        BY <1>5 DEF Call, Enter, CheckFirstUpdate, WaitExpires, Leave
    <2>2. ASSUME NEW c \in Callers, caller'[c] = "waiting"
          PROVE  caller[c] = "waiting" \/ ~firstUpdateDone
        BY <1>5, <2>2 DEF Call, Enter, CheckFirstUpdate, WaitExpires, Leave, TypeOK
    <2> QED BY <2>1, <2>2 DEF NoLostFirstUpdate
<1> QED BY <1>3, <1>4, <1>5 DEF Next, Listener, Updater

\* Nobody who calls getRootUsbHub() waits for a first update that is done.
THEOREM FirstUpdateNotMissed == Spec => []NoLostFirstUpdate
<1>1. Init => NoLostFirstUpdate
    BY DEF Init, NoLostFirstUpdate
<1> QED BY <1>1, NoLostStep, FirstUpdateTypes, PTL DEF Spec
=============================================================================
