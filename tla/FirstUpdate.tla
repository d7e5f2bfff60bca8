---------------------------- MODULE FirstUpdate ----------------------------
(***************************************************************************)
(* How a change of the bus leads to an update of the topology, and how     *)
(* getRootUsbHub() waits for the first one: LinuxUsbServices and           *)
(* jni/JavaxUsbTopologyListener.c.  Topology has what an update does; here *)
(* it is one scan of the bus, whose state is a number that every change    *)
(* increases.                                                              *)
(***************************************************************************)
EXTENDS Integers

CONSTANTS
    Callers,            \* threads that call getRootUsbHub(), once each
    None,
    MAX_POLLING_ERRORS, \* 64 in jni/JavaxUsb.h
    MaxChanges,         \* how often the bus changes
    MaxErrors           \* how often poll() reports an error

ASSUME CallersAssumption == None \notin Callers
ASSUME NumbersAssumption ==
    /\ {MAX_POLLING_ERRORS, MaxErrors} \subseteq Nat
    /\ MaxChanges \in Nat \ {0}     \* the devices that are there are the first change

VARIABLES
    topologyUpdateUsePolling,   \* a property: poll by time, or listen
    bus,             \* the number of changes of the bus
    eventPending,    \* poll() of the devices file would return POLLIN
    kernelErrors,    \* how often poll() has returned POLLERR
    listener,        \* nativeTopologyListener()
    pollingError,    \* its count
    queued,          \* updates in the topologyUpdateManager
    update,          \* where updateTopology() is
    scanned,         \* the bus as the running update has read it
    tree,            \* the bus as the tree shows it
    firstUpdateDone,
    caller,          \* where each call of getRootUsbHub() is
    monitor          \* the caller inside the synchronized getRootUsbHub()

events == <<topologyUpdateUsePolling, bus, eventPending, kernelErrors>>
listening == <<listener, pollingError>>
updating == <<queued, update, scanned, tree>>
vars == <<events, listening, updating, firstUpdateDone, caller, monitor>>

TypeOK ==
    /\ topologyUpdateUsePolling \in BOOLEAN
    /\ bus \in 0..MaxChanges /\ eventPending \in BOOLEAN /\ kernelErrors \in 0..MaxErrors
    /\ listener \in {"none", "opening", "polling", "changed", "exiting", "exited"}
    /\ pollingError \in Nat
    /\ queued \in Nat
    /\ update \in {"idle", "scanning", "announcing"}
    /\ scanned \in 0..MaxChanges /\ tree \in 0..MaxChanges
    /\ firstUpdateDone \in BOOLEAN
    /\ caller \in [Callers -> {"outside", "blocked", "inside", "waiting", "leaving", "returned"}]
    /\ monitor \in Callers \cup {None}

\* The kernel reports the devices that are there at the start as a change.
Init ==
    /\ topologyUpdateUsePolling \in BOOLEAN
    /\ bus = 1 /\ eventPending = TRUE /\ kernelErrors = 0
    /\ listener = IF topologyUpdateUsePolling THEN "none" ELSE "opening"
    /\ pollingError = 0
    /\ queued = 0 /\ update = "idle" /\ scanned = 0 /\ tree = 0
    /\ firstUpdateDone = FALSE
    /\ caller = [c \in Callers |-> "outside"]
    /\ monitor = None

BusChange ==
    /\ bus < MaxChanges
    /\ bus' = bus + 1
    /\ eventPending' = TRUE
    /\ UNCHANGED <<topologyUpdateUsePolling, kernelErrors, listening, updating,
                   firstUpdateDone, caller, monitor>>

\* topologyLock.notifyAll().
NotifyAll == caller' = [c \in Callers |-> IF caller[c] = "waiting" THEN "leaving" ELSE caller[c]]

-----------------------------------------------------------------------------
(* nativeTopologyListener() and what it calls.                             *)

Open ==
    /\ listener = "opening"
    /\ listener' \in {"polling", "exiting"}     \* or open() fails
    /\ UNCHANGED <<events, pollingError, updating, firstUpdateDone, caller, monitor>>

\* Mutant: a count that reaches the maximum is already too much.
TooManyOffByOne(n) == MAX_POLLING_ERRORS <= n

TooMany(n) == MAX_POLLING_ERRORS < n

PollError ==
    /\ listener = "polling"
    /\ kernelErrors < MaxErrors
    /\ kernelErrors' = kernelErrors + 1
    /\ pollingError' = pollingError + 1
    /\ listener' = IF TooMany(pollingError + 1) THEN "exiting" ELSE "polling"
    /\ UNCHANGED <<topologyUpdateUsePolling, bus, eventPending, updating,
                   firstUpdateDone, caller, monitor>>

\* POLLIN; the kernel forgets the event. (After an empty or unknown one poll()
\* is called again: nothing changes.)
PollIn ==
    /\ listener = "polling"
    /\ eventPending
    /\ eventPending' = FALSE
    /\ listener' = "changed"
    /\ UNCHANGED <<topologyUpdateUsePolling, bus, kernelErrors, pollingError, updating,
                   firstUpdateDone, caller, monitor>>

\* Mutant: the running update is taken to be enough.
QueueUnlessRunning(n) == IF update = "idle" THEN n + 1 ELSE n

\* topologyUpdateManager.add(): its maximum size is Long.MAX_VALUE.
Queue(n) == n + 1

\* topologyChange(): sleep(topologyUpdateDelay), then queue an update.
TopologyChange ==
    /\ listener = "changed"
    /\ listener' = "polling"
    /\ queued' = Queue(queued)
    /\ UNCHANGED <<events, pollingError, update, scanned, tree, firstUpdateDone, caller, monitor>>

\* topologyListenerExit(): wakes who waits; no update will come.
TopologyListenerExit ==
    /\ listener = "exiting"
    /\ listener' = "exited"
    /\ NotifyAll
    /\ UNCHANGED <<events, pollingError, updating, firstUpdateDone, monitor>>

-----------------------------------------------------------------------------
(* updateTopology(): called by the thread of the topologyUpdateManager, or *)
(* again and again by the polling thread.                                  *)

StartUpdate ==
    /\ update = "idle"
    /\ \/ topologyUpdateUsePolling /\ UNCHANGED queued
       \/ queued > 0 /\ queued' = queued - 1
    /\ update' = "scanning"
    /\ scanned' = bus
    /\ UNCHANGED <<events, listening, tree, firstUpdateDone, caller, monitor>>

\* Devices disconnected and attached. Changes after the scan began may be seen.
ChangeTree ==
    /\ update = "scanning"
    /\ update' = "announcing"
    /\ tree' \in scanned..bus
    /\ UNCHANGED <<events, listening, queued, scanned, firstUpdateDone, caller, monitor>>

\* Mutant: nobody is notified.
AnnounceNothing == UNCHANGED caller

\* synchronized (topologyLock) at the end of updateTopology().
AnnounceUpdate == NotifyAll

EndUpdate ==
    /\ update = "announcing"
    /\ update' = "idle"
    /\ firstUpdateDone' = TRUE
    /\ AnnounceUpdate
    /\ UNCHANGED <<events, listening, queued, scanned, tree, monitor>>

-----------------------------------------------------------------------------
(* getRootUsbHub(): it keeps its monitor while it waits on topologyLock.   *)

Call(c) ==
    /\ caller[c] = "outside"
    /\ caller' = [caller EXCEPT ![c] = "blocked"]
    /\ UNCHANGED <<events, listening, updating, firstUpdateDone, monitor>>

Enter(c) ==
    /\ caller[c] = "blocked"
    /\ monitor = None
    /\ monitor' = c
    /\ caller' = [caller EXCEPT ![c] = "inside"]
    /\ UNCHANGED <<events, listening, updating, firstUpdateDone>>

CheckFirstUpdate(c) ==
    /\ caller[c] = "inside"
    /\ caller' = [caller EXCEPT ![c] = IF firstUpdateDone THEN "leaving" ELSE "waiting"]
    /\ UNCHANGED <<events, listening, updating, firstUpdateDone, monitor>>

\* Mutant: a wait without a maximum.
NoWaitExpires(c) == FALSE /\ UNCHANGED vars

\* MAX_FIRST_UPDATE_DELAY is over (or the thread is interrupted): no second look.
WaitExpires(c) ==
    /\ caller[c] = "waiting"
    /\ caller' = [caller EXCEPT ![c] = "leaving"]
    /\ UNCHANGED <<events, listening, updating, firstUpdateDone, monitor>>

Leave(c) ==
    /\ caller[c] = "leaving"
    /\ caller' = [caller EXCEPT ![c] = "returned"]
    /\ monitor' = None
    /\ UNCHANGED <<events, listening, updating, firstUpdateDone>>

Listener == Open \/ PollIn \/ TopologyChange \/ TopologyListenerExit
Updater == StartUpdate \/ ChangeTree \/ EndUpdate

Next ==
    \/ BusChange \/ PollError \/ Listener \/ Updater
    \/ \E c \in Callers :
          Call(c) \/ Enter(c) \/ CheckFirstUpdate(c) \/ WaitExpires(c) \/ Leave(c)

\* The threads go on, and ten seconds pass. Nothing makes the bus change, poll()
\* fail, or anybody call.
Fairness ==
    /\ WF_vars(Listener) /\ WF_vars(Updater)
    /\ \A c \in Callers : /\ WF_vars(Enter(c)) /\ WF_vars(CheckFirstUpdate(c))
                          /\ WF_vars(WaitExpires(c)) /\ WF_vars(Leave(c))

Spec == Init /\ [][Next]_vars /\ Fairness

-----------------------------------------------------------------------------
(* Properties.                                                             *)

\* Nobody waits for the first update when it is done: the flag is set, and read
\* before waiting, under the lock of the notification.
NoLostFirstUpdate == \A c \in Callers : caller[c] = "waiting" => ~firstUpdateDone

\* A change of the bus that the tree does not show is on its way: the kernel has
\* yet to report it, the listener or the queue has an update for it, or the scan
\* that runs began after it; unless the listener has ended.
NoChangeForgotten ==
    tree < bus =>
        \/ topologyUpdateUsePolling \/ listener \in {"exiting", "exited"}
        \/ eventPending \/ listener = "changed" \/ queued > 0
        \/ update = "scanning" /\ scanned = bus

\* Every change gets into the tree, provided the devices file could be opened and
\* poll() has failed no more often than the listener is to bear.
ChangeIsSeen ==
    \A n \in 1..MaxChanges :
        bus = n ~> \/ tree >= n
                   \/ kernelErrors > MAX_POLLING_ERRORS
                   \/ listener \in {"exiting", "exited"} /\ kernelErrors = 0

\* getRootUsbHub() returns, whatever becomes of the listener and the updates, and
\* however many callers wait for their turn.
CallersReturn == \A c \in Callers : caller[c] = "blocked" ~> caller[c] = "returned"

=============================================================================
