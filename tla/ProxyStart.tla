----------------------------- MODULE ProxyStart -----------------------------
(***************************************************************************)
(* LinuxDeviceProxy.start() and startCompleted(): how an application       *)
(* thread starts the native proxy thread of a device and learns whether it *)
(* could open the device.  DeviceProxy takes this as a single step.        *)
(*                                                                         *)
(* startLock is held only inside a step, so it has no variable; wait()     *)
(* releases it.  The monitor of the LinuxDeviceProxy is held all through   *)
(* start().                                                                *)
(***************************************************************************)
EXTENDS Naturals, FiniteSets

CONSTANTS
    Starters,       \* application threads that call getLinuxDeviceProxy()
    NativeThreads,  \* the Threads that start() creates
    EarlyWakers,    \* starters whose wait() may end without a notification: they
                    \* are interrupted, or wake up spuriously
    None            \* no thread (null)

ASSUME ThreadsAssumption ==
    /\ EarlyWakers \subseteq Starters
    /\ None \notin Starters \cup NativeThreads

VARIABLES
    pc,             \* per starter: "idle", "start", "wait" or "awake"
    mine,           \* per starter: the local variable t of start()
    monitor,        \* the starter that holds the monitor of the LinuxDeviceProxy
    thread,         \* LinuxDeviceProxy.thread
    startError,     \* LinuxDeviceProxy.startError
    native,         \* what each native thread is doing
    interrupted,    \* history: the starters that woke up early
    openedIt        \* history: the native threads that opened the device

vars == <<pc, mine, monitor, thread, startError, native, interrupted, openedIt>>

\* "new": not started. "opening", then "opened" or "failed": on the way to
\* startCompleted(). "running": in the loop. "returning": the descriptor is closed
\* or was never open, but the thread is still alive.
Alive == {"opening", "opened", "failed", "running", "returning"}
NativeStates == {"new", "dead"} \cup Alive

\* -1, the initial value of startError; an errno of open_device(); 0.
StartErrors == {"initial", "errno", "none"}

TypeOK ==
    /\ pc \in [Starters -> {"idle", "start", "wait", "awake"}]
    /\ mine \in [Starters -> NativeThreads \cup {None}]
    /\ \A s \in Starters : pc[s] \in {"wait", "awake"} => mine[s] \in NativeThreads
    /\ monitor \in Starters \cup {None}
    /\ thread \in NativeThreads \cup {None}
    /\ startError \in StartErrors
    /\ native \in [NativeThreads -> NativeStates]
    /\ interrupted \subseteq EarlyWakers
    /\ openedIt \subseteq NativeThreads

Init ==
    /\ pc = [s \in Starters |-> "idle"]
    /\ mine = [s \in Starters |-> None]
    /\ monitor = None
    /\ thread = None
    /\ startError = "initial"
    /\ native = [n \in NativeThreads |-> "new"]
    /\ interrupted = {} /\ openedIt = {}

\* isRunning(): thread.isAlive(), false if thread is null.
IsRunning == thread # None /\ native[thread] \in Alive

-----------------------------------------------------------------------------
(* The starters.                                                           *)

\* Mutation of GetLinuxDeviceProxy: the block is not synchronized.
GetLinuxDeviceProxyUnlocked(s) ==
    /\ pc[s] = "idle"
    /\ ~IsRunning
    /\ monitor' = s
    /\ pc' = [pc EXCEPT ![s] = "start"]
    /\ UNCHANGED <<mine, thread, startError, native, interrupted, openedIt>>

\* LinuxDeviceOsImp.getLinuxDeviceProxy() finds no proxy running. (If it finds one
\* it just returns.)
GetLinuxDeviceProxy(s) ==
    /\ pc[s] = "idle"
    /\ monitor = None
    /\ ~IsRunning
    /\ monitor' = s
    /\ pc' = [pc EXCEPT ![s] = "start"]
    /\ UNCHANGED <<mine, thread, startError, native, interrupted, openedIt>>

\* t.start() and startLock.wait(), in one block of startLock.
StartThread(s) ==
    /\ pc[s] = "start"
    /\ \E n \in NativeThreads :
          /\ native[n] = "new"
          /\ native' = [native EXCEPT ![n] = "opening"]
          /\ mine' = [mine EXCEPT ![s] = n]
    /\ pc' = [pc EXCEPT ![s] = "wait"]
    /\ UNCHANGED <<monitor, thread, startError, interrupted, openedIt>>

\* wait() ends although nobody called notifyAll(); the InterruptedException is
\* ignored, and nothing is tested again.
WakeEarly(s) ==
    /\ s \in EarlyWakers
    /\ pc[s] = "wait"
    /\ pc' = [pc EXCEPT ![s] = "awake"]
    /\ interrupted' = interrupted \cup {s}
    /\ UNCHANGED <<mine, monitor, thread, startError, native, openedIt>>

\* Mutation of StartReturns: thread is set before the error is looked at.
StartReturnsAlways(s) ==
    /\ pc[s] = "awake"
    /\ thread' = mine[s]
    /\ monitor' = None
    /\ pc' = [pc EXCEPT ![s] = "idle"]
    /\ mine' = [mine EXCEPT ![s] = None]
    /\ UNCHANGED <<startError, native, interrupted, openedIt>>

\* The end of start(): it throws or keeps the thread, as startError says.
StartReturns(s) ==
    /\ pc[s] = "awake"
    /\ thread' = IF startError = "none" THEN mine[s] ELSE thread
    /\ monitor' = None
    /\ pc' = [pc EXCEPT ![s] = "idle"]
    /\ mine' = [mine EXCEPT ![s] = None]
    /\ UNCHANGED <<startError, native, interrupted, openedIt>>

-----------------------------------------------------------------------------
(* The native threads: nativeDeviceProxy().                                *)

\* open_device() succeeds or fails.
OpenDevice(n) ==
    /\ native[n] = "opening"
    /\ \/ native' = [native EXCEPT ![n] = "opened"] /\ openedIt' = openedIt \cup {n}
       \/ native' = [native EXCEPT ![n] = "failed"] /\ UNCHANGED openedIt
    /\ UNCHANGED <<pc, mine, monitor, thread, startError, interrupted>>

\* Mutations of StartCompleted: only an error is recorded; not called if the device could
\* not be opened.
StartCompletedRecordsErrors(n) ==
    /\ native[n] \in {"opened", "failed"}
    /\ startError' = IF native[n] = "opened" THEN startError ELSE "errno"
    /\ native' = [native EXCEPT ![n] = IF @ = "opened" THEN "running" ELSE "returning"]
    /\ pc' = [s \in Starters |-> IF pc[s] = "wait" THEN "awake" ELSE pc[s]]
    /\ UNCHANGED <<mine, monitor, thread, interrupted, openedIt>>

StartCompletedIfOpened(n) ==
    /\ native[n] \in {"opened", "failed"}
    /\ native' = [native EXCEPT ![n] = IF @ = "opened" THEN "running" ELSE "returning"]
    /\ IF native[n] = "opened"
         THEN /\ startError' = "none"
              /\ pc' = [s \in Starters |-> IF pc[s] = "wait" THEN "awake" ELSE pc[s]]
         ELSE UNCHANGED <<startError, pc>>
    /\ UNCHANGED <<mine, monitor, thread, interrupted, openedIt>>

\* startCompleted() sets startError and calls notifyAll().
StartCompleted(n) ==
    /\ native[n] \in {"opened", "failed"}
    /\ startError' = IF native[n] = "opened" THEN "none" ELSE "errno"
    /\ native' = [native EXCEPT ![n] = IF @ = "opened" THEN "running" ELSE "returning"]
    /\ pc' = [s \in Starters |-> IF pc[s] = "wait" THEN "awake" ELSE pc[s]]
    /\ UNCHANGED <<mine, monitor, thread, interrupted, openedIt>>

\* ENODEV ends the loop and the descriptor is closed.
LeaveLoop(n) ==
    /\ native[n] = "running"
    /\ native' = [native EXCEPT ![n] = "returning"]
    /\ UNCHANGED <<pc, mine, monitor, thread, startError, interrupted, openedIt>>

\* The thread dies.
ThreadEnds(n) ==
    /\ native[n] = "returning"
    /\ native' = [native EXCEPT ![n] = "dead"]
    /\ UNCHANGED <<pc, mine, monitor, thread, startError, interrupted, openedIt>>

StarterStep(s) == GetLinuxDeviceProxy(s) \/ StartThread(s) \/ WakeEarly(s) \/ StartReturns(s)

NativeStep(n) == OpenDevice(n) \/ StartCompleted(n) \/ LeaveLoop(n) \/ ThreadEnds(n)

Next == (\E s \in Starters : StarterStep(s)) \/ (\E n \in NativeThreads : NativeStep(n))

Spec == Init /\ [][Next]_vars

\* open() of the device node returns, and a thread that can go on goes on. Neither
\* a further call of getLinuxDeviceProxy() nor the end of the loop is promised.
Fairness ==
    /\ \A s \in Starters : WF_vars(StartReturns(s))
    /\ \A n \in NativeThreads : WF_vars(OpenDevice(n) \/ StartCompleted(n))

FairSpec == Spec /\ Fairness

-----------------------------------------------------------------------------
(* Properties.                                                             *)

\* The native threads that have the device open, or are about to.
Serving == {n \in NativeThreads : native[n] \in {"opening", "opened", "running"}}

\* Only one native thread at a time takes requests from the lists of the proxy, if no
\* start() woke up early.
OneProxyThread == interrupted = {} => \A m, n \in Serving : m = n

\* No thread serves the device unnoticed: it is the one isRunning() looks at, or the
\* one that the holder of the monitor is starting.
NoStrayThread ==
    interrupted = {} =>
        \A n \in Serving : n = thread \/ \E s \in Starters : monitor = s /\ mine[s] = n

\* start() keeps its thread if that has opened the device, and throws if it could not,
\* though startError is read without the lock and is shared by all starts.
StartTellsTruth ==
    [][\A s \in Starters : interrupted = {} /\ pc[s] = "awake" /\ pc'[s] = "idle" =>
          (thread' = mine[s] <=> mine[s] \in openedIt)]_vars

\* start() waits without a timeout, in the monitor of the proxy: the notification it
\* waits for comes, however early the native thread is done.
StarterServed == \A s \in Starters : pc[s] = "wait" ~> pc[s] = "idle"

\* The inductive invariant behind these, as long as no start() woke up early: where
\* the thread of the current start() is, and that the thread of an earlier one that
\* is still in its loop is the one isRunning() looks at.
HandOver ==
    interrupted = {} =>
        /\ \A s \in Starters : pc[s] # "idle" <=> monitor = s
        /\ \A s \in Starters : pc[s] = "wait" => native[mine[s]] \in {"opening", "opened", "failed"}
        /\ \A s \in Starters : pc[s] = "awake" =>
              \/ /\ native[mine[s]] \in {"running", "returning", "dead"}
                 /\ mine[s] \in openedIt /\ startError = "none"
              \/ /\ native[mine[s]] \in {"returning", "dead"}
                 /\ mine[s] \notin openedIt /\ startError = "errno"
        /\ \A s \in Starters : pc[s] \in {"wait", "awake"} => mine[s] # thread
        /\ \A n \in NativeThreads : native[n] \in {"opening", "opened", "failed"} =>
              \E s \in Starters : pc[s] = "wait" /\ mine[s] = n
        /\ \A n \in NativeThreads : native[n] = "running" =>
              n = thread \/ \E s \in Starters : pc[s] = "awake" /\ mine[s] = n
        /\ thread # None => native[thread] \in {"running", "returning", "dead"}
        /\ monitor # None => ~IsRunning
        /\ \A n \in NativeThreads : native[n] = "opened" => n \in openedIt
        /\ \A n \in NativeThreads : native[n] \in {"new", "opening", "failed"} => n \notin openedIt

\* LinuxDeviceProxy.isRunning(): "If this is running". When nobody is inside start(),
\* a native thread in its loop is one that isRunning() reports.
RunningIsKnown ==
    monitor = None /\ (\E n \in NativeThreads : native[n] = "running") => IsRunning
=============================================================================
