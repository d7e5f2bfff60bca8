---------------------------- MODULE RequestWait ----------------------------
(***************************************************************************)
(* The monitor of one LinuxRequest: waitUntilCompleted(), isCompleted()    *)
(* and notifyCompleted().  DeviceProxy takes a wait as a single step.      *)
(*                                                                         *)
(* The completed flag is an ordinary field that is written without the     *)
(* lock, so a thread may read its old value until it has taken waitLock    *)
(* after the writer released it.                                           *)
(*                                                                         *)
(* Names that ProxyStart has too begin with Wait here, so that one module  *)
(* can extend both.                                                        *)
(***************************************************************************)
EXTENDS Naturals, FiniteSets

CONSTANTS
    Waiters,        \* threads that call waitUntilCompleted()
    TimedWaiters,   \* those that pass a timeout (abortAllSubmissions())
    Completers,     \* threads that call setCompleted(true): the proxy thread, and
                    \* each abort that gave up
    Nobody          \* no waiter

ASSUME WaitersAssumption ==
    /\ IsFiniteSet(Waiters)
    /\ TimedWaiters \subseteq Waiters
    /\ Nobody \notin Waiters

VARIABLES
    completed,      \* LinuxRequest.completed, as last written
    published,      \* the flag was written before some release of waitLock
    waitCount,      \* LinuxRequest.waitCount
    waitLock,       \* the waiter that holds waitLock between steps
    waiter,         \* what each waiter is doing
    late,           \* timed waiters whose half second is over
    completer       \* what each completer is doing

waitVars == <<completed, published, waitCount, waitLock, waiter, late, completer>>

\* "test": at the head of the loop, with the lock. "asleep": in waitLock.wait(1000).
\* "awake": the wait is over, the lock not yet taken again.
Inside == {"test", "asleep", "awake"}

WaitTypeOK ==
    /\ completed \in BOOLEAN
    /\ published \in BOOLEAN
    /\ waitCount \in Nat
    /\ waitLock \in Waiters \cup {Nobody}
    /\ waiter \in [Waiters -> {"outside", "returned"} \cup Inside]
    /\ late \subseteq TimedWaiters
    /\ completer \in [Completers -> {"idle", "notify", "done"}]

WaitInit ==
    /\ completed = FALSE
    /\ published = FALSE
    /\ waitCount = 0
    /\ waitLock = Nobody
    /\ waiter = [w \in Waiters |-> "outside"]
    /\ late = {}
    /\ completer = [c \in Completers |-> "idle"]

\* The answers isCompleted() may give.
IsCompleted == IF published THEN {TRUE} ELSE {FALSE, completed}

-----------------------------------------------------------------------------
(* waitUntilCompleted().                                                   *)

EnterWait(w) ==
    /\ waiter[w] = "outside"
    /\ waitLock = Nobody
    /\ waitLock' = w
    /\ waitCount' = waitCount + 1
    /\ waiter' = [waiter EXCEPT ![w] = "test"]
    /\ UNCHANGED <<completed, published, late, completer>>

\* The flag is not set, the time not over: wait(1000) releases the lock.
Sleep(w) ==
    /\ waiter[w] = "test"
    /\ FALSE \in IsCompleted
    /\ w \notin late
    /\ waitLock' = Nobody
    /\ waiter' = [waiter EXCEPT ![w] = "asleep"]
    /\ UNCHANGED <<completed, published, waitCount, late, completer>>

\* Mutation of PollExpires: wait() without a timeout.
PollNeverExpires(w) == FALSE

\* The second is over, or the thread is interrupted and ignores it; after a second
\* any timeout of this program (ABORT_COMPLETION_TIMEOUT) is over.
PollExpires(w) ==
    /\ waiter[w] = "asleep"
    /\ waiter' = [waiter EXCEPT ![w] = "awake"]
    /\ \E timeIsOver \in BOOLEAN :
          late' = IF w \in TimedWaiters /\ timeIsOver THEN late \cup {w} ELSE late
    /\ UNCHANGED <<completed, published, waitCount, waitLock, completer>>

\* wait() takes the lock again before it returns.
Reacquire(w) ==
    /\ waiter[w] = "awake"
    /\ waitLock = Nobody
    /\ waitLock' = w
    /\ waiter' = [waiter EXCEPT ![w] = "test"]
    /\ UNCHANGED <<completed, published, waitCount, late, completer>>

\* The loop ends: the flag is seen, or the time of a timed wait is over (which the
\* lock may have delayed already before the first test).
Leave(w) ==
    /\ waiter[w] = "test"
    /\ TRUE \in IsCompleted \/ w \in TimedWaiters
    /\ waitLock' = Nobody
    /\ waitCount' = waitCount - 1
    /\ waiter' = [waiter EXCEPT ![w] = "returned"]
    /\ UNCHANGED <<completed, published, late, completer>>

-----------------------------------------------------------------------------
(* setCompleted(true).                                                     *)

SetCompleted(c) ==
    /\ completer[c] = "idle"
    /\ completed' = TRUE
    /\ completer' = [completer EXCEPT ![c] = "notify"]
    /\ UNCHANGED <<published, waitCount, waitLock, waiter, late>>

\* Mutation of NotifyCompleted: notify() instead of notifyAll().
NotifyCompletedOne(c) ==
    /\ completer[c] = "notify"
    /\ waitLock = Nobody
    /\ published' = TRUE
    /\ \/ \E w \in Waiters : waiter[w] = "asleep" /\ waiter' = [waiter EXCEPT ![w] = "awake"]
       \/ (\A w \in Waiters : waiter[w] # "asleep") /\ UNCHANGED waiter
    /\ completer' = [completer EXCEPT ![c] = "done"]
    /\ UNCHANGED <<completed, waitCount, waitLock, late>>

\* notifyCompleted(), which looks at waitCount first.
NotifyCompleted(c) ==
    /\ completer[c] = "notify"
    /\ waitLock = Nobody
    /\ published' = TRUE
    /\ waiter' = [w \in Waiters |->
                    IF waitCount > 0 /\ waiter[w] = "asleep" THEN "awake" ELSE waiter[w]]
    /\ completer' = [completer EXCEPT ![c] = "done"]
    /\ UNCHANGED <<completed, waitCount, waitLock, late>>

WaiterStep(w) == EnterWait(w) \/ Sleep(w) \/ PollExpires(w) \/ Reacquire(w) \/ Leave(w)

CompleterStep(c) == SetCompleted(c) \/ NotifyCompleted(c)

WaitNext == (\E w \in Waiters : WaiterStep(w)) \/ (\E c \in Completers : CompleterStep(c))

WaitSpec == WaitInit /\ [][WaitNext]_waitVars

\* A thread that holds the lock goes on, and one that wants it gets it in the end:
\* it is free for most of every second. The clock of a timed wait runs. The second
\* of a wait without a timeout is not relied on, and nobody must call setCompleted().
WaitFairness ==
    /\ \A w \in Waiters : WF_waitVars(Sleep(w) \/ Leave(w)) /\ SF_waitVars(Reacquire(w))
    /\ \A w \in TimedWaiters : SF_waitVars(PollExpires(w) /\ w \in late')
    /\ \A c \in Completers : SF_waitVars(NotifyCompleted(c))

FairWaitSpec == WaitSpec /\ WaitFairness

-----------------------------------------------------------------------------
(* Properties.                                                             *)

\* waitCount is the number of threads inside waitUntilCompleted(): notifyCompleted()
\* relies on it to know whether there is anybody to notify.
WaitCountExact == waitCount = Cardinality({w \in Waiters : waiter[w] \in Inside})

\* Once notifyCompleted() released the lock no thread sleeps in wait() any more,
\* although the flag was written without the lock: nobody needs the one second poll
\* to learn of the completion.
NoLostWakeup == published => \A w \in Waiters : waiter[w] # "asleep"

\* waitUntilCompleted() without a timeout returns only when the request is completed,
\* whatever wakes it up.
ForeverMeansCompleted ==
    \A w \in Waiters \ TimedWaiters : waiter[w] = "returned" => completed

\* A wait ends, with a timeout for any device and any proxy thread, and without one if
\* the request is completed.
WaitReturns ==
    /\ \A w \in TimedWaiters : waiter[w] \in Inside ~> waiter[w] = "returned"
    /\ \A w \in Waiters : waiter[w] \in Inside /\ published ~> waiter[w] = "returned"

\* The inductive invariant: the lock is held exactly by the thread at the loop's test,
\* the flag is set before anyone notifies, and nobody is counted twice.
MonitorInv ==
    /\ WaitTypeOK
    /\ WaitCountExact
    /\ NoLostWakeup
    /\ ForeverMeansCompleted
    /\ \A w \in Waiters : waiter[w] = "test" <=> waitLock = w
    /\ \A c \in Completers : completer[c] # "idle" => completed
    /\ published => completed
=============================================================================
