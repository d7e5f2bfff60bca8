--------------------------- MODULE MonitorProofs ---------------------------
(***************************************************************************)
(* The two places where threads wait for each other in a Java monitor,     *)
(* for any number of threads: waitUntilCompleted() of a LinuxRequest       *)
(* (RequestWait) and start() of a LinuxDeviceProxy (ProxyStart).           *)
(***************************************************************************)
EXTENDS ProxyStart, RequestWait, FiniteSetTheorems, TLAPS

-----------------------------------------------------------------------------
(* LinuxRequest.  waitCount is the size of a set of threads, so the steps  *)
(* that change it rest on the theorems about Cardinality.                  *)

Counted == {w \in Waiters : waiter[w] \in Inside}

\* The counted waiters are finitely many, so waitCount is a number, and it is above
\* zero while somebody sleeps.
LEMMA CountedFinite ==
    /\ IsFiniteSet(Counted)
    /\ Cardinality(Counted) \in Nat
    /\ \A w \in Counted : Cardinality(Counted) > 0
<1>1. IsFiniteSet(Counted)
    BY FS_Subset, WaitersAssumption DEF Counted
<1>2. Cardinality(Counted) \in Nat
    BY <1>1, FS_CardinalityType
<1>3. \A w \in Counted : Cardinality(Counted) # 0
    BY <1>1, FS_EmptySet
<1> QED BY <1>1, <1>2, <1>3

\* One more thread inside makes one more counted, and one less makes one less.
LEMMA CountEnter ==
    ASSUME NEW w \in Waiters, w \notin Counted, Counted' = Counted \cup {w}
    PROVE  Cardinality(Counted') = Cardinality(Counted) + 1
BY CountedFinite, FS_AddElement

LEMMA CountLeave ==
    ASSUME NEW w \in Counted, Counted' = Counted \ {w}
    PROVE  Cardinality(Counted') = Cardinality(Counted) - 1
BY CountedFinite, FS_RemoveElement

\* A step that moves no thread into or out of waitUntilCompleted() keeps the count.
LEMMA CountKept ==
    ASSUME MonitorInv, UNCHANGED waitCount, Counted' = Counted
    PROVE  WaitCountExact'
<1>1. WaitCountExact <=> waitCount = Cardinality(Counted)
    BY DEF WaitCountExact, Counted
<1>2. WaitCountExact' <=> waitCount' = Cardinality(Counted')
    BY DEF WaitCountExact, Counted
<1> QED BY <1>1, <1>2 DEF MonitorInv

LEMMA MonitorInvInit == WaitInit => MonitorInv
<1> SUFFICES ASSUME WaitInit PROVE MonitorInv
    OBVIOUS
<1>1. WaitTypeOK
    BY DEF WaitInit, WaitTypeOK
<1>2. {w \in Waiters : waiter[w] \in Inside} = {}
    BY DEF WaitInit, Inside
<1>3. WaitCountExact
    BY <1>2, FS_EmptySet DEF WaitInit, WaitCountExact
<1>4. \A w \in Waiters : waiter[w] = "test" <=> waitLock = w
    BY WaitersAssumption DEF WaitInit
<1> QED BY <1>1, <1>3, <1>4
        DEF WaitInit, MonitorInv, NoLostWakeup, ForeverMeansCompleted

\* Every step of a waiter or a completer keeps the invariant.
LEMMA MonitorInvStep == MonitorInv /\ [WaitNext]_waitVars => MonitorInv'
<1> SUFFICES ASSUME MonitorInv, [WaitNext]_waitVars PROVE MonitorInv'
    OBVIOUS
<1> USE WaitersAssumption
<1>1. ASSUME NEW w \in Waiters, EnterWait(w) PROVE MonitorInv'
    <2>1. w \notin Counted /\ Counted' = Counted \cup {w}
        BY <1>1 DEF EnterWait, Counted, Inside, MonitorInv, WaitTypeOK
    <2>2. waitCount = Cardinality(Counted) /\ waitCount' = waitCount + 1
        BY <1>1 DEF EnterWait, Counted, MonitorInv, WaitCountExact
    <2>3. waitCount' = Cardinality(Counted')
        BY <2>1, <2>2, CountEnter
    <2>4. WaitCountExact'
        BY <2>3 DEF WaitCountExact, Counted
    <2> QED BY <1>1, <2>4
            DEF EnterWait, MonitorInv, WaitTypeOK, Inside, NoLostWakeup, ForeverMeansCompleted
<1>2. ASSUME NEW w \in Waiters, Sleep(w) PROVE MonitorInv'
    <2>1. Counted' = Counted
        BY <1>2 DEF Sleep, Counted, Inside, MonitorInv, WaitTypeOK
    <2>2. WaitCountExact'
        BY <1>2, <2>1, CountKept DEF Sleep
    <2> QED BY <1>2, <2>2
            DEF Sleep, IsCompleted, MonitorInv, WaitTypeOK, Inside, NoLostWakeup, ForeverMeansCompleted
<1>3. ASSUME NEW w \in Waiters, PollExpires(w) PROVE MonitorInv'
    <2>1. Counted' = Counted
        BY <1>3 DEF PollExpires, Counted, Inside, MonitorInv, WaitTypeOK
    <2>2. WaitCountExact'
        BY <1>3, <2>1, CountKept DEF PollExpires
    <2> QED BY <1>3, <2>2
            DEF PollExpires, MonitorInv, WaitTypeOK, Inside, NoLostWakeup, ForeverMeansCompleted
<1>4. ASSUME NEW w \in Waiters, Reacquire(w) PROVE MonitorInv'
    <2>1. Counted' = Counted
        BY <1>4 DEF Reacquire, Counted, Inside, MonitorInv, WaitTypeOK
    <2>2. WaitCountExact'
        BY <1>4, <2>1, CountKept DEF Reacquire
    <2> QED BY <1>4, <2>2
            DEF Reacquire, MonitorInv, WaitTypeOK, Inside, NoLostWakeup, ForeverMeansCompleted
<1>5. ASSUME NEW w \in Waiters, Leave(w) PROVE MonitorInv'
    <2>1. w \in Counted /\ Counted' = Counted \ {w}
        BY <1>5 DEF Leave, Counted, Inside, MonitorInv, WaitTypeOK
    <2>2. waitCount = Cardinality(Counted) /\ waitCount' = waitCount - 1
        BY <1>5 DEF Leave, Counted, MonitorInv, WaitCountExact
    <2>3. waitCount' = Cardinality(Counted')
        BY <2>1, <2>2, CountLeave
    <2>4. WaitCountExact'
        BY <2>3 DEF WaitCountExact, Counted
    <2>5. waitCount' \in Nat
        BY <2>1, <2>2, CountedFinite
    <2>6. ForeverMeansCompleted'
        BY <1>5 DEF Leave, IsCompleted, MonitorInv, WaitTypeOK, ForeverMeansCompleted
    <2> QED BY <1>5, <2>4, <2>5, <2>6
            DEF Leave, MonitorInv, WaitTypeOK, Inside, NoLostWakeup
<1>6. ASSUME NEW c \in Completers, SetCompleted(c) PROVE MonitorInv'
    <2>1. Counted' = Counted
        BY <1>6 DEF SetCompleted, Counted
    <2>2. WaitCountExact'
        BY <1>6, <2>1, CountKept DEF SetCompleted
    <2> QED BY <1>6, <2>2
            DEF SetCompleted, MonitorInv, WaitTypeOK, Inside, NoLostWakeup, ForeverMeansCompleted
<1>7. ASSUME NEW c \in Completers, NotifyCompleted(c) PROVE MonitorInv'
    <2>1. Counted' = Counted
        BY <1>7 DEF NotifyCompleted, Counted, Inside, MonitorInv, WaitTypeOK
    <2>2. WaitCountExact'
        BY <1>7, <2>1, CountKept DEF NotifyCompleted
    <2>3. \A w \in Waiters : waiter[w] = "asleep" => waitCount > 0
        BY CountedFinite DEF Counted, Inside, MonitorInv, WaitCountExact
    <2>4. NoLostWakeup'
        BY <1>7, <2>3 DEF NotifyCompleted, NoLostWakeup, MonitorInv, WaitTypeOK
    <2> QED BY <1>7, <2>2, <2>4
            DEF NotifyCompleted, MonitorInv, WaitTypeOK, Inside, ForeverMeansCompleted
<1>8. CASE UNCHANGED waitVars
    <2>1. Counted' = Counted
        BY <1>8 DEF waitVars, Counted
    <2>2. WaitCountExact'
        BY <1>8, <2>1, CountKept DEF waitVars
    <2> QED BY <1>8, <2>2
            DEF waitVars, MonitorInv, WaitTypeOK, NoLostWakeup, ForeverMeansCompleted
<1> QED BY <1>1, <1>2, <1>3, <1>4, <1>5, <1>6, <1>7, <1>8
        DEF WaitNext, WaiterStep, CompleterStep

\* The monitor of LinuxRequest keeps its invariant, for any number of threads.
THEOREM MonitorInvCorrect == WaitSpec => []MonitorInv
<1> QED BY MonitorInvInit, MonitorInvStep, PTL DEF WaitSpec

\* LinuxRequest.notifyCompleted() leaves nobody asleep in waitUntilCompleted().
THEOREM NoLostWakeupCorrect == WaitSpec => []NoLostWakeup
<1>1. MonitorInv => NoLostWakeup
    BY DEF MonitorInv
<1> QED BY <1>1, MonitorInvCorrect, PTL

\* LinuxRequest.waitCount counts the threads inside waitUntilCompleted().
THEOREM WaitCountExactCorrect == WaitSpec => []WaitCountExact
<1>1. MonitorInv => WaitCountExact
    BY DEF MonitorInv
<1> QED BY <1>1, MonitorInvCorrect, PTL

\* waitUntilCompleted() without a timeout returns only for a completed request.
THEOREM ForeverMeansCompletedCorrect == WaitSpec => []ForeverMeansCompleted
<1>1. MonitorInv => ForeverMeansCompleted
    BY DEF MonitorInv
<1> QED BY <1>1, MonitorInvCorrect, PTL

-----------------------------------------------------------------------------
(* LinuxDeviceProxy.  The invariant says who knows of a native thread at   *)
(* each point of start(), as long as nobody woke up early.                 *)

\* The invariant holds at the start.
LEMMA HandOverInit == Init => TypeOK /\ HandOver
BY ThreadsAssumption DEF Init, TypeOK, HandOver, IsRunning, NativeStates, StartErrors

\* Every step keeps the types.
LEMMA TypeStep == TypeOK /\ [Next]_vars => TypeOK'
<1> SUFFICES ASSUME TypeOK, [Next]_vars PROVE TypeOK'
  OBVIOUS
<1> USE ThreadsAssumption DEF TypeOK, NativeStates, Alive, StartErrors
<1>1. ASSUME NEW s \in Starters, GetLinuxDeviceProxy(s) PROVE TypeOK'
  BY <1>1 DEF GetLinuxDeviceProxy
<1>2. ASSUME NEW s \in Starters, StartThread(s) PROVE TypeOK'
  BY <1>2 DEF StartThread
<1>3. ASSUME NEW s \in Starters, WakeEarly(s) PROVE TypeOK'
  BY <1>3 DEF WakeEarly
<1>4. ASSUME NEW s \in Starters, StartReturns(s) PROVE TypeOK'
  BY <1>4 DEF StartReturns
<1>5. ASSUME NEW n \in NativeThreads, OpenDevice(n) PROVE TypeOK'
  BY <1>5 DEF OpenDevice
<1>6. ASSUME NEW n \in NativeThreads, StartCompleted(n) PROVE TypeOK'
  BY <1>6 DEF StartCompleted
<1>7. ASSUME NEW n \in NativeThreads, LeaveLoop(n) PROVE TypeOK'
  BY <1>7 DEF LeaveLoop
<1>8. ASSUME NEW n \in NativeThreads, ThreadEnds(n) PROVE TypeOK'
  BY <1>8 DEF ThreadEnds
<1>9. CASE UNCHANGED vars
  BY <1>9 DEF vars
<1> QED BY <1>1, <1>2, <1>3, <1>4, <1>5, <1>6, <1>7, <1>8, <1>9
        DEF Next, StarterStep, NativeStep

\* Every step keeps the hand-over of the native thread in order.
LEMMA HandOverStep == TypeOK /\ HandOver /\ [Next]_vars => HandOver'
<1> SUFFICES ASSUME TypeOK, HandOver, [Next]_vars, interrupted' = {} PROVE HandOver'
  BY DEF HandOver
<1>0. interrupted = {}
  BY DEF Next, StarterStep, NativeStep, GetLinuxDeviceProxy, StartThread, WakeEarly, StartReturns,
         OpenDevice, StartCompleted, LeaveLoop, ThreadEnds, vars
<1> USE ThreadsAssumption, <1>0 DEF TypeOK, HandOver, IsRunning, Alive, NativeStates
<1>1. ASSUME NEW s \in Starters, GetLinuxDeviceProxy(s) PROVE HandOver'
  BY <1>1 DEF GetLinuxDeviceProxy
<1>2. ASSUME NEW s \in Starters, StartThread(s) PROVE HandOver'
  BY <1>2 DEF StartThread
<1>3. ASSUME NEW s \in Starters, WakeEarly(s) PROVE HandOver'
  BY <1>3 DEF WakeEarly
<1>4. ASSUME NEW s \in Starters, StartReturns(s) PROVE HandOver'
  BY <1>4 DEF StartReturns
<1>5. ASSUME NEW n \in NativeThreads, OpenDevice(n) PROVE HandOver'
  BY <1>5 DEF OpenDevice
<1>6. ASSUME NEW n \in NativeThreads, StartCompleted(n) PROVE HandOver'
  BY <1>6 DEF StartCompleted
<1>7. ASSUME NEW n \in NativeThreads, LeaveLoop(n) PROVE HandOver'
  BY <1>7 DEF LeaveLoop
<1>8. ASSUME NEW n \in NativeThreads, ThreadEnds(n) PROVE HandOver'
  BY <1>8 DEF ThreadEnds
<1>9. CASE UNCHANGED vars
  BY <1>9 DEF vars
<1> QED BY <1>1, <1>2, <1>3, <1>4, <1>5, <1>6, <1>7, <1>8, <1>9
        DEF Next, StarterStep, NativeStep

\* The thread of a start() is handed over properly in every state.
THEOREM HandOverCorrect == Spec => [](TypeOK /\ HandOver)
<1> QED BY HandOverInit, TypeStep, HandOverStep, PTL DEF Spec

\* One native thread serves the device, however many threads call start().
THEOREM OneProxyThreadCorrect == Spec => []OneProxyThread
<1>1. TypeOK /\ HandOver => OneProxyThread
  <2> SUFFICES ASSUME TypeOK, HandOver, interrupted = {},
                      NEW m \in Serving, NEW n \in Serving
               PROVE  m = n
    BY DEF OneProxyThread
  <2> DEFINE Starting(x) == \E s \in Starters : monitor = s /\ mine[s] = x
  <2>1. ASSUME NEW x \in Serving PROVE Starting(x) \/ (x = thread /\ IsRunning)
    <3>1. CASE native[x] = "running"
      BY <3>1, ThreadsAssumption DEF Serving, TypeOK, HandOver, IsRunning, Alive
    <3>2. CASE native[x] \in {"opening", "opened"}
      BY <3>2 DEF Serving, TypeOK, HandOver
    <3> QED BY <3>1, <3>2 DEF Serving
  <2>2. IsRunning => monitor = None
    BY DEF HandOver
  <2> QED BY <2>1, <2>2, ThreadsAssumption
<1> QED BY <1>1, HandOverCorrect, PTL

\* No native thread serves the device without isRunning() or a start() knowing it.
THEOREM NoStrayThreadCorrect == Spec => []NoStrayThread
<1>1. TypeOK /\ HandOver => NoStrayThread
  BY DEF NoStrayThread, Serving, TypeOK, HandOver
<1> QED BY <1>1, HandOverCorrect, PTL

\* What start() tells its caller is what happened to the thread it started.
THEOREM StartTellsTruthCorrect == Spec => StartTellsTruth
<1> DEFINE Truth == \A s \in Starters :
              interrupted = {} /\ pc[s] = "awake" /\ pc'[s] = "idle" =>
                (thread' = mine[s] <=> mine[s] \in openedIt)
<1>1. TypeOK /\ HandOver /\ [Next]_vars => [Truth]_vars
  <2> SUFFICES ASSUME TypeOK, HandOver, Next,
                      NEW s \in Starters, interrupted = {}, pc[s] = "awake", pc'[s] = "idle"
               PROVE  thread' = mine[s] <=> mine[s] \in openedIt
    OBVIOUS
  <2>1. StartReturns(s)
    BY DEF Next, StarterStep, NativeStep, GetLinuxDeviceProxy, StartThread, WakeEarly, StartReturns,
           OpenDevice, StartCompleted, LeaveLoop, ThreadEnds, TypeOK
  <2> QED BY <2>1 DEF StartReturns, HandOver
<1> QED BY <1>1, HandOverCorrect, PTL DEF Spec, StartTellsTruth
=============================================================================
