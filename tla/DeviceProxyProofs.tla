------------------------- MODULE DeviceProxyProofs -------------------------
(***************************************************************************)
(* Proofs about DeviceProxy, for any number of requests, pipes, addresses  *)
(* and aborting threads.                                                   *)
(***************************************************************************)
EXTENDS DeviceProxyInv, ListTheorems

-----------------------------------------------------------------------------
(* Type correctness.                                                       *)

\* The program starts in a state of the declared types.
LEMMA TypeInit == Init => TypeOK
<1> SUFFICES ASSUME Init PROVE TypeOK
  OBVIOUS
<1> USE NoneAssumption, RequestsAssumption, ThreadsAssumption
<1>1. <<>> \in Seq(Requests)
  BY EmptySeq
<1> QED BY <1>1 DEF Init, UsbfsInit, TypeOK, UsbfsTypeOK, UrbStates, InKernelStates, Finished,
           CallerStates, AbortSteps, ProxySteps, CompletionSteps, HandSteps, Threads

\* A step of a submitting thread keeps the types.
LEMMA TypeSubmitter ==
    ASSUME TypeOK, NEW r \in Requests, SubmitterStep(r)
    PROVE  TypeOK'
<1> USE NoneAssumption, RequestsAssumption, ThreadsAssumption
<1> USE DEF TypeOK, UsbfsTypeOK, kernelVars, lists, requestVars, threadVars, abortVars, history
<1>1. CASE GetLinuxDeviceProxy(r)
  BY <1>1 DEF GetLinuxDeviceProxy, PcWithProxy, ProxyRunning, Threads, CallerStates, ProxySteps,
              HandSteps, CompletionSteps
<1>2. CASE RejectSubmission(r)
  BY <1>2 DEF RejectSubmission, CallerStates
<1>3. CASE Submit(r)
  <2>1. Append(readyList, r) \in Seq(Requests)
    BY AppendElements
  <2> QED BY <1>3, <2>1 DEF Submit, CallerStates
<1>4. CASE AddInProgress(r)
  <2>1. \A p \in Pipes : Append(inProgressList[p], r) \in Seq(Requests)
    BY AppendElements
  <2> QED BY <1>4, <2>1 DEF AddInProgress, CallerStates
<1>5. CASE WaitUntilCompleted(r)
  BY <1>5 DEF WaitUntilCompleted, CallerStates
<1> QED BY <1>1, <1>2, <1>3, <1>4, <1>5 DEF SubmitterStep

\* A step of setCompleted(true) keeps the types.
LEMMA TypeCompletion ==
    ASSUME TypeOK, NEW t \in Threads, CompletionStep(t)
    PROVE  TypeOK'
<1> USE NoneAssumption, RequestsAssumption, ThreadsAssumption
<1> USE DEF TypeOK, UsbfsTypeOK, kernelVars, lists, requestVars, threadVars, abortVars, history,
            Goto, Threads, CompletionSteps, HandSteps
<1>1. CASE CompleteUsbIrp(t)
  BY <1>1 DEF CompleteUsbIrp, IrpError, ProxySteps, AbortSteps
<1>2. CASE SetCompleted(t)
  BY <1>2 DEF SetCompleted, ProxySteps, AbortSteps
<1>3. CASE ExecuteCompletion(t)
  <2>1. \A p \in Pipes : RemoveFirst(inProgressList[p], cur[t]) \in Seq(Requests)
    BY RemoveFirstElements
  <2> QED BY <1>3, <2>1 DEF ExecuteCompletion, ProxySteps, AbortSteps
<1> QED BY <1>1, <1>2, <1>3 DEF CompletionStep

\* A step of abortAllSubmissions() keeps the types.
LEMMA TypeAbort ==
    ASSUME TypeOK, NEW t \in Aborters,
           (\E p \in Pipes : AbortAllSubmissions(t, p)) \/ AbortStep(t)
    PROVE  TypeOK'
<1> USE NoneAssumption, RequestsAssumption, ThreadsAssumption
<1>0. t \in Threads
  BY DEF Threads
<1>a. /\ toCancel[t] # <<>> => /\ Head(toCancel[t]) \in Requests
                               /\ Tail(toCancel[t]) \in Seq(Requests)
      /\ toWait[t] # <<>> => /\ Head(toWait[t]) \in Requests
                             /\ Tail(toWait[t]) \in Seq(Requests)
  BY TailElements DEF TypeOK
<1> USE DEF TypeOK, UsbfsTypeOK, kernelVars, lists, requestVars, threadVars, abortVars, history,
            Goto, StartCompletion, Threads, CompletionSteps, HandSteps, AbortSteps
<1>1. ASSUME NEW p \in Pipes, AbortAllSubmissions(t, p)
      PROVE  TypeOK'
  <2>1. ToSet(inProgressList[p]) \subseteq Requests /\ <<>> \in Seq(Requests)
    BY ToSetElements, EmptySeq
  <2> QED BY <1>1, <2>1 DEF AbortAllSubmissions
<1>2. CASE CancelNext(t)
  BY <1>a, <1>2 DEF CancelNext, PcWithProxy, ProxyRunning, ProxySteps
<1>3. CASE CancelSkipped(t)
  BY <1>a, <1>3 DEF CancelSkipped
<1>4. CASE CancelReady(t)
  <2>1. RemoveFirst(readyList, cur[t]) \in Seq(Requests)
    BY RemoveFirstElements
  <2> QED BY <1>4, <2>1 DEF CancelReady, Errors
<1>5. CASE CancelNotReady(t)
  BY <1>5 DEF CancelNotReady
<1>6. CASE CancelAdd(t)
  <2>1. cur[t] \in Requests
    BY <1>6, <1>0 DEF CancelAdd
  <2>2. Append(cancelList, cur[t]) \in Seq(Requests)
    BY <2>1, AppendElements
  <2> QED BY <1>6, <2>2 DEF CancelAdd
<1>7. CASE CancelsDone(t)
  BY <1>7 DEF CancelsDone
<1>8. CASE AbortedCompleted(t)
  BY <1>a, <1>8 DEF AbortedCompleted
<1>9. CASE AbortTimeout(t)
  BY <1>a, <1>9 DEF AbortTimeout
<1>10. CASE Expire(t)
  BY <1>10 DEF Expire, Errors
<1>11. CASE AbortReturn(t)
  BY <1>11 DEF AbortReturn
<1>12. CASE CompletionStep(t)
  BY <1>12, <1>0, TypeCompletion
<1> QED BY <1>1, <1>2, <1>3, <1>4, <1>5, <1>6, <1>7, <1>8, <1>9, <1>10, <1>11, <1>12
        DEF AbortStep

\* A step of the proxy thread keeps the types.
LEMMA TypeProxy ==
    ASSUME TypeOK, ProxyStep
    PROVE  TypeOK'
<1> USE NoneAssumption, RequestsAssumption, ThreadsAssumption
<1>0. Proxy \in Threads
  BY DEF Threads
<1> USE DEF TypeOK, UsbfsTypeOK, kernelVars, lists, requestVars, threadVars, abortVars, history,
            Goto, StartCompletion, Threads, CompletionSteps, HandSteps, ProxySteps
<1>1. CASE PollSeen
  BY <1>1 DEF PollSeen
<1>2. CASE PollMissed
  BY <1>2 DEF PollMissed
<1>3. CASE GetReadyRequest
  <2>1. readyList # <<>> => Head(readyList) \in Requests /\ Tail(readyList) \in Seq(Requests)
    BY TailElements
  <2>2. /\ UNCHANGED <<kernelVars, cancelList, readyLock, inProgressList, requestVars, caller,
                       ret, abortVars, history>>
        /\ \/ readyList = <<>> /\ Goto(Proxy, "cancel", None) /\ readyList' = readyList
           \/ /\ readyList # <<>> /\ Goto(Proxy, "submit", Head(readyList))
              /\ readyList' = Tail(readyList)
    BY <1>3, Zenon DEF GetReadyRequest
  <2>3. readyList' \in Seq(Requests)
    BY <2>1, <2>2
  <2>4. CASE Goto(Proxy, "cancel", None)
    BY <2>2, <2>3, <2>4
  <2>5. CASE readyList # <<>> /\ Goto(Proxy, "submit", Head(readyList))
    BY <2>1, <2>2, <2>3, <2>5
  <2> QED BY <2>2, <2>4, <2>5
<1>4. CASE SubmitRequestUrb
  BY <1>4 DEF SubmitRequestUrb, SubmitUrb, UrbStates, InKernelStates
<1>5. CASE SubmitRequestIoctl
  BY <1>5 DEF SubmitRequestIoctl
<1>6. CASE SubmitRequestFails
  BY <1>6 DEF SubmitRequestFails, Errors
<1>7. CASE CancelRequest
  <2>1. cancelList # <<>> => Tail(cancelList) \in Seq(Requests)
    BY TailElements
  <2>2. /\ Goto(Proxy, "reap", None)
        /\ UNCHANGED <<readyList, readyLock, inProgressList, requestVars, caller, ret,
                       abortVars, history>>
        /\ \/ UNCHANGED <<kernelVars, cancelList>>
           \/ /\ DiscardUrb(urbAddress[Head(cancelList)])
              /\ cancelList # <<>> /\ cancelList' = Tail(cancelList)
    BY <1>7, Zenon DEF CancelRequest
  <2>3. cancelList' \in Seq(Requests)
    BY <2>1, <2>2
  <2>4. UsbfsTypeOK'
    <3>1. CASE UNCHANGED <<kernelVars, cancelList>>
      BY <3>1
    <3>2. CASE DiscardUrb(urbAddress[Head(cancelList)])
      BY <3>2 DEF DiscardUrb, UrbStates, InKernelStates, Finished
    <3> QED BY <2>2, <3>1, <3>2
  <2> HIDE DEF UsbfsTypeOK
  <2> QED BY <2>2, <2>3, <2>4
<1>8. ASSUME NEW a \in Addrs, CompleteRequest(a)
      PROVE  TypeOK'
  <2>1. urbOwner[a] \in Requests
    BY <1>8 DEF CompleteRequest, ReapUrb, InKernelStates
  <2>2. CompletionError(urbOwner[a]) \in Errors \cup {"none"}
    BY <2>1 DEF CompletionError, Errors
  <2> HIDE DEF CompletionError
  <2> QED BY <1>8, <2>1, <2>2 DEF CompleteRequest, ReapUrb, UrbStates, InKernelStates, Finished
<1>9. CASE ReapNothing
  BY <1>9 DEF ReapNothing
<1>10. CASE ReapNoDevice
  BY <1>10 DEF ReapNoDevice
<1>11. CASE ProxyExit
  BY <1>11 DEF ProxyExit, CloseFd, UrbStates, InKernelStates
<1>12. CASE CompletionStep(Proxy)
  BY <1>12, <1>0, TypeCompletion
<1> QED BY <1>1, <1>2, <1>3, <1>4, <1>5, <1>6, <1>7, <1>8, <1>9, <1>10, <1>11, <1>12
        DEF ProxyStep, SubmitRequest

\* A step of the device or the bus keeps the types.
LEMMA TypeDevice ==
    ASSUME TypeOK, Device
    PROVE  TypeOK'
<1>1. UsbfsTypeOK'
  <2>1. ASSUME NEW a \in Addrs, FinishUrb(a) PROVE UsbfsTypeOK'
    BY <2>1 DEF TypeOK, UsbfsTypeOK, FinishUrb, UrbStates, InKernelStates, Finished
  <2>2. CASE Unplug
    BY <2>2 DEF TypeOK, UsbfsTypeOK, Unplug, UrbStates, InKernelStates, Finished
  <2> QED BY <2>1, <2>2 DEF Device
<1>2. UNCHANGED <<lists, requestVars, caller, threadVars, abortVars, history>>
  BY DEF Device
<1> QED BY <1>1, <1>2 DEF TypeOK, lists, requestVars, threadVars, abortVars, history

\* Every variable keeps its type, and a thread that works on a request has one.
THEOREM TypeCorrect == Spec => []TypeOK
<1>1. TypeOK /\ [Next]_vars => TypeOK'
  <2> SUFFICES ASSUME TypeOK, [Next]_vars PROVE TypeOK'
    OBVIOUS
  <2>1. CASE UNCHANGED vars
    BY <2>1 DEF vars, TypeOK, UsbfsTypeOK, kernelVars, lists, requestVars, threadVars, abortVars,
                history
  <2>2. CASE Next
    BY <2>2, TypeSubmitter, TypeAbort, TypeProxy, TypeDevice DEF Next
  <2> QED BY <2>1, <2>2
<1> QED BY <1>1, TypeInit, PTL DEF Spec

-----------------------------------------------------------------------------
(* Fresh requests.                                                       *)

\* A submitter makes its request known to others only when it leaves its fresh states.
LEMMA FreshSubmitter ==
    ASSUME TypeOK, FreshUnknown, NEW r \in Requests, SubmitterStep(r)
    PROVE  FreshUnknown'
<1> USE NoneAssumption, RequestsAssumption, ThreadsAssumption
<1> USE DEF TypeOK, UsbfsTypeOK, FreshUnknown, Fresh, kernelVars, lists, requestVars, threadVars, abortVars,
            history, CallerStates
<1>1. CASE GetLinuxDeviceProxy(r)
  BY <1>1 DEF GetLinuxDeviceProxy, PcWithProxy, ProxyRunning, Threads, HandSteps, CompletionSteps
<1>2. CASE RejectSubmission(r)
  BY <1>2 DEF RejectSubmission
<1>3. CASE Submit(r)
  <2>1. ToSet(Append(readyList, r)) = ToSet(readyList) \cup {r}
    BY AppendElements
  <2> QED BY <1>3, <2>1 DEF Submit
<1>4. CASE AddInProgress(r)
  <2>1. \A p \in Pipes : ToSet(Append(inProgressList[p], r)) = ToSet(inProgressList[p]) \cup {r}
    BY AppendElements
  <2> QED BY <1>4, <2>1 DEF AddInProgress
<1>5. CASE WaitUntilCompleted(r)
  BY <1>5 DEF WaitUntilCompleted
<1> QED BY <1>1, <1>2, <1>3, <1>4, <1>5 DEF SubmitterStep

\* setCompleted(true) is called on requests that were submitted.
LEMMA FreshCompletion ==
    ASSUME TypeOK, FreshUnknown, NEW t \in Threads, CompletionStep(t)
    PROVE  FreshUnknown'
<1> USE NoneAssumption, RequestsAssumption, ThreadsAssumption
<1> USE DEF TypeOK, UsbfsTypeOK, FreshUnknown, Fresh, kernelVars, lists, requestVars, threadVars, abortVars,
            history, Goto, HandSteps, CompletionSteps
<1>1. CASE CompleteUsbIrp(t)
  BY <1>1 DEF CompleteUsbIrp
<1>2. CASE SetCompleted(t)
  BY <1>2 DEF SetCompleted
<1>3. CASE ExecuteCompletion(t)
  <2>1. \A p \in Pipes : ToSet(RemoveFirst(inProgressList[p], cur[t])) \subseteq ToSet(inProgressList[p])
    BY RemoveFirstElements
  <2> QED BY <1>3, <2>1 DEF ExecuteCompletion, Threads
<1> QED BY <1>1, <1>2, <1>3 DEF CompletionStep

\* An abort only takes requests that are on the list of a pipe.
LEMMA FreshAbort ==
    ASSUME TypeOK, FreshUnknown, NEW t \in Aborters,
           (\E p \in Pipes : AbortAllSubmissions(t, p)) \/ AbortStep(t)
    PROVE  FreshUnknown'
<1> USE NoneAssumption, RequestsAssumption, ThreadsAssumption
<1>0. t \in Threads
  BY DEF Threads
<1>a. /\ toCancel[t] # <<>> => /\ Head(toCancel[t]) \in ToSet(toCancel[t])
                               /\ ToSet(Tail(toCancel[t])) \subseteq ToSet(toCancel[t])
      /\ toWait[t] # <<>> => /\ Head(toWait[t]) \in ToSet(toWait[t])
                             /\ ToSet(Tail(toWait[t])) \subseteq ToSet(toWait[t])
  BY TailElements DEF TypeOK
<1> USE DEF TypeOK, UsbfsTypeOK, FreshUnknown, Fresh, kernelVars, lists, requestVars, threadVars, abortVars,
            history, Goto, StartCompletion, Threads, HandSteps, CompletionSteps
<1>1. ASSUME NEW p \in Pipes, AbortAllSubmissions(t, p)
      PROVE  FreshUnknown'
  <2>1. ToSet(<<>>) = {}
    BY ToSetElements, EmptySeq
  <2> QED BY <1>1, <2>1 DEF AbortAllSubmissions
<1>2. CASE CancelNext(t)
  <2>1. \A u \in Aborters : ToSet(toCancel'[u]) \subseteq ToSet(toCancel[u])
    BY <1>a, <1>2 DEF CancelNext
  <2>2. caller[Head(toCancel[t])] \notin {"idle", "checked", "rejected"}
    BY <1>a, <1>2, TailElements DEF CancelNext
  <2>3. \A u \in Threads : pc'[u] \in HandSteps =>
            \/ cur'[u] = Head(toCancel[t])
            \/ pc[u] \in HandSteps /\ cur'[u] = cur[u]
    BY <1>2 DEF CancelNext, PcWithProxy, ProxyRunning
  <2> QED BY <1>2, <2>1, <2>2, <2>3 DEF CancelNext
<1>3. CASE CancelSkipped(t)
  <2>1. \A u \in Aborters : ToSet(toCancel'[u]) \subseteq ToSet(toCancel[u])
    BY <1>a, <1>3 DEF CancelSkipped
  <2> QED BY <1>3, <2>1 DEF CancelSkipped
<1>4. CASE CancelReady(t)
  <2>1. ToSet(RemoveFirst(readyList, cur[t])) \subseteq ToSet(readyList)
    BY RemoveFirstElements
  <2> QED BY <1>4, <2>1 DEF CancelReady
<1>5. CASE CancelNotReady(t)
  BY <1>5 DEF CancelNotReady
<1>6. CASE CancelAdd(t)
  BY <1>6 DEF CancelAdd
<1>7. CASE CancelsDone(t)
  BY <1>7 DEF CancelsDone
<1>8. CASE AbortedCompleted(t)
  BY <1>a, <1>8 DEF AbortedCompleted
<1>9. CASE AbortTimeout(t)
  BY <1>a, <1>9 DEF AbortTimeout
<1>10. CASE Expire(t)
  BY <1>10 DEF Expire
<1>11. CASE AbortReturn(t)
  BY <1>11 DEF AbortReturn
<1>12. CASE CompletionStep(t)
  BY <1>12, <1>0, FreshCompletion
<1> QED BY <1>1, <1>2, <1>3, <1>4, <1>5, <1>6, <1>7, <1>8, <1>9, <1>10, <1>11, <1>12
        DEF AbortStep

\* The proxy thread only takes requests from readyList, and the kernel from it.
LEMMA FreshProxy ==
    ASSUME TypeOK, FreshUnknown, ProxyStep
    PROVE  FreshUnknown'
<1> USE NoneAssumption, RequestsAssumption, ThreadsAssumption
<1>0. Proxy \in Threads
  BY DEF Threads
<1> USE DEF TypeOK, UsbfsTypeOK, FreshUnknown, Fresh, kernelVars, lists, requestVars, threadVars, abortVars,
            history, Goto, StartCompletion, Threads, HandSteps, CompletionSteps
<1>1. CASE PollSeen
  BY <1>1 DEF PollSeen
<1>2. CASE PollMissed
  BY <1>2 DEF PollMissed
<1>3. CASE GetReadyRequest
  <2>1. readyList # <<>> => /\ Head(readyList) \in ToSet(readyList)
                            /\ ToSet(Tail(readyList)) \subseteq ToSet(readyList)
    BY TailElements
  <2>2. /\ UNCHANGED <<kernelVars, cancelList, readyLock, inProgressList, requestVars, caller,
                       ret, abortVars, history>>
        /\ \/ readyList = <<>> /\ Goto(Proxy, "cancel", None) /\ readyList' = readyList
           \/ /\ readyList # <<>> /\ Goto(Proxy, "submit", Head(readyList))
              /\ readyList' = Tail(readyList)
    BY <1>3, Zenon DEF GetReadyRequest
  <2>3. CASE readyList = <<>> /\ Goto(Proxy, "cancel", None) /\ readyList' = readyList
    BY <2>2, <2>3
  <2>4. CASE readyList # <<>> /\ Goto(Proxy, "submit", Head(readyList)) /\ readyList' = Tail(readyList)
    BY <2>1, <2>2, <2>4
  <2> QED BY <2>2, <2>3, <2>4
<1>4. CASE SubmitRequestUrb
  BY <1>4 DEF SubmitRequestUrb, SubmitUrb
<1>5. CASE SubmitRequestIoctl
  BY <1>5 DEF SubmitRequestIoctl
<1>6. CASE SubmitRequestFails
  BY <1>6 DEF SubmitRequestFails
<1>7. CASE CancelRequest
  <2>1. /\ Goto(Proxy, "reap", None)
        /\ UNCHANGED <<readyList, readyLock, inProgressList, requestVars, caller, ret,
                       abortVars, history>>
        /\ \/ UNCHANGED <<kernelVars, cancelList>>
           \/ DiscardUrb(urbAddress[Head(cancelList)])
    BY <1>7, Zenon DEF CancelRequest
  <2>2. CASE UNCHANGED <<kernelVars, cancelList>>
    BY <2>1, <2>2
  <2>3. CASE DiscardUrb(urbAddress[Head(cancelList)])
    BY <2>1, <2>3 DEF DiscardUrb, InKernelStates, Finished
  <2> QED BY <2>1, <2>2, <2>3
<1>8. ASSUME NEW a \in Addrs, CompleteRequest(a)
      PROVE  FreshUnknown'
  BY <1>8 DEF CompleteRequest, ReapUrb, InKernelStates, Finished
<1>9. CASE ReapNothing
  BY <1>9 DEF ReapNothing
<1>10. CASE ReapNoDevice
  BY <1>10 DEF ReapNoDevice
<1>11. CASE ProxyExit
  BY <1>11 DEF ProxyExit, CloseFd, InKernelStates, Finished
<1>12. CASE CompletionStep(Proxy)
  BY <1>12, <1>0, FreshCompletion
<1> QED BY <1>1, <1>2, <1>3, <1>4, <1>5, <1>6, <1>7, <1>8, <1>9, <1>10, <1>11, <1>12
        DEF ProxyStep, SubmitRequest

\* The device knows no request but through its URBs.
LEMMA FreshDevice ==
    ASSUME TypeOK, FreshUnknown, Device
    PROVE  FreshUnknown'
<1> USE DEF TypeOK, UsbfsTypeOK, FreshUnknown, Fresh, lists, requestVars, threadVars, abortVars,
            history
<1>1. ASSUME NEW a \in Addrs, FinishUrb(a) PROVE FreshUnknown'
  BY <1>1 DEF Device, FinishUrb, InKernelStates, Finished
<1>2. CASE Unplug
  BY <1>2 DEF Device, Unplug, InKernelStates, Finished
<1> QED BY <1>1, <1>2 DEF Device

-----------------------------------------------------------------------------
(* Requests and their URBs.                                              *)

UrbInv == ReadyHasNoUrb /\ UrbAccounting /\ ClosedForGood

\* A submitted request has no URB and is in readyList once.
LEMMA UrbSubmitter ==
    ASSUME TypeOK, FreshUnknown, UrbInv, NEW r \in Requests, SubmitterStep(r)
    PROVE  UrbInv'
<1> USE NoneAssumption, RequestsAssumption, ThreadsAssumption
<1> USE DEF TypeOK, UsbfsTypeOK, UrbInv, ReadyHasNoUrb, UrbAccounting, ClosedForGood,
            kernelVars, lists, requestVars, threadVars, abortVars, history
<1>1. CASE GetLinuxDeviceProxy(r)
  BY <1>1 DEF GetLinuxDeviceProxy, PcWithProxy, ProxyRunning, ProxyAvailable, Threads
<1>2. CASE RejectSubmission(r)
  BY <1>2 DEF RejectSubmission
<1>3. CASE Submit(r)
  <2>1. r \notin ToSet(readyList) /\ urbAddress[r] = None /\ ~(pc[Proxy] = "submit" /\ cur[Proxy] = r)
    BY <1>3 DEF FreshUnknown, Fresh, Submit, Threads, HandSteps
  <2>2. ToSet(Append(readyList, r)) = ToSet(readyList) \cup {r} /\ IsInjective(Append(readyList, r))
    BY <2>1, AppendElements
  <2> QED BY <1>3, <2>1, <2>2 DEF Submit
<1>4. CASE AddInProgress(r)
  BY <1>4 DEF AddInProgress
<1>5. CASE WaitUntilCompleted(r)
  BY <1>5 DEF WaitUntilCompleted
<1> QED BY <1>1, <1>2, <1>3, <1>4, <1>5 DEF SubmitterStep

\* setCompleted(true) leaves the URBs alone.
LEMMA UrbCompletion ==
    ASSUME TypeOK, UrbInv, NEW t \in Threads, CompletionStep(t)
    PROVE  UrbInv'
<1> USE NoneAssumption, RequestsAssumption, ThreadsAssumption
<1> USE DEF TypeOK, UsbfsTypeOK, UrbInv, ReadyHasNoUrb, UrbAccounting, ClosedForGood,
            kernelVars, lists, requestVars, threadVars, abortVars, history, Goto, Threads, CompletionSteps
<1>1. CASE CompleteUsbIrp(t)
  BY <1>1 DEF CompleteUsbIrp
<1>2. CASE SetCompleted(t)
  BY <1>2 DEF SetCompleted
<1>3. CASE ExecuteCompletion(t)
  BY <1>3 DEF ExecuteCompletion
<1> QED BY <1>1, <1>2, <1>3 DEF CompletionStep

\* An abort only takes requests out of readyList.
LEMMA UrbAbort ==
    ASSUME TypeOK, UrbInv, NEW t \in Aborters,
           (\E p \in Pipes : AbortAllSubmissions(t, p)) \/ AbortStep(t)
    PROVE  UrbInv'
<1> USE NoneAssumption, RequestsAssumption, ThreadsAssumption
<1>0. t \in Threads
  BY DEF Threads
<1> USE DEF TypeOK, UsbfsTypeOK, UrbInv, ReadyHasNoUrb, UrbAccounting, ClosedForGood,
            kernelVars, lists, requestVars, threadVars, abortVars, history, Goto, StartCompletion, Threads
<1>1. ASSUME NEW p \in Pipes, AbortAllSubmissions(t, p)
      PROVE  UrbInv'
  BY <1>1 DEF AbortAllSubmissions
<1>2. CASE CancelNext(t)
  BY <1>2 DEF CancelNext, PcWithProxy, ProxyRunning, ProxyAvailable
<1>3. CASE CancelSkipped(t)
  BY <1>3 DEF CancelSkipped
<1>4. CASE CancelReady(t)
  <2>1. /\ ToSet(RemoveFirst(readyList, cur[t])) \subseteq ToSet(readyList)
        /\ IsInjective(RemoveFirst(readyList, cur[t]))
    BY RemoveFirstElements
  <2> QED BY <1>4, <2>1 DEF CancelReady
<1>5. CASE CancelNotReady(t)
  BY <1>5 DEF CancelNotReady
<1>6. CASE CancelAdd(t)
  BY <1>6 DEF CancelAdd
<1>7. CASE CancelsDone(t)
  BY <1>7 DEF CancelsDone
<1>8. CASE AbortedCompleted(t)
  BY <1>8 DEF AbortedCompleted
<1>9. CASE AbortTimeout(t)
  BY <1>9 DEF AbortTimeout
<1>10. CASE Expire(t)
  BY <1>10 DEF Expire
<1>11. CASE AbortReturn(t)
  BY <1>11 DEF AbortReturn
<1>12. CASE CompletionStep(t)
  BY <1>12, <1>0, UrbCompletion
<1> QED BY <1>1, <1>2, <1>3, <1>4, <1>5, <1>6, <1>7, <1>8, <1>9, <1>10, <1>11, <1>12
        DEF AbortStep

\* The proxy thread submits a request once, and frees the URB it reaped.
LEMMA UrbProxy ==
    ASSUME TypeOK, UrbInv, ProxyStep
    PROVE  UrbInv'
<1> USE NoneAssumption, RequestsAssumption, ThreadsAssumption
<1>0. Proxy \in Threads
  BY DEF Threads
<1> USE DEF TypeOK, UsbfsTypeOK, UrbInv, ReadyHasNoUrb, UrbAccounting, ClosedForGood,
            kernelVars, lists, requestVars, threadVars, abortVars, history, Goto, StartCompletion, Threads
<1>1. CASE PollSeen
  BY <1>1 DEF PollSeen
<1>2. CASE PollMissed
  BY <1>2 DEF PollMissed
<1>3. CASE GetReadyRequest
  <2>1. readyList # <<>> => /\ Head(readyList) \in ToSet(readyList)
                            /\ ToSet(Tail(readyList)) \subseteq ToSet(readyList)
                            /\ IsInjective(Tail(readyList))
                            /\ Head(readyList) \notin ToSet(Tail(readyList))
    BY TailElements
  <2>2. /\ UNCHANGED <<kernelVars, cancelList, readyLock, inProgressList, requestVars, caller,
                       ret, abortVars, history>>
        /\ \/ readyList = <<>> /\ Goto(Proxy, "cancel", None) /\ readyList' = readyList
           \/ /\ readyList # <<>> /\ Goto(Proxy, "submit", Head(readyList))
              /\ readyList' = Tail(readyList)
    BY <1>3, Zenon DEF GetReadyRequest
  <2>3. CASE readyList = <<>> /\ Goto(Proxy, "cancel", None) /\ readyList' = readyList
    BY <2>2, <2>3, <1>3 DEF GetReadyRequest
  <2>4. CASE readyList # <<>> /\ Goto(Proxy, "submit", Head(readyList)) /\ readyList' = Tail(readyList)
    BY <2>1, <2>2, <2>4, <1>3 DEF GetReadyRequest
  <2> QED BY <2>2, <2>3, <2>4
<1>4. CASE SubmitRequestUrb
  BY <1>4 DEF SubmitRequestUrb, SubmitUrb, InKernelStates
<1>5. CASE SubmitRequestIoctl
  BY <1>5 DEF SubmitRequestIoctl
<1>6. CASE SubmitRequestFails
  BY <1>6 DEF SubmitRequestFails
<1>7. CASE CancelRequest
  <2>1. /\ Goto(Proxy, "reap", None)
        /\ UNCHANGED <<readyList, readyLock, inProgressList, requestVars, caller, ret,
                       abortVars, history>>
        /\ \/ UNCHANGED <<kernelVars, cancelList>>
           \/ DiscardUrb(urbAddress[Head(cancelList)])
    BY <1>7, Zenon DEF CancelRequest
  <2>2. CASE UNCHANGED <<kernelVars, cancelList>>
    BY <2>1, <2>2, <1>7 DEF CancelRequest
  <2>3. CASE DiscardUrb(urbAddress[Head(cancelList)])
    BY <2>1, <2>3, <1>7 DEF CancelRequest, DiscardUrb, InKernelStates, Finished
  <2> QED BY <2>1, <2>2, <2>3
<1>8. ASSUME NEW a \in Addrs, CompleteRequest(a)
      PROVE  UrbInv'
  BY <1>8 DEF CompleteRequest, ReapUrb, InKernelStates, Finished
<1>9. CASE ReapNothing
  BY <1>9 DEF ReapNothing
<1>10. CASE ReapNoDevice
  BY <1>10 DEF ReapNoDevice
<1>11. CASE ProxyExit
  BY <1>11 DEF ProxyExit, CloseFd, InKernelStates, Finished
<1>12. CASE CompletionStep(Proxy)
  BY <1>12, <1>0, UrbCompletion
<1> QED BY <1>1, <1>2, <1>3, <1>4, <1>5, <1>6, <1>7, <1>8, <1>9, <1>10, <1>11, <1>12
        DEF ProxyStep, SubmitRequest

\* The device ends transfers, and never comes back.
LEMMA UrbDevice ==
    ASSUME TypeOK, UrbInv, Device
    PROVE  UrbInv'
<1> USE DEF TypeOK, UsbfsTypeOK, UrbInv, ReadyHasNoUrb, UrbAccounting, ClosedForGood,
            kernelVars, lists, requestVars, threadVars, abortVars, history
<1>1. ASSUME NEW a \in Addrs, FinishUrb(a) PROVE UrbInv'
  BY <1>1 DEF Device, FinishUrb, InKernelStates, Finished
<1>2. CASE Unplug
  BY <1>2 DEF Device, Unplug, InKernelStates, Finished
<1> QED BY <1>1, <1>2 DEF Device

-----------------------------------------------------------------------------
(* Outstanding requests are live.                                        *)

\* A request that becomes outstanding is not handed back.
LEMMA LiveSubmitter ==
    ASSUME TypeOK, FreshUnknown, OutstandingIsLive, NEW r \in Requests, SubmitterStep(r)
    PROVE  OutstandingIsLive'
<1> USE NoneAssumption, RequestsAssumption, ThreadsAssumption
<1> USE DEF TypeOK, OutstandingIsLive, Outstanding, UrbsOf,
            kernelVars, lists, requestVars, threadVars, abortVars, history
<1>1. CASE GetLinuxDeviceProxy(r)
  BY <1>1 DEF GetLinuxDeviceProxy, PcWithProxy, ProxyRunning, ProxyAvailable, Threads, CompletionSteps
<1>2. CASE RejectSubmission(r)
  BY <1>2 DEF RejectSubmission
<1>3. CASE Submit(r)
  <2>1. irp[r] = "pending" /\ ~completed[r] /\ \A t \in Threads : pc[t] \in CompletionSteps => cur[t] # r
    BY <1>3 DEF FreshUnknown, Fresh, Submit, HandSteps
  <2>2. ToSet(Append(readyList, r)) = ToSet(readyList) \cup {r}
    BY AppendElements
  <2> QED BY <1>3, <2>1, <2>2 DEF Submit
<1>4. CASE AddInProgress(r)
  BY <1>4 DEF AddInProgress
<1>5. CASE WaitUntilCompleted(r)
  BY <1>5 DEF WaitUntilCompleted
<1> QED BY <1>1, <1>2, <1>3, <1>4, <1>5 DEF SubmitterStep

\* What setCompleted(true) hands back is not outstanding.
LEMMA LiveCompletion ==
    ASSUME TypeOK, OutstandingIsLive, NEW t \in Threads, CompletionStep(t)
    PROVE  OutstandingIsLive'
<1> USE NoneAssumption, RequestsAssumption, ThreadsAssumption
<1> USE DEF TypeOK, OutstandingIsLive, Outstanding, UrbsOf, 
            kernelVars, lists, requestVars, threadVars, abortVars, history, Goto, Threads, CompletionSteps
<1>1. CASE CompleteUsbIrp(t)
  BY <1>1 DEF CompleteUsbIrp
<1>2. CASE SetCompleted(t)
  BY <1>2 DEF SetCompleted
<1>3. CASE ExecuteCompletion(t)
  BY <1>3 DEF ExecuteCompletion
<1> QED BY <1>1, <1>2, <1>3 DEF CompletionStep

\* A request an abort completes has left readyList, where it was the only place it could be.
LEMMA LiveAbort ==
    ASSUME TypeOK, UrbInv, OutstandingIsLive, NEW t \in Aborters,
           (\E p \in Pipes : AbortAllSubmissions(t, p)) \/ AbortStep(t)
    PROVE  OutstandingIsLive'
<1> USE NoneAssumption, RequestsAssumption, ThreadsAssumption
<1>0. t \in Threads
  BY DEF Threads
<1> USE DEF TypeOK, OutstandingIsLive, Outstanding, UrbsOf,
            kernelVars, lists, requestVars, threadVars, abortVars, history, Goto, StartCompletion, Threads,
            CompletionSteps
<1>1. ASSUME NEW p \in Pipes, AbortAllSubmissions(t, p)
      PROVE  OutstandingIsLive'
  BY <1>1 DEF AbortAllSubmissions
<1>2. CASE CancelNext(t)
  BY <1>2 DEF CancelNext, PcWithProxy, ProxyRunning, ProxyAvailable
<1>3. CASE CancelSkipped(t)
  BY <1>3 DEF CancelSkipped
<1>4. CASE CancelReady(t)
  <2>1. /\ ToSet(RemoveFirst(readyList, cur[t])) \subseteq ToSet(readyList)
        /\ cur[t] \notin ToSet(RemoveFirst(readyList, cur[t]))
        /\ cur[t] \in ToSet(readyList)
    BY <1>4, RemoveFirstElements, ToSetElements DEF CancelReady, UrbInv, ReadyHasNoUrb, Contains
  <2>2. ~(Outstanding(cur[t])')
    BY <1>4, <2>1 DEF CancelReady, UrbInv, ReadyHasNoUrb, UrbAccounting
  <2> QED BY <1>4, <2>1, <2>2 DEF CancelReady
<1>5. CASE CancelNotReady(t)
  BY <1>5 DEF CancelNotReady
<1>6. CASE CancelAdd(t)
  BY <1>6 DEF CancelAdd
<1>7. CASE CancelsDone(t)
  BY <1>7 DEF CancelsDone
<1>8. CASE AbortedCompleted(t)
  BY <1>8 DEF AbortedCompleted
<1>9. CASE AbortTimeout(t)
  BY <1>9 DEF AbortTimeout
<1>10. CASE Expire(t)
  BY <1>10 DEF Expire
<1>11. CASE AbortReturn(t)
  BY <1>11 DEF AbortReturn
<1>12. CASE CompletionStep(t)
  BY <1>12, <1>0, LiveCompletion
<1> QED BY <1>1, <1>2, <1>3, <1>4, <1>5, <1>6, <1>7, <1>8, <1>9, <1>10, <1>11, <1>12
        DEF AbortStep

\* A request the proxy thread completes has left its hands or the kernel, its only place.
LEMMA LiveProxy ==
    ASSUME TypeOK, UrbInv, OutstandingIsLive, ProxyStep
    PROVE  OutstandingIsLive'
<1> USE NoneAssumption, RequestsAssumption, ThreadsAssumption
<1>0. Proxy \in Threads
  BY DEF Threads
<1> USE DEF TypeOK, UsbfsTypeOK, OutstandingIsLive, Outstanding, UrbsOf,
            kernelVars, lists, requestVars, threadVars, abortVars, history, Goto, StartCompletion, Threads,
            CompletionSteps
<1>1. CASE PollSeen
  BY <1>1 DEF PollSeen
<1>2. CASE PollMissed
  BY <1>2 DEF PollMissed
<1>3. CASE GetReadyRequest
  <2>1. readyList # <<>> => /\ Head(readyList) \in ToSet(readyList)
                            /\ ToSet(Tail(readyList)) \subseteq ToSet(readyList)
    BY TailElements
  <2>2. /\ UNCHANGED <<kernelVars, cancelList, readyLock, inProgressList, requestVars, caller,
                       ret, abortVars, history>>
        /\ \/ readyList = <<>> /\ Goto(Proxy, "cancel", None) /\ readyList' = readyList
           \/ /\ readyList # <<>> /\ Goto(Proxy, "submit", Head(readyList))
              /\ readyList' = Tail(readyList)
    BY <1>3, Zenon DEF GetReadyRequest
  <2>3. CASE readyList = <<>> /\ Goto(Proxy, "cancel", None) /\ readyList' = readyList
    BY <2>2, <2>3, <1>3 DEF GetReadyRequest
  <2>4. CASE readyList # <<>> /\ Goto(Proxy, "submit", Head(readyList)) /\ readyList' = Tail(readyList)
    BY <2>1, <2>2, <2>4, <1>3 DEF GetReadyRequest
  <2> QED BY <2>2, <2>3, <2>4
<1>4. CASE SubmitRequestUrb
  BY <1>4 DEF SubmitRequestUrb, SubmitUrb, InKernelStates
<1>5. CASE SubmitRequestIoctl
  <2>1. ~(Outstanding(cur[Proxy])')
    BY <1>5 DEF SubmitRequestIoctl, UrbInv, ReadyHasNoUrb, UrbAccounting
  <2> QED BY <1>5, <2>1 DEF SubmitRequestIoctl
<1>6. CASE SubmitRequestFails
  <2>1. ~(Outstanding(cur[Proxy])')
    BY <1>6 DEF SubmitRequestFails, UrbInv, ReadyHasNoUrb, UrbAccounting
  <2> QED BY <1>6, <2>1 DEF SubmitRequestFails
<1>7. CASE CancelRequest
  <2>1. /\ Goto(Proxy, "reap", None)
        /\ UNCHANGED <<readyList, readyLock, inProgressList, requestVars, caller, ret,
                       abortVars, history>>
        /\ \/ UNCHANGED <<kernelVars, cancelList>>
           \/ DiscardUrb(urbAddress[Head(cancelList)])
    BY <1>7, Zenon DEF CancelRequest
  <2>2. CASE UNCHANGED <<kernelVars, cancelList>>
    BY <2>1, <2>2, <1>7 DEF CancelRequest
  <2>3. CASE DiscardUrb(urbAddress[Head(cancelList)])
    <3>1. \A r \in Requests : UrbsOf(r)' = UrbsOf(r)
      BY <2>3 DEF DiscardUrb, InKernelStates, Finished
    <3> HIDE DEF UrbsOf
    <3> QED BY <2>1, <3>1, <1>7 DEF CancelRequest
  <2> QED BY <2>1, <2>2, <2>3
<1>8. ASSUME NEW a \in Addrs, CompleteRequest(a)
      PROVE  OutstandingIsLive'
  <2>1. PICK r \in Requests : r = urbOwner[a] /\ urbAddress[r] = a
    BY <1>8 DEF CompleteRequest, ReapUrb, UrbInv, UrbAccounting, InKernelStates
  <2>2. r \notin ToSet(readyList)
    BY <2>1, NoneAssumption DEF UrbInv, ReadyHasNoUrb
  <2>3. UrbsOf(r)' = {} /\ \A q \in Requests : UrbsOf(q)' \subseteq UrbsOf(q)
    BY <1>8, <2>1 DEF CompleteRequest, ReapUrb, UrbInv, UrbAccounting, InKernelStates, Finished
  <2>4. /\ UNCHANGED <<lists, completed, irp, expired>>
        /\ StartCompletion(Proxy, r, "poll")
    BY <1>8, <2>1 DEF CompleteRequest
  <2>5. ~(Outstanding(r)') /\ \A q \in Requests : Outstanding(q)' => Outstanding(q)
    <3> HIDE DEF UrbsOf
    <3> QED BY <2>1, <2>2, <2>3, <2>4
  <2> HIDE DEF Outstanding
  <2> QED BY <2>1, <2>4, <2>5
<1>9. CASE ReapNothing
  BY <1>9 DEF ReapNothing
<1>10. CASE ReapNoDevice
  BY <1>10 DEF ReapNoDevice
<1>11. CASE ProxyExit
  BY <1>11 DEF ProxyExit, CloseFd, InKernelStates, Finished
<1>12. CASE CompletionStep(Proxy)
  BY <1>12, <1>0, LiveCompletion
<1> QED BY <1>1, <1>2, <1>3, <1>4, <1>5, <1>6, <1>7, <1>8, <1>9, <1>10, <1>11, <1>12
        DEF ProxyStep, SubmitRequest

\* No request becomes outstanding because of the device.
LEMMA LiveDevice ==
    ASSUME TypeOK, OutstandingIsLive, Device
    PROVE  OutstandingIsLive'
<1> USE DEF TypeOK, UsbfsTypeOK, OutstandingIsLive, Outstanding, UrbsOf,
            kernelVars, lists, requestVars, threadVars, abortVars, history
<1>1. ASSUME NEW a \in Addrs, FinishUrb(a) PROVE OutstandingIsLive'
  BY <1>1 DEF Device, FinishUrb, InKernelStates, Finished
<1>2. CASE Unplug
  BY <1>2 DEF Device, Unplug, InKernelStates, Finished
<1> QED BY <1>1, <1>2 DEF Device

-----------------------------------------------------------------------------
(* The outcome of a request.                                             *)

\* A submitter does not touch the outcome of a request.
LEMMA OutcomeSubmitter ==
    ASSUME TypeOK, OutcomeKnown, NEW r \in Requests, SubmitterStep(r)
    PROVE  OutcomeKnown'
<1> USE NoneAssumption, RequestsAssumption, ThreadsAssumption
<1> USE DEF TypeOK, OutcomeKnown, NoFalseSuccess, 
            kernelVars, lists, requestVars, threadVars, abortVars, history
<1>1. CASE GetLinuxDeviceProxy(r)
  BY <1>1 DEF GetLinuxDeviceProxy, PcWithProxy, ProxyRunning, ProxyAvailable, Threads, CompletionSteps
<1>2. CASE RejectSubmission(r)
  BY <1>2 DEF RejectSubmission
<1>3. CASE Submit(r)
  BY <1>3 DEF Submit
<1>4. CASE AddInProgress(r)
  BY <1>4 DEF AddInProgress
<1>5. CASE WaitUntilCompleted(r)
  BY <1>5 DEF WaitUntilCompleted
<1> QED BY <1>1, <1>2, <1>3, <1>4, <1>5 DEF SubmitterStep

\* setCompleted(true) passes the outcome on, to the IRP first.
LEMMA OutcomeCompletion ==
    ASSUME TypeOK, OutcomeKnown, NEW t \in Threads, CompletionStep(t)
    PROVE  OutcomeKnown'
<1> USE NoneAssumption, RequestsAssumption, ThreadsAssumption
<1> USE DEF TypeOK, OutcomeKnown, NoFalseSuccess, HandSteps,
            kernelVars, lists, requestVars, threadVars, abortVars, history, Goto, Threads, CompletionSteps
<1>1. CASE CompleteUsbIrp(t)
  <2>1. PICK r \in Requests : r = cur[t]
    BY <1>1 DEF CompleteUsbIrp
  <2>2. PICK e \in Errors \cup {"none"} : e = IrpError(r)
    BY <2>1 DEF IrpError, Errors
  <2>3. /\ irp' = IF r \in Claims THEN irp ELSE [irp EXCEPT ![r] = e]
        /\ UNCHANGED <<errorNumber, completed, transferred, expired>>
        /\ Goto(t, "flag", r)
    BY <1>1, <2>1, <2>2 DEF CompleteUsbIrp
  <2>4. e # "pending" /\ (e = "none" => r \in IsoRequests \cup transferred)
    BY <1>1, <2>1, <2>2 DEF CompleteUsbIrp, IrpError, Errors
  <2>5. CASE r \in Claims
    BY <1>1, <2>1, <2>3, <2>5 DEF CompleteUsbIrp
  <2>6. CASE r \notin Claims
    BY <1>1, <2>1, <2>2, <2>3, <2>4, <2>6 DEF CompleteUsbIrp, IrpError
  <2> QED BY <2>5, <2>6
<1>2. CASE SetCompleted(t)
  BY <1>2 DEF SetCompleted
<1>3. CASE ExecuteCompletion(t)
  BY <1>3 DEF ExecuteCompletion
<1> QED BY <1>1, <1>2, <1>3 DEF CompletionStep

\* An abort gives a request an error before it completes it.
LEMMA OutcomeAbort ==
    ASSUME TypeOK, UrbInv, OutstandingIsLive, OutcomeKnown, NEW t \in Aborters,
           (\E p \in Pipes : AbortAllSubmissions(t, p)) \/ AbortStep(t)
    PROVE  OutcomeKnown'
<1> USE NoneAssumption, RequestsAssumption, ThreadsAssumption
<1>0. t \in Threads
  BY DEF Threads
<1> USE DEF TypeOK, OutcomeKnown, NoFalseSuccess,
            kernelVars, lists, requestVars, threadVars, abortVars, history, Goto, StartCompletion, Threads,
            CompletionSteps
<1>1. ASSUME NEW p \in Pipes, AbortAllSubmissions(t, p)
      PROVE  OutcomeKnown'
  BY <1>1 DEF AbortAllSubmissions
<1>2. CASE CancelNext(t)
  BY <1>2 DEF CancelNext, PcWithProxy, ProxyRunning, ProxyAvailable
<1>3. CASE CancelSkipped(t)
  BY <1>3 DEF CancelSkipped
<1>4. CASE CancelReady(t)
  <2>1. cur[t] \in ToSet(readyList)
    BY <1>4, ToSetElements DEF CancelReady, Contains
  <2>2. cur[t] \notin expired => irp[cur[t]] = "pending" /\ ~completed[cur[t]]
    BY <1>4, <2>1 DEF CancelReady, OutstandingIsLive, Outstanding, HandSteps
  <2> QED BY <1>4, <2>2 DEF CancelReady, HandSteps
<1>5. CASE CancelNotReady(t)
  BY <1>5 DEF CancelNotReady
<1>6. CASE CancelAdd(t)
  BY <1>6 DEF CancelAdd
<1>7. CASE CancelsDone(t)
  BY <1>7 DEF CancelsDone
<1>8. CASE AbortedCompleted(t)
  BY <1>8 DEF AbortedCompleted
<1>9. CASE AbortTimeout(t)
  BY <1>9 DEF AbortTimeout
<1>10. CASE Expire(t)
  BY <1>10 DEF Expire, HandSteps
<1>11. CASE AbortReturn(t)
  BY <1>11 DEF AbortReturn
<1>12. CASE CompletionStep(t)
  BY <1>12, <1>0, OutcomeCompletion
<1> QED BY <1>1, <1>2, <1>3, <1>4, <1>5, <1>6, <1>7, <1>8, <1>9, <1>10, <1>11, <1>12
        DEF AbortStep

\* The proxy thread completes a request with an error or after its transfer.
LEMMA OutcomeProxy ==
    ASSUME TypeOK, UrbInv, OutstandingIsLive, OutcomeKnown, ProxyStep
    PROVE  OutcomeKnown'
<1> USE NoneAssumption, RequestsAssumption, ThreadsAssumption
<1>0. Proxy \in Threads
  BY DEF Threads
<1> USE DEF TypeOK, UsbfsTypeOK, OutcomeKnown, NoFalseSuccess,
            kernelVars, lists, requestVars, threadVars, abortVars, history, Goto, StartCompletion, Threads,
            CompletionSteps
<1>1. CASE PollSeen
  BY <1>1 DEF PollSeen
<1>2. CASE PollMissed
  BY <1>2 DEF PollMissed
<1>3. CASE GetReadyRequest
  <2>1. /\ UNCHANGED <<kernelVars, inProgressList, requestVars, caller, ret, abortVars, history>>
        /\ \E r : Goto(Proxy, "cancel", r) \/ Goto(Proxy, "submit", r)
    BY <1>3, Zenon DEF GetReadyRequest
  <2> QED BY <2>1
<1>4. CASE SubmitRequestUrb
  BY <1>4 DEF SubmitRequestUrb
<1>5. CASE SubmitRequestIoctl
  BY <1>5 DEF SubmitRequestIoctl
<1>6. CASE SubmitRequestFails
  <2>1. cur[Proxy] \notin expired => irp[cur[Proxy]] = "pending" /\ ~completed[cur[Proxy]]
    BY <1>6 DEF SubmitRequestFails, OutstandingIsLive, Outstanding, HandSteps
  <2> QED BY <1>6, <2>1 DEF SubmitRequestFails, HandSteps
<1>7. CASE CancelRequest
  <2>1. /\ Goto(Proxy, "reap", None)
        /\ UNCHANGED <<requestVars, caller, ret, abortVars, history>>
    BY <1>7, Zenon DEF CancelRequest
  <2> QED BY <2>1
<1>8. ASSUME NEW a \in Addrs, CompleteRequest(a)
      PROVE  OutcomeKnown'
  <2>1. PICK r \in Requests : r = urbOwner[a] /\ urbAddress[r] = a
    BY <1>8 DEF CompleteRequest, ReapUrb, UrbInv, UrbAccounting, InKernelStates
  <2>2. r \notin expired => irp[r] = "pending" /\ ~completed[r]
    BY <1>8, <2>1 DEF CompleteRequest, ReapUrb, OutstandingIsLive, Outstanding, UrbsOf, InKernelStates
  <2>3. PICK e \in Errors \cup {"none"} : 
            /\ e = CompletionError(r)
            /\ e # errorNumber[r] => e # "none"
            /\ urbState[a] = "ok" \/ e # "none"
    BY <1>8, <2>1 DEF CompleteRequest, ReapUrb, CompletionError, Errors, Finished
  <2>4. /\ UNCHANGED <<completed, irp, expired>>
        /\ StartCompletion(Proxy, r, "poll")
        /\ errorNumber' = [errorNumber EXCEPT ![r] = e]
        /\ transferred \subseteq transferred'
        /\ urbState[a] = "ok" => r \in transferred'
    BY <1>8, <2>1, <2>3 DEF CompleteRequest
  <2> QED BY <2>1, <2>2, <2>3, <2>4
<1>9. CASE ReapNothing
  BY <1>9 DEF ReapNothing
<1>10. CASE ReapNoDevice
  BY <1>10 DEF ReapNoDevice
<1>11. CASE ProxyExit
  BY <1>11 DEF ProxyExit
<1>12. CASE CompletionStep(Proxy)
  BY <1>12, <1>0, OutcomeCompletion
<1> QED BY <1>1, <1>2, <1>3, <1>4, <1>5, <1>6, <1>7, <1>8, <1>9, <1>10, <1>11, <1>12
        DEF ProxyStep, SubmitRequest

\* The device does not touch the outcome of a request.
LEMMA OutcomeDevice ==
    ASSUME OutcomeKnown, Device
    PROVE  OutcomeKnown'
BY DEF Device, OutcomeKnown, NoFalseSuccess, requestVars, threadVars, history

-----------------------------------------------------------------------------
(* The theorems.                                                           *)

\* The invariant holds at the start.
LEMMA IndInvInit == Init => IndInv
<1> SUFFICES ASSUME Init PROVE IndInv
  OBVIOUS
<1> USE NoneAssumption, RequestsAssumption, ThreadsAssumption
<1>1. TypeOK
  BY TypeInit
<1>2. ToSet(<<>>) = {} /\ IsInjective(<<>>)
  <2>1. <<>> \in Seq(Requests) /\ DOMAIN <<>> = {}
    BY EmptySeq
  <2> QED BY <2>1, ToSetElements DEF IsInjective
<1>3. /\ \A t \in Threads : pc[t] \in {"off", "idle"}
      /\ \A a \in Addrs : urbState[a] = "free"
  BY DEF Init, UsbfsInit
<1>4. FreshUnknown
  BY <1>2, <1>3 DEF Init, FreshUnknown, Fresh, HandSteps, CompletionSteps, InKernelStates, Finished
<1>5. ReadyHasNoUrb /\ UrbAccounting /\ ClosedForGood
  BY <1>2, <1>3 DEF Init, ReadyHasNoUrb, UrbAccounting, ClosedForGood, InKernelStates, Finished,
                    Threads
<1>6. OutstandingIsLive /\ OutcomeKnown
  BY <1>2, <1>3 DEF Init, OutstandingIsLive, OutcomeKnown, NoFalseSuccess, CompletionSteps
<1> QED BY <1>1, <1>4, <1>5, <1>6 DEF IndInv

\* Every step of every thread, of the device and of the bus keeps it.
LEMMA IndInvStep == IndInv /\ [Next]_vars => IndInv'
<1> SUFFICES ASSUME IndInv, [Next]_vars PROVE IndInv'
  OBVIOUS
<1> USE DEF IndInv, UrbInv
<1>1. ASSUME NEW r \in Requests, SubmitterStep(r) PROVE IndInv'
  BY <1>1, TypeSubmitter, FreshSubmitter, UrbSubmitter, LiveSubmitter, OutcomeSubmitter
<1>2. ASSUME NEW t \in Aborters, (\E p \in Pipes : AbortAllSubmissions(t, p)) \/ AbortStep(t)
      PROVE  IndInv'
  BY <1>2, TypeAbort, FreshAbort, UrbAbort, LiveAbort, OutcomeAbort
<1>3. CASE ProxyStep
  BY <1>3, TypeProxy, FreshProxy, UrbProxy, LiveProxy, OutcomeProxy
<1>4. CASE Device
  BY <1>4, TypeDevice, FreshDevice, UrbDevice, LiveDevice, OutcomeDevice
<1>5. CASE UNCHANGED vars
  <2> USE <1>5 DEF vars, kernelVars, lists, requestVars, threadVars, abortVars, history
  <2>1. TypeOK'
    BY DEF TypeOK, UsbfsTypeOK
  <2>2. FreshUnknown'
    BY DEF FreshUnknown, Fresh
  <2>3. ReadyHasNoUrb' /\ UrbAccounting' /\ ClosedForGood'
    BY DEF ReadyHasNoUrb, UrbAccounting, ClosedForGood
  <2>4. OutstandingIsLive'
    BY DEF OutstandingIsLive, Outstanding, UrbsOf
  <2>5. OutcomeKnown'
    BY DEF OutcomeKnown, NoFalseSuccess
  <2> QED BY <2>1, <2>2, <2>3, <2>4, <2>5
<1> QED BY <1>1, <1>2, <1>3, <1>4, <1>5 DEF Next

\* The inductive invariant holds in every state.
THEOREM IndInvCorrect == Spec => []IndInv
<1> QED BY IndInvInit, IndInvStep, PTL DEF Spec

\* completeRequest() frees the URB that was reaped: the address a request remembers is
\* that of its URB for as long as the kernel has it.
THEOREM UrbAccountingCorrect == Spec => []UrbAccounting
<1>1. IndInv => UrbAccounting
  BY DEF IndInv
<1> QED BY <1>1, IndInvCorrect, PTL

\* An IRP is handed back only when neither the proxy thread nor the kernel can still
\* use its buffer, but for the timeout of an abort.
THEOREM NoTransferAfterCompletionCorrect == Spec => []NoTransferAfterCompletion
<1>1. IndInv => NoTransferAfterCompletion
  BY DEF IndInv, OutstandingIsLive, NoTransferAfterCompletion, HandedBack
<1> QED BY <1>1, IndInvCorrect, PTL

\* A request that is reported as a success was served by the device.
THEOREM NoFalseSuccessCorrect == Spec => []NoFalseSuccess
<1>1. IndInv => NoFalseSuccess
  BY DEF IndInv, OutcomeKnown
<1> QED BY <1>1, IndInvCorrect, PTL

\* Who sees the completed flag sees the outcome in the IRP.
THEOREM FlagMeansSettledCorrect == Spec => []FlagMeansSettled
<1>1. IndInv => FlagMeansSettled
  BY DEF IndInv, OutcomeKnown, FlagMeansSettled
<1> QED BY <1>1, IndInvCorrect, PTL

\* The outcome of a completed request never changes, unless an abort gave up on it.
THEOREM OutcomeStableCorrect == Spec => OutcomeStable
<1> DEFINE Stable == \A r \in Requests : completed[r] /\ r \notin expired' => irp'[r] = irp[r]
<1>1. IndInv /\ [Next]_vars => [Stable]_vars
  <2> SUFFICES ASSUME IndInv, Next PROVE Stable
    OBVIOUS
  <2>1. CASE irp' = irp
    BY <2>1
  <2>2. ASSUME NEW t \in Threads, CompleteUsbIrp(t) PROVE Stable
    <3>1. PICK r \in Requests : r = cur[t]
      BY <2>2 DEF CompleteUsbIrp, IndInv, TypeOK, HandSteps, CompletionSteps
    <3>2. completed[r] /\ r \notin expired => r \in Claims \/ irp[r] = IrpError(r)
      BY <3>1, RequestsAssumption DEF IrpError, IndInv, OutcomeKnown
    <3>3. irp' = IF r \in Claims THEN irp ELSE [irp EXCEPT ![r] = IrpError(r)]
      BY <2>2, <3>1 DEF CompleteUsbIrp
    <3>4. expired' = expired
      BY <2>2 DEF CompleteUsbIrp
    <3>5. irp \in [Requests -> Errors \cup {"none", "pending"}]
      BY DEF IndInv, TypeOK
    <3> HIDE DEF IrpError
    <3> QED BY <3>1, <3>2, <3>3, <3>4, <3>5
  <2>3. irp' = irp \/ \E t \in Threads : CompleteUsbIrp(t)
    <3>1. ASSUME NEW t \in Threads, CompletionStep(t)
          PROVE  irp' = irp \/ CompleteUsbIrp(t)
      BY <3>1 DEF CompletionStep, SetCompleted, ExecuteCompletion, requestVars
    <3>2. ASSUME NEW r \in Requests, SubmitterStep(r) PROVE irp' = irp
      BY <3>2 DEF SubmitterStep, GetLinuxDeviceProxy, RejectSubmission, Submit, AddInProgress,
                  WaitUntilCompleted, requestVars
    <3>3. ASSUME NEW t \in Aborters, NEW p \in Pipes, AbortAllSubmissions(t, p) PROVE irp' = irp
      BY <3>3 DEF AbortAllSubmissions, requestVars
    <3>4. ASSUME NEW t \in Aborters, AbortStep(t) PROVE irp' = irp \/ CompletionStep(t)
      BY <3>4 DEF AbortStep, CancelNext, CancelSkipped, CancelReady, CancelNotReady, CancelAdd,
                  CancelsDone, AbortedCompleted, AbortTimeout, Expire, AbortReturn, requestVars
    <3>5. ASSUME ProxyStep PROVE irp' = irp \/ CompletionStep(Proxy)
      BY <3>5 DEF ProxyStep, PollSeen, PollMissed, GetReadyRequest, SubmitRequest, SubmitRequestUrb,
                  SubmitRequestIoctl, SubmitRequestFails, CancelRequest, CompleteRequest,
                  ReapNothing, ReapNoDevice, ProxyExit, requestVars
    <3>6. Device => irp' = irp
      BY DEF Device, requestVars
    <3> QED BY <3>1, <3>2, <3>3, <3>4, <3>5, <3>6 DEF Next, Threads
  <2> QED BY <2>1, <2>2, <2>3
<1> QED BY <1>1, IndInvCorrect, PTL DEF Spec, OutcomeStable

-----------------------------------------------------------------------------
(* DeviceProxy implements RequestContract.                                 *)

\* A step that leaves these alone means nothing to the application.
LEMMA ContractStutter ==
    ASSUME irp' = irp, transferred' = transferred, expired' = expired,
           \A r \in Requests : Fresh(r)' <=> Fresh(r)
    PROVE  UNCHANGED Contract!vars
BY DEF Contract!vars

\* LinuxRequestProxy.submit() is the submission; the other steps of a submitting
\* thread show nothing.
LEMMA ContractSubmitter ==
    ASSUME IndInv, NEW r \in Requests, SubmitterStep(r)
    PROVE  [Contract!Next]_(Contract!vars)
<1> USE DEF IndInv, TypeOK, requestVars, history
<1>1. CASE Submit(r)
  <2>1. /\ Fresh(r) /\ ~Fresh(r)'
        /\ \A q \in Requests \ {r} : Fresh(q)' <=> Fresh(q)
        /\ UNCHANGED <<irp, transferred, expired>>
    BY <1>1 DEF Submit, Fresh
  <2>2. Contract!Submit(r)
    BY <2>1 DEF Contract!Submit
  <2> QED BY <2>2 DEF Contract!Next
<1>2. CASE SubmitterStep(r) /\ ~Submit(r)
  <2>1. /\ UNCHANGED <<irp, transferred, expired>>
        /\ \A q \in Requests : Fresh(q)' <=> Fresh(q)
    BY <1>2 DEF SubmitterStep, GetLinuxDeviceProxy, RejectSubmission, AddInProgress,
                WaitUntilCompleted, Fresh
  <2> QED BY <2>1, ContractStutter
<1> QED BY <1>1, <1>2

\* completeUsbIrp() hands the IRP back with a true outcome, or again with the one it
\* has; the rest of setCompleted(true) shows nothing.
LEMMA ContractCompletion ==
    ASSUME IndInv, NEW t \in Threads, CompletionStep(t)
    PROVE  [Contract!Next]_(Contract!vars)
<1> USE DEF IndInv, TypeOK, requestVars, history
<1>1. CASE CompleteUsbIrp(t)
  <2>1. PICK r \in Requests : r = cur[t]
    BY <1>1 DEF CompleteUsbIrp, HandSteps, CompletionSteps
  <2>2. PICK e \in Errors \cup {"none"} : e = IrpError(r)
    BY DEF IrpError
  <2>3. /\ irp' = IF r \in Claims THEN irp ELSE [irp EXCEPT ![r] = e]
        /\ UNCHANGED <<caller, transferred, expired>>
    BY <1>1, <2>1, <2>2 DEF CompleteUsbIrp
  <2>4. ~Fresh(r)
    BY <1>1, <2>1 DEF CompleteUsbIrp, FreshUnknown, HandSteps, CompletionSteps
  <2>5. e = "none" => r \in transferred \cup IsoRequests
    BY <1>1, <2>1, <2>2 DEF CompleteUsbIrp, IrpError, OutcomeKnown, CompletionSteps
  <2>6. irp[r] = "pending" \/ r \in expired \/ irp' = irp
    <3>1. r \in Claims => irp' = irp
      BY <2>3
    <3>2. r \notin Claims /\ irp[r] # "pending" /\ r \notin expired => irp[r] = e
      BY <2>2 DEF IrpError, OutcomeKnown
    <3> QED BY <2>3, <3>1, <3>2
  <2>7. \A q \in Requests : Fresh(q)' <=> Fresh(q)
    BY <2>3 DEF Fresh
  <2>8. CASE irp' = irp
    BY <2>3, <2>7, <2>8, ContractStutter
  <2>9. CASE irp' # irp
    <3>1. Contract!Complete(r, e)
      <4> HIDE DEF Fresh
      <4> QED BY <2>3, <2>4, <2>5, <2>6, <2>7, <2>9 DEF Contract!Complete, Contract!Open
    <3> QED BY <3>1 DEF Contract!Next
  <2> QED BY <2>8, <2>9
<1>2. CASE SetCompleted(t) \/ ExecuteCompletion(t)
  <2>1. UNCHANGED <<irp, transferred, expired, caller>>
    BY <1>2 DEF SetCompleted, ExecuteCompletion
  <2> QED BY <2>1, ContractStutter DEF Fresh
<1> QED BY <1>1, <1>2 DEF CompletionStep

\* An abort that gives up on a request abandons it.
LEMMA ContractAbort ==
    ASSUME IndInv, NEW t \in Aborters,
           (\E p \in Pipes : AbortAllSubmissions(t, p)) \/ AbortStep(t)
    PROVE  [Contract!Next]_(Contract!vars)
<1>0. t \in Threads
  BY DEF Threads
<1> USE DEF IndInv, TypeOK, requestVars, history
<1>1. CASE Expire(t)
  <2>1. PICK r \in Requests : r = cur[t]
    BY <1>0, <1>1 DEF Expire, HandSteps
  <2>2. /\ expired' = expired \cup {r}
        /\ UNCHANGED <<irp, transferred, caller>>
    BY <1>1, <2>1 DEF Expire
  <2>3. ~Fresh(r)
    BY <1>0, <1>1, <2>1 DEF Expire, FreshUnknown, HandSteps
  <2>4. \A q \in Requests : Fresh(q)' <=> Fresh(q)
    BY <2>2 DEF Fresh
  <2>5. Contract!Abandon(r)
    <3> HIDE DEF Fresh
    <3> QED BY <2>2, <2>3, <2>4 DEF Contract!Abandon
  <2> QED BY <2>5 DEF Contract!Next
<1>2. CASE CompletionStep(t)
  BY <1>0, <1>2, ContractCompletion
<1>3. CASE (\E p \in Pipes : AbortAllSubmissions(t, p)) \/ (AbortStep(t) /\ ~Expire(t) /\ ~CompletionStep(t))
  <2>1. UNCHANGED <<irp, transferred, expired, caller>>
    BY <1>3 DEF AbortAllSubmissions, AbortStep, CancelNext, CancelSkipped, CancelReady,
                CancelNotReady, CancelAdd, CancelsDone, AbortedCompleted, AbortTimeout, AbortReturn
  <2> QED BY <2>1, ContractStutter DEF Fresh
<1> QED BY <1>1, <1>2, <1>3

\* A request is served by its ioctl, or when its URB is reaped that went well.
LEMMA ContractProxy ==
    ASSUME IndInv, ProxyStep
    PROVE  [Contract!Next]_(Contract!vars)
<1>0. Proxy \in Threads
  BY DEF Threads
<1> USE DEF IndInv, TypeOK, requestVars, history
<1>1. ASSUME NEW r \in Requests, Outstanding(r), ~Fresh(r),
             transferred' = transferred \cup {r}, UNCHANGED <<irp, expired, caller>>
      PROVE  Contract!Next
  <2>1. irp[r] = "pending" \/ r \in expired
    BY <1>1 DEF OutstandingIsLive
  <2>2. \A q \in Requests : Fresh(q)' <=> Fresh(q)
    BY <1>1 DEF Fresh
  <2>3. Contract!Serve(r)
    <3> HIDE DEF Fresh
    <3> QED BY <1>1, <2>1, <2>2 DEF Contract!Serve, Contract!Open
  <2> QED BY <2>3 DEF Contract!Next
<1>2. CASE SubmitRequestIoctl
  <2>1. PICK r \in Requests : r = cur[Proxy]
    BY <1>0, <1>2 DEF SubmitRequestIoctl, HandSteps
  <2>2. Outstanding(r) /\ ~Fresh(r)
    BY <1>0, <1>2, <2>1 DEF SubmitRequestIoctl, Outstanding, FreshUnknown, HandSteps
  <2>3. transferred' = transferred \cup {r} /\ UNCHANGED <<irp, expired, caller>>
    BY <1>2, <2>1 DEF SubmitRequestIoctl
  <2> QED BY <1>1, <2>2, <2>3
<1>3. ASSUME NEW a \in Addrs, CompleteRequest(a)
      PROVE  [Contract!Next]_(Contract!vars)
  <2>1. urbState[a] \in InKernelStates
    BY <1>3 DEF CompleteRequest, ReapUrb, InKernelStates
  <2>2. PICK r \in Requests : r = urbOwner[a]
    BY <2>1 DEF UsbfsTypeOK
  <2>3. Outstanding(r) /\ ~Fresh(r)
    BY <2>1, <2>2 DEF Outstanding, UrbsOf, FreshUnknown
  <2>4. /\ UNCHANGED <<irp, expired, caller>>
        /\ transferred' = transferred \cup {r} \/ transferred' = transferred
    BY <1>3, <2>2 DEF CompleteRequest
  <2>5. CASE transferred' = transferred
    BY <2>4, <2>5, ContractStutter DEF Fresh
  <2> QED BY <1>1, <2>3, <2>4, <2>5
<1>4. CASE CompletionStep(Proxy)
  BY <1>0, <1>4, ContractCompletion
<1>5. CASE \/ PollSeen \/ PollMissed \/ GetReadyRequest \/ SubmitRequestUrb \/ SubmitRequestFails
           \/ CancelRequest \/ ReapNothing \/ ReapNoDevice \/ ProxyExit
  <2>1. UNCHANGED <<irp, transferred, expired, caller>>
    BY <1>5 DEF PollSeen, PollMissed, GetReadyRequest, SubmitRequestUrb, SubmitRequestFails,
                CancelRequest, ReapNothing, ReapNoDevice, ProxyExit
  <2> QED BY <2>1, ContractStutter DEF Fresh
<1> QED BY <1>2, <1>3, <1>4, <1>5 DEF ProxyStep, SubmitRequest

\* Every step of the code is a step of the contract, or one it does not see: a request
\* is served and completed only while it is open, and completed with a true outcome.
THEOREM ContractImplemented == Spec => ImplementsContract
<1>1. Init => Contract!Init
  <2> SUFFICES ASSUME Init PROVE Contract!Init
    OBVIOUS
  <2>0. caller = [r \in Requests |-> "idle"]
    BY DEF Init
  <2>1. \A r \in Requests : Fresh(r)
    BY <2>0, Zenon DEF Fresh
  <2>2. transferred = {} /\ expired = {} /\ irp = [r \in Requests |-> "pending"]
    BY DEF Init
  <2> HIDE DEF Fresh
  <2> QED BY <2>1, <2>2 DEF Contract!Init
<1>2. IndInv /\ [Next]_vars => [Contract!Next]_(Contract!vars)
  <2> SUFFICES ASSUME IndInv, [Next]_vars PROVE [Contract!Next]_(Contract!vars)
    OBVIOUS
  <2>1. ASSUME NEW r \in Requests, SubmitterStep(r) PROVE [Contract!Next]_(Contract!vars)
    BY <2>1, ContractSubmitter
  <2>2. ASSUME NEW t \in Aborters, (\E p \in Pipes : AbortAllSubmissions(t, p)) \/ AbortStep(t)
        PROVE  [Contract!Next]_(Contract!vars)
    BY <2>2, ContractAbort
  <2>3. CASE ProxyStep
    BY <2>3, ContractProxy
  <2>4. CASE Device \/ UNCHANGED vars
    <3>1. UNCHANGED <<irp, transferred, expired, caller>>
      BY <2>4 DEF Device, vars, requestVars, history
    <3> QED BY <3>1, ContractStutter DEF Fresh
  <2> QED BY <2>1, <2>2, <2>3, <2>4 DEF Next
<1> QED BY <1>1, <1>2, IndInvCorrect, PTL DEF Spec, ImplementsContract, Contract!Spec

-----------------------------------------------------------------------------
(***************************************************************************)
(* Aborts: what abortAllSubmissions() has taken it does not let go of, and *)
(* what it has not taken it can still reach; and however the aborts race   *)
(* with the proxy, a request is completed once.                            *)
(***************************************************************************)

\* Aborting thread t still has to wait for r, or is about to set its flag.
KeptBy(t, r) ==
    \/ r \in ToSet(toWait[t])
    \/ cur[t] = r /\ pc[t] \in {"expire", "irp", "flag"}

Kept(r) == \E t \in Aborters : KeptBy(t, r)

\* An abort that is not running keeps nothing; a thread removes a request from the
\* list of its pipe after its flag is set; and the two properties, with KeptBy() for
\* HeldByAbort(), which also counts what a thread is about to let go of.
AbortInv ==
    /\ \A t \in Aborters : pc[t] = "idle" => toWait[t] = <<>>
    /\ \A t \in Threads : pc[t] = "list" => completed[cur[t]]
    /\ \A r \in aborted : completed[r] \/ Kept(r)
    /\ \A r \in Tracked :
          caller[r] = "returned" /\ ~completed[r]
              => r \in ToSet(inProgressList[PipeOf[r]]) \/ Kept(r)

\* The invariant does not see a step that leaves the aborts, the flags and the lists
\* of the pipes as they are, and completes the submission of no request.
LEMMA AbortQuiet ==
    ASSUME TypeOK, AbortInv,
           UNCHANGED <<toWait, completed, aborted, inProgressList>>,
           \A t \in Aborters : pc'[t] = pc[t] /\ cur'[t] = cur[t],
           pc'[Proxy] = "list" => pc[Proxy] = "list" /\ cur'[Proxy] = cur[Proxy],
           \A r \in Tracked : caller'[r] = "returned" => caller[r] = "returned"
    PROVE  AbortInv'
BY DEF AbortInv, Kept, KeptBy, Threads, Tracked

\* A submitting thread enters its request before it returns.
LEMMA AbortSubmitter ==
    ASSUME TypeOK, AbortInv, NEW r \in Requests, SubmitterStep(r)
    PROVE  AbortInv'
<1> USE NoneAssumption, RequestsAssumption, ThreadsAssumption
<1> USE DEF TypeOK, kernelVars, lists, requestVars, threadVars, abortVars, history
<1>1. CASE GetLinuxDeviceProxy(r)
  BY <1>1, AbortQuiet DEF GetLinuxDeviceProxy, PcWithProxy, ProxyRunning, Threads
<1>2. CASE RejectSubmission(r)
  BY <1>2, AbortQuiet DEF RejectSubmission
<1>3. CASE Submit(r)
  BY <1>3, AbortQuiet DEF Submit, Tracked
<1>4. CASE AddInProgress(r)
  <2>1. PICK p \in Pipes \cup {None} : p = PipeOf[r]
    OBVIOUS
  <2>2. p \in Pipes => ToSet(Append(inProgressList[p], r)) = ToSet(inProgressList[p]) \cup {r}
    BY AppendElements
  <2>3. /\ inProgressList' = [inProgressList EXCEPT ![p] = Append(inProgressList[p], r)]
        /\ caller' = [caller EXCEPT ![r] = "returned"]
        /\ UNCHANGED <<toWait, completed, aborted, pc, cur>>
    BY <1>4, <2>1 DEF AddInProgress
  <2>4. \A q \in Requests : Kept(q)' <=> Kept(q)
    BY <2>3 DEF Kept, KeptBy
  <2>5. \A q \in Tracked :
          /\ q = r => q \in ToSet(inProgressList'[PipeOf[q]])
          /\ q \in ToSet(inProgressList[PipeOf[q]]) => q \in ToSet(inProgressList'[PipeOf[q]])
    <3>1. \A x \in Pipes : ToSet(inProgressList'[x]) =
             IF x = p THEN ToSet(inProgressList[x]) \cup {r} ELSE ToSet(inProgressList[x])
      BY <2>2, <2>3
    <3>2. \A q \in Tracked : PipeOf[q] \in Pipes
      BY DEF Tracked
    <3> HIDE DEF TypeOK
    <3> QED BY <2>1, <3>1, <3>2
  <2>6. \A q \in Requests \ {r} : caller'[q] = caller[q]
    BY <2>3
  <2>7. \A q \in Tracked : caller'[q] = "returned" /\ ~completed'[q]
          => q \in ToSet(inProgressList'[PipeOf[q]]) \/ Kept(q)'
    <3> HIDE DEF Kept, TypeOK
    <3> QED BY <2>3, <2>4, <2>5, <2>6 DEF AbortInv, Tracked
  <2>8. /\ \A t \in Aborters : pc'[t] = "idle" => toWait'[t] = <<>>
        /\ \A t \in Threads : pc'[t] = "list" => completed'[cur'[t]]
        /\ \A q \in aborted' : completed'[q] \/ Kept(q)'
    <3> HIDE DEF Kept
    <3> QED BY <2>3, <2>4 DEF AbortInv
  <2>9. Tracked' = Tracked
    BY DEF Tracked
  <2> HIDE DEF Kept, TypeOK
  <2> QED BY <2>7, <2>8, <2>9 DEF AbortInv
<1>5. CASE WaitUntilCompleted(r)
  BY <1>5 DEF WaitUntilCompleted, AbortInv, Kept, KeptBy
<1> QED BY <1>1, <1>2, <1>3, <1>4, <1>5 DEF SubmitterStep

\* setCompleted(true) sets the flag before it lets go of the request.
LEMMA AbortCompletion ==
    ASSUME TypeOK, AbortInv, NEW t \in Threads, CompletionStep(t)
    PROVE  AbortInv'
<1> USE NoneAssumption, RequestsAssumption, ThreadsAssumption
<1> USE DEF TypeOK, kernelVars, lists, requestVars, threadVars, abortVars, history, Goto, Threads,
            CompletionSteps, HandSteps
<1>1. CASE CompleteUsbIrp(t)
  <2>1. /\ UNCHANGED <<toWait, completed, aborted, inProgressList, caller>>
        /\ pc[t] = "irp" /\ cur[t] \in Requests
        /\ pc' = [pc EXCEPT ![t] = "flag"] /\ cur' = cur
    BY <1>1 DEF CompleteUsbIrp
  <2> QED BY <2>1 DEF AbortInv, Kept, KeptBy
<1>2. CASE SetCompleted(t)
  <2>1. PICK r \in Requests : r = cur[t]
    BY <1>2 DEF SetCompleted
  <2>2. /\ UNCHANGED <<toWait, aborted, inProgressList, caller>>
        /\ completed' = [completed EXCEPT ![r] = TRUE]
        /\ pc[t] = "flag" /\ pc' = [pc EXCEPT ![t] = "list"] /\ cur' = cur
    BY <1>2, <2>1 DEF SetCompleted
  <2>3. /\ \A q \in Requests : completed[q] => completed'[q]
        /\ \A q \in Requests \ {r} : completed'[q] = completed[q]
        /\ \A q \in Requests \ {r} : Kept(q) => Kept(q)'
        /\ completed'[r]
    BY <2>1, <2>2 DEF Kept, KeptBy
  <2>4. \A u \in Threads : pc'[u] = "list" => completed'[cur'[u]]
    BY <2>1, <2>2, <2>3 DEF AbortInv
  <2>5. \A u \in Aborters : pc'[u] = "idle" => toWait'[u] = <<>>
    BY <2>2 DEF AbortInv
  <2> HIDE DEF Kept
  <2> QED BY <2>1, <2>2, <2>3, <2>4, <2>5 DEF AbortInv, Tracked
<1>3. CASE ExecuteCompletion(t)
  <2>1. PICK r \in Requests : r = cur[t]
    BY <1>3 DEF ExecuteCompletion
  <2>2. completed[r] /\ pc[t] = "list"
    BY <1>3, <2>1 DEF ExecuteCompletion, AbortInv
  <2>3. /\ UNCHANGED <<toWait, completed, aborted, caller>>
        /\ pc' = [pc EXCEPT ![t] = ret[t]] /\ cur' = [cur EXCEPT ![t] = None]
        /\ ret[t] \in {"poll", "cancel", "wait"}
    BY <1>3 DEF ExecuteCompletion
  <2>4. \A q \in Tracked : q # r =>
          (q \in ToSet(inProgressList[PipeOf[q]]) => q \in ToSet(inProgressList'[PipeOf[q]]))
    <3>1. \A p \in Pipes :
            ToSet(inProgressList[p]) \subseteq ToSet(RemoveFirst(inProgressList[p], r)) \cup {r}
      BY RemoveFirstElements
    <3>2. inProgressList' = IF r \in Tracked
             THEN [inProgressList EXCEPT ![PipeOf[r]] = RemoveFirst(inProgressList[PipeOf[r]], r)]
             ELSE inProgressList
      BY <1>3, <2>1 DEF ExecuteCompletion
    <3> QED BY <3>1, <3>2 DEF Tracked
  <2>5. \A q \in Requests \ {r} : Kept(q) => Kept(q)'
    BY <2>1, <2>2, <2>3 DEF Kept, KeptBy
  <2>6. \A u \in Threads : pc'[u] = "list" => completed'[cur'[u]]
    BY <2>3 DEF AbortInv
  <2>7. \A u \in Aborters : pc'[u] = "idle" => toWait'[u] = <<>>
    BY <2>3 DEF AbortInv
  <2> HIDE DEF Kept
  <2> QED BY <2>2, <2>3, <2>4, <2>5, <2>6, <2>7 DEF AbortInv, Tracked
<1> QED BY <1>1, <1>2, <1>3 DEF CompletionStep

\* What an abort takes from the list of a pipe it keeps until it is completed.
LEMMA AbortAbort ==
    ASSUME TypeOK, AbortInv, NEW t \in Aborters,
           (\E p \in Pipes : AbortAllSubmissions(t, p)) \/ AbortStep(t)
    PROVE  AbortInv'
<1> USE NoneAssumption, RequestsAssumption, ThreadsAssumption
<1>0. t \in Threads
  BY DEF Threads
<1> USE DEF TypeOK, kernelVars, lists, requestVars, threadVars, abortVars, history, Goto,
            StartCompletion, Threads, HandSteps
<1>1. ASSUME NEW p \in Pipes, AbortAllSubmissions(t, p)
      PROVE  AbortInv'
  <2>1. /\ pc[t] = "idle" /\ toWait[t] = <<>>
        /\ UNCHANGED <<completed, caller>>
        /\ toWait' = [toWait EXCEPT ![t] = inProgressList[p]]
        /\ inProgressList' = [inProgressList EXCEPT ![p] = <<>>]
        /\ aborted' = aborted \cup ToSet(inProgressList[p])
        /\ pc' = [pc EXCEPT ![t] = "cancel"] /\ cur' = [cur EXCEPT ![t] = None]
    BY <1>1 DEF AbortAllSubmissions, AbortInv
  <2>2. ToSet(toWait[t]) = {} /\ ToSet(inProgressList[p]) \subseteq Requests
    BY <2>1, ToSetElements
  <2>3. \A q \in Requests : (Kept(q) => Kept(q)') /\ (q \in ToSet(inProgressList[p]) => Kept(q)')
    BY <2>1, <2>2 DEF Kept, KeptBy
  <2>4. \A u \in Threads : pc'[u] = "list" => completed'[cur'[u]]
    BY <2>1 DEF AbortInv
  <2>5. \A u \in Aborters : pc'[u] = "idle" => toWait'[u] = <<>>
    BY <2>1 DEF AbortInv
  <2> HIDE DEF Kept
  <2> QED BY <2>1, <2>2, <2>3, <2>4, <2>5 DEF AbortInv, Tracked
<1>2. ASSUME UNCHANGED <<toWait, completed, aborted, inProgressList, caller>>,
             \A u \in Aborters \ {t} : pc'[u] = pc[u] /\ cur'[u] = cur[u],
             pc[t] \notin {"expire", "irp", "flag"}, pc'[t] \notin {"list", "idle"},
             pc'[Proxy] = "list" => pc[Proxy] = "list" /\ cur'[Proxy] = cur[Proxy]
      PROVE  AbortInv'
  <2>1. \A q \in Requests : Kept(q) => Kept(q)'
    BY <1>2 DEF Kept, KeptBy
  <2>2. \A u \in Threads : pc'[u] = "list" => completed'[cur'[u]]
    BY <1>2 DEF AbortInv
  <2>3. \A u \in Aborters : pc'[u] = "idle" => toWait'[u] = <<>>
    BY <1>2 DEF AbortInv
  <2> HIDE DEF Kept
  <2> QED BY <1>2, <2>1, <2>2, <2>3 DEF AbortInv, Tracked
<1>3. CASE CancelNext(t)
  BY <1>2, <1>3 DEF CancelNext, PcWithProxy, ProxyRunning
<1>4. CASE CancelSkipped(t)
  BY <1>2, <1>4 DEF CancelSkipped
<1>5. CASE CancelReady(t)
  <2>1. /\ UNCHANGED <<toWait, completed, aborted, inProgressList, caller>>
        /\ pc[t] = "cancelReady"
        /\ pc' = [pc EXCEPT ![t] = "irp"] /\ cur' = [cur EXCEPT ![t] = cur[t]]
    BY <1>5 DEF CancelReady
  <2> QED BY <1>2, <2>1
<1>6. CASE CancelNotReady(t)
  BY <1>2, <1>6 DEF CancelNotReady
<1>7. CASE CancelAdd(t)
  BY <1>2, <1>7 DEF CancelAdd
<1>8. CASE CancelsDone(t)
  BY <1>2, <1>8 DEF CancelsDone
<1>9. ASSUME toWait[t] # <<>> PROVE
          \A q \in Requests : q \in ToSet(toWait[t]) <=> q = Head(toWait[t]) \/ q \in ToSet(Tail(toWait[t]))
  BY <1>9, TailElements
<1>10. CASE AbortedCompleted(t)
  <2>1. /\ UNCHANGED <<pc, cur, completed, aborted, inProgressList, caller>>
        /\ toWait[t] # <<>> /\ completed[Head(toWait[t])] /\ pc[t] = "wait"
        /\ toWait' = [toWait EXCEPT ![t] = Tail(toWait[t])]
    BY <1>10 DEF AbortedCompleted
  <2>2. \A q \in Requests : Kept(q) => completed[q] \/ Kept(q)'
    BY <1>9, <2>1 DEF Kept, KeptBy
  <2>3. \A u \in Aborters : pc'[u] = "idle" => toWait'[u] = <<>>
    BY <2>1 DEF AbortInv
  <2> HIDE DEF Kept
  <2> QED BY <2>1, <2>2, <2>3 DEF AbortInv, Tracked
<1>11. CASE AbortTimeout(t)
  <2>1. /\ UNCHANGED <<completed, aborted, inProgressList, caller>>
        /\ toWait[t] # <<>> /\ pc[t] = "wait"
        /\ toWait' = [toWait EXCEPT ![t] = Tail(toWait[t])]
        /\ pc' = [pc EXCEPT ![t] = "expire"] /\ cur' = [cur EXCEPT ![t] = Head(toWait[t])]
    BY <1>11 DEF AbortTimeout
  <2>2. \A q \in Requests : Kept(q) => Kept(q)'
    BY <1>9, <1>0, <2>1 DEF Kept, KeptBy
  <2>3. \A u \in Threads : pc'[u] = "list" => completed'[cur'[u]]
    BY <2>1 DEF AbortInv
  <2>4. \A u \in Aborters : pc'[u] = "idle" => toWait'[u] = <<>>
    BY <2>1 DEF AbortInv
  <2> HIDE DEF Kept
  <2> QED BY <2>1, <2>2, <2>3, <2>4 DEF AbortInv, Tracked
<1>12. CASE Expire(t)
  <2>1. /\ UNCHANGED <<toWait, completed, aborted, inProgressList, caller>>
        /\ pc[t] = "expire"
        /\ pc' = [pc EXCEPT ![t] = "irp"] /\ cur' = [cur EXCEPT ![t] = cur[t]]
    BY <1>12 DEF Expire
  <2>2. \A q \in Requests : Kept(q) => Kept(q)'
    BY <1>0, <2>1 DEF Kept, KeptBy
  <2>3. \A u \in Threads : pc'[u] = "list" => completed'[cur'[u]]
    BY <2>1 DEF AbortInv
  <2>4. \A u \in Aborters : pc'[u] = "idle" => toWait'[u] = <<>>
    BY <2>1 DEF AbortInv
  <2> HIDE DEF Kept
  <2> QED BY <2>1, <2>2, <2>3, <2>4 DEF AbortInv, Tracked
<1>13. CASE AbortReturn(t)
  <2>1. /\ UNCHANGED <<toWait, completed, aborted, inProgressList, caller>>
        /\ toWait[t] = <<>> /\ pc[t] = "wait"
        /\ pc' = [pc EXCEPT ![t] = "idle"] /\ cur' = [cur EXCEPT ![t] = None]
    BY <1>13 DEF AbortReturn
  <2>2. \A q \in Requests : Kept(q) => Kept(q)'
    BY <2>1 DEF Kept, KeptBy
  <2>3. \A u \in Threads : pc'[u] = "list" => completed'[cur'[u]]
    BY <2>1 DEF AbortInv
  <2>4. \A u \in Aborters : pc'[u] = "idle" => toWait'[u] = <<>>
    BY <2>1 DEF AbortInv
  <2> HIDE DEF Kept
  <2> QED BY <2>1, <2>2, <2>3, <2>4 DEF AbortInv, Tracked
<1>14. CASE CompletionStep(t)
  BY <1>0, <1>14, AbortCompletion
<1> QED BY <1>1, <1>3, <1>4, <1>5, <1>6, <1>7, <1>8, <1>10, <1>11, <1>12, <1>13, <1>14
        DEF AbortStep

\* The proxy thread completes requests, and does nothing else that an abort sees.
LEMMA AbortProxy ==
    ASSUME TypeOK, AbortInv, ProxyStep
    PROVE  AbortInv'
<1> USE NoneAssumption, RequestsAssumption, ThreadsAssumption
<1>0. Proxy \in Threads
  BY DEF Threads
<1>1. CASE CompletionStep(Proxy)
  BY <1>0, <1>1, AbortCompletion
<1>2. ASSUME UNCHANGED <<toWait, completed, aborted, inProgressList, caller>>,
             NEW step, step # "list", NEW r, Goto(Proxy, step, r)
      PROVE  AbortInv'
  BY <1>0, <1>2, AbortQuiet DEF Goto, TypeOK, Threads
<1> USE DEF lists, requestVars, abortVars, history, StartCompletion
<1>3. CASE GetReadyRequest
  <2>1. /\ UNCHANGED <<toWait, completed, aborted, inProgressList, caller>>
        /\ Goto(Proxy, "cancel", None) \/ Goto(Proxy, "submit", Head(readyList))
    BY <1>3, Zenon DEF GetReadyRequest
  <2> QED BY <1>2, <2>1
<1>4. CASE PollSeen \/ PollMissed
  <2>1. /\ UNCHANGED <<toWait, completed, aborted, inProgressList, caller>>
        /\ Goto(Proxy, "ready", None) \/ Goto(Proxy, "reap", None)
    BY <1>4 DEF PollSeen, PollMissed
  <2> QED BY <1>2, <2>1
<1>5. CASE SubmitRequest
  <2>1. /\ UNCHANGED <<toWait, completed, aborted, inProgressList, caller>>
        /\ Goto(Proxy, "cancel", None) \/ Goto(Proxy, "irp", cur[Proxy])
    BY <1>5 DEF SubmitRequest, SubmitRequestUrb, SubmitRequestIoctl, SubmitRequestFails
  <2> QED BY <1>2, <2>1
<1>6. CASE CancelRequest
  <2>1. /\ UNCHANGED <<toWait, completed, aborted, inProgressList, caller>>
        /\ Goto(Proxy, "reap", None)
    BY <1>6, Zenon DEF CancelRequest
  <2> QED BY <1>2, <2>1
<1>7. ASSUME NEW a \in Addrs, CompleteRequest(a) PROVE AbortInv'
  <2>1. /\ UNCHANGED <<toWait, completed, aborted, inProgressList, caller>>
        /\ Goto(Proxy, "irp", urbOwner[a])
    BY <1>7 DEF CompleteRequest
  <2> QED BY <1>2, <2>1
<1>8. CASE ReapNothing \/ ReapNoDevice \/ ProxyExit
  <2>1. /\ UNCHANGED <<toWait, completed, aborted, inProgressList, caller>>
        /\ Goto(Proxy, "poll", None) \/ Goto(Proxy, "exiting", None) \/ Goto(Proxy, "off", None)
    BY <1>8 DEF ReapNothing, ReapNoDevice, ProxyExit
  <2> QED BY <1>2, <2>1
<1> QED BY <1>1, <1>3, <1>4, <1>5, <1>6, <1>7, <1>8 DEF ProxyStep

-----------------------------------------------------------------------------
\* The invariant of aborts holds in every state.
THEOREM AbortInvCorrect == Spec => []AbortInv
<1>1. Init => AbortInv
  <2> SUFFICES ASSUME Init PROVE AbortInv
    OBVIOUS
  <2>1. /\ \A t \in Threads : pc[t] \in {"off", "idle"}
        /\ \A t \in Aborters : toWait[t] = <<>>
        /\ aborted = {}
        /\ \A r \in Requests : caller[r] = "idle"
    BY DEF Init
  <2> QED BY <2>1 DEF AbortInv, Tracked
<1>2. TypeOK /\ AbortInv /\ [Next]_vars => AbortInv'
  <2> SUFFICES ASSUME TypeOK, AbortInv, [Next]_vars PROVE AbortInv'
    OBVIOUS
  <2>1. ASSUME NEW r \in Requests, SubmitterStep(r) PROVE AbortInv'
    BY <2>1, AbortSubmitter
  <2>2. ASSUME NEW t \in Aborters, (\E p \in Pipes : AbortAllSubmissions(t, p)) \/ AbortStep(t)
        PROVE  AbortInv'
    BY <2>2, AbortAbort
  <2>3. CASE ProxyStep
    BY <2>3, AbortProxy
  <2>4. CASE Device \/ UNCHANGED vars
    BY <2>4, AbortQuiet DEF Device, vars, lists, requestVars, threadVars, abortVars, history
  <2> QED BY <2>1, <2>2, <2>3, <2>4 DEF Next
<1> QED BY <1>1, <1>2, TypeCorrect, PTL DEF Spec

\* abortAllSubmissions() lets go of no request that is not completed.
THEOREM AbortedAreCompletedCorrect == Spec => []AbortedAreCompleted
<1>1. AbortInv => AbortedAreCompleted
  BY DEF AbortInv, AbortedAreCompleted, Kept, KeptBy, HeldByAbort
<1> QED BY <1>1, AbortInvCorrect, PTL

\* A request whose submission returned is completed or within reach of an abort.
THEOREM LiveRequestTrackedCorrect == Spec => []LiveRequestTracked
<1>1. AbortInv => LiveRequestTracked
  BY DEF AbortInv, LiveRequestTracked, Kept, KeptBy, HeldByAbort
<1> QED BY <1>1, AbortInvCorrect, PTL

-----------------------------------------------------------------------------
(* A request is completed once, and an abort gives up on it once. *)

\* Thread t may still give up on r.
MayExpire(t, r) ==
    \/ r \in ToSet(toWait[t])
    \/ pc[t] = "expire" /\ cur[t] = r

\* r was not added to the list of its pipe yet.
NotListed(r) == Fresh(r) \/ caller[r] = "submitted"

\* A request is added to the list of its pipe once, and taken from it by one abort,
\* which waits for it once: it is in one of these places, or behind them all.
AbortOnceInv ==
    /\ \A p \in Pipes :
          /\ IsInjective(inProgressList[p])
          /\ \A r \in ToSet(inProgressList[p]) :
                /\ PipeOf[r] = p /\ ~NotListed(r) /\ r \notin expired
                /\ \A t \in Aborters : ~MayExpire(t, r)
    /\ \A t \in Aborters :
          /\ IsInjective(toWait[t])
          /\ pc[t] = "expire" => cur[t] \notin ToSet(toWait[t])
    /\ \A t, u \in Aborters, r \in Requests :
          MayExpire(t, r) => /\ ~NotListed(r) /\ r \notin expired
                             /\ MayExpire(u, r) => t = u
    /\ \A r \in expired : ~NotListed(r)

\* The invariant does not see a step that leaves the lists as they are.
LEMMA AbortOnceQuiet ==
    ASSUME TypeOK, AbortOnceInv, UNCHANGED <<toWait, inProgressList, expired>>,
           \A r \in Requests : NotListed(r)' => NotListed(r),
           \A t \in Aborters : pc'[t] = "expire" => pc[t] = "expire" /\ cur'[t] = cur[t]
    PROVE  AbortOnceInv'
<1>1. \A t \in Aborters, r \in Requests : MayExpire(t, r)' => MayExpire(t, r)
    BY DEF MayExpire
<1>2. \A p \in Pipes : ToSet(inProgressList[p]) \subseteq Requests
    BY ToSetElements DEF TypeOK
<1>3. expired \subseteq Requests
    BY DEF TypeOK
<1> HIDE DEF MayExpire, NotListed
<1> QED BY <1>1, <1>2, <1>3 DEF AbortOnceInv

\* A submitting thread adds its request once.
LEMMA AbortOnceSubmitter ==
    ASSUME TypeOK, AbortOnceInv, NEW r \in Requests, SubmitterStep(r)
    PROVE  AbortOnceInv'
<1> USE NoneAssumption, RequestsAssumption, ThreadsAssumption
<1> USE DEF kernelVars, lists, requestVars, threadVars, abortVars, history
<1>1. CASE GetLinuxDeviceProxy(r)
    BY <1>1, AbortOnceQuiet DEF GetLinuxDeviceProxy, PcWithProxy, ProxyRunning, NotListed, Fresh,
                                TypeOK, Threads
<1>2. CASE RejectSubmission(r)
    BY <1>2, AbortOnceQuiet DEF RejectSubmission, NotListed, Fresh, TypeOK
<1>3. CASE Submit(r)
    BY <1>3, AbortOnceQuiet DEF Submit, NotListed, Fresh, TypeOK
<1>4. CASE AddInProgress(r)
    <2>1. PICK p \in Pipes \cup {None} : p = PipeOf[r]
        OBVIOUS
    <2>2. /\ inProgressList' = [inProgressList EXCEPT ![p] = Append(inProgressList[p], r)]
          /\ caller[r] = "submitted" /\ caller' = [caller EXCEPT ![r] = "returned"]
          /\ UNCHANGED <<toWait, expired, pc, cur>>
        BY <1>4, <2>1 DEF AddInProgress
    <2>3. \A t \in Aborters, q \in Requests : MayExpire(t, q)' <=> MayExpire(t, q)
        BY <2>2 DEF MayExpire
    <2>4. NotListed(r) /\ ~NotListed(r)' /\ \A q \in Requests : NotListed(q)' => NotListed(q)
        BY <2>2 DEF NotListed, Fresh, TypeOK
    <2>5. /\ r \notin expired /\ \A t \in Aborters : ~MayExpire(t, r)
          /\ \A x \in Pipes : r \notin ToSet(inProgressList[x])
        BY <2>4 DEF AbortOnceInv
    <2>6. \A x \in Pipes : /\ inProgressList[x] \in Seq(Requests)
                           /\ ToSet(inProgressList[x]) \subseteq Requests
        BY ToSetElements DEF TypeOK
    <2>7. ASSUME NEW x \in Pipes
          PROVE  /\ IsInjective(inProgressList'[x])
                 /\ \A q \in ToSet(inProgressList'[x]) :
                       /\ PipeOf[q] = x /\ q \in Requests
                       /\ q \in ToSet(inProgressList[x]) \/ q = r
        <3>1. CASE x = p
            <4>1. inProgressList'[x] = Append(inProgressList[x], r)
                BY <2>2, <3>1 DEF TypeOK
            <4>2. /\ ToSet(inProgressList'[x]) = ToSet(inProgressList[x]) \cup {r}
                  /\ IsInjective(inProgressList'[x])
                BY <2>5, <2>6, <4>1, AppendElements DEF AbortOnceInv
            <4> QED BY <2>1, <2>6, <3>1, <4>2 DEF AbortOnceInv
        <3>2. CASE x # p
            <4>1. inProgressList'[x] = inProgressList[x]
                BY <2>2, <3>2 DEF TypeOK
            <4> QED BY <2>6, <4>1 DEF AbortOnceInv
        <3> QED BY <3>1, <3>2
    <2>8. \A t \in Aborters : pc'[t] = pc[t] /\ cur'[t] = cur[t] /\ toWait'[t] = toWait[t]
        BY <2>2
    <2>9. expired' = expired /\ expired \subseteq Requests
        BY <2>2 DEF TypeOK
    <2> HIDE DEF MayExpire, NotListed
    <2> QED BY <2>3, <2>4, <2>5, <2>7, <2>8, <2>9 DEF AbortOnceInv
<1>5. CASE WaitUntilCompleted(r)
    BY <1>5, AbortOnceQuiet DEF WaitUntilCompleted, NotListed, Fresh, TypeOK
<1> QED BY <1>1, <1>2, <1>3, <1>4, <1>5 DEF SubmitterStep

\* setCompleted(true) only takes from the list of the pipe.
LEMMA AbortOnceCompletion ==
    ASSUME TypeOK, AbortOnceInv, NEW t \in Threads, CompletionStep(t)
    PROVE  AbortOnceInv'
<1> USE NoneAssumption, RequestsAssumption, ThreadsAssumption
<1> USE DEF kernelVars, lists, requestVars, threadVars, abortVars, history, Goto, Threads
<1>1. CASE CompleteUsbIrp(t)
    BY <1>1, AbortOnceQuiet DEF CompleteUsbIrp, NotListed, Fresh, TypeOK
<1>2. CASE SetCompleted(t)
    BY <1>2, AbortOnceQuiet DEF SetCompleted, NotListed, Fresh, TypeOK
<1>3. CASE ExecuteCompletion(t)
    <2>1. PICK r \in Requests : r = cur[t]
        BY <1>3 DEF ExecuteCompletion, TypeOK, HandSteps, CompletionSteps
    <2>2. /\ UNCHANGED <<toWait, expired, caller>>
          /\ pc' = [pc EXCEPT ![t] = ret[t]] /\ cur' = [cur EXCEPT ![t] = None]
          /\ ret[t] # "expire"
          /\ inProgressList' = IF r \in Tracked
               THEN [inProgressList EXCEPT ![PipeOf[r]] = RemoveFirst(inProgressList[PipeOf[r]], r)]
               ELSE inProgressList
        BY <1>3, <2>1 DEF ExecuteCompletion, TypeOK
    <2>3. \A x \in Pipes : /\ inProgressList[x] \in Seq(Requests)
                           /\ ToSet(inProgressList[x]) \subseteq Requests
        BY ToSetElements DEF TypeOK
    <2>4. ASSUME NEW x \in Pipes
          PROVE  /\ IsInjective(inProgressList'[x])
                 /\ ToSet(inProgressList'[x]) \subseteq ToSet(inProgressList[x])
        <3>1. \/ inProgressList'[x] = inProgressList[x]
              \/ inProgressList'[x] = RemoveFirst(inProgressList[x], r)
            BY <2>2 DEF TypeOK, Tracked
        <3> QED BY <2>3, <3>1, RemoveFirstElements DEF AbortOnceInv
    <2>5. \A u \in Aborters, q \in Requests : MayExpire(u, q)' => MayExpire(u, q)
        BY <2>2 DEF MayExpire, TypeOK
    <2>6. \A q \in Requests : NotListed(q)' <=> NotListed(q)
        BY <2>2 DEF NotListed, Fresh
    <2>7. \A u \in Aborters : /\ toWait'[u] = toWait[u]
                              /\ pc'[u] = "expire" => pc[u] = "expire" /\ cur'[u] = cur[u]
        BY <2>2 DEF TypeOK
    <2>8. expired' = expired /\ expired \subseteq Requests
        BY <2>2 DEF TypeOK
    <2> HIDE DEF MayExpire, NotListed
    <2> QED BY <2>3, <2>4, <2>5, <2>6, <2>7, <2>8 DEF AbortOnceInv
<1> QED BY <1>1, <1>2, <1>3 DEF CompletionStep

\* An abort takes what is in the list, waits for each request once, and gives up
\* on it at most then.
LEMMA AbortOnceAbort ==
    ASSUME TypeOK, AbortInv, AbortOnceInv, NEW t \in Aborters,
           (\E p \in Pipes : AbortAllSubmissions(t, p)) \/ AbortStep(t)
    PROVE  AbortOnceInv'
<1> USE NoneAssumption, RequestsAssumption, ThreadsAssumption
<1>0. t \in Threads
    BY DEF Threads
<1> USE DEF kernelVars, lists, requestVars, threadVars, abortVars, history, Goto,
            StartCompletion
<1>1. /\ pc \in [Threads -> ProxySteps \cup AbortSteps] /\ cur \in [Threads -> Requests \cup {None}]
      /\ toWait \in [Aborters -> Seq(Requests)] /\ expired \subseteq Requests
      /\ inProgressList \in [Pipes -> Seq(Requests)] /\ Aborters \subseteq Threads
    BY DEF TypeOK, Threads
<1>2. /\ \A p \in Pipes : ToSet(inProgressList[p]) \subseteq Requests
      /\ \A u \in Aborters : ToSet(toWait[u]) \subseteq Requests
    BY <1>1, ToSetElements
<1>3. ASSUME NEW p \in Pipes, AbortAllSubmissions(t, p)
      PROVE  AbortOnceInv'
    <2>1. /\ pc[t] = "idle" /\ UNCHANGED <<caller, expired>>
          /\ toWait' = [toWait EXCEPT ![t] = inProgressList[p]]
          /\ inProgressList' = [inProgressList EXCEPT ![p] = <<>>]
          /\ pc' = [pc EXCEPT ![t] = "cancel"] /\ cur' = [cur EXCEPT ![t] = None]
        BY <1>3 DEF AbortAllSubmissions
    <2>2. ToSet(<<>>) = {} /\ IsInjective(<<>>)
        <3>1. <<>> \in Seq(Requests) /\ DOMAIN <<>> = {}
            BY EmptySeq
        <3> QED BY <3>1, ToSetElements DEF IsInjective
    <2>3. \A u \in Aborters, q \in Requests :
              MayExpire(u, q)' => \/ MayExpire(u, q)
                                  \/ u = t /\ q \in ToSet(inProgressList[p])
        BY <1>1, <2>1 DEF MayExpire
    <2>4. \A q \in Requests : NotListed(q)' <=> NotListed(q)
        BY <2>1 DEF NotListed, Fresh
    <2>5. \A x \in Pipes : inProgressList'[x] = IF x = p THEN <<>> ELSE inProgressList[x]
        BY <1>1, <2>1
    <2>6. \A u \in Aborters : /\ toWait'[u] = IF u = t THEN inProgressList[p] ELSE toWait[u]
                              /\ pc'[u] = "expire" => pc[u] = "expire" /\ cur'[u] = cur[u] /\ u # t
        BY <1>1, <2>1
    <2>7. \A q \in ToSet(inProgressList[p]) :
              q \in Requests /\ PipeOf[q] = p /\ \A u \in Aborters : ~MayExpire(u, q)
        BY <1>2 DEF AbortOnceInv
    <2>8. \A x \in Pipes :
              /\ IsInjective(inProgressList'[x])
              /\ \A r \in ToSet(inProgressList'[x]) :
                    /\ PipeOf[r] = x /\ ~NotListed(r)' /\ r \notin expired'
                    /\ \A u \in Aborters : ~MayExpire(u, r)'
        <3> HIDE DEF MayExpire, NotListed
        <3> QED BY <1>2, <2>1, <2>2, <2>3, <2>4, <2>5, <2>7 DEF AbortOnceInv
    <2>9. \A u \in Aborters :
              /\ IsInjective(toWait'[u])
              /\ pc'[u] = "expire" => cur'[u] \notin ToSet(toWait'[u])
        BY <2>6 DEF AbortOnceInv
    <2>10. \A u, w \in Aborters, q \in Requests :
              MayExpire(u, q)' => /\ ~NotListed(q)' /\ q \notin expired'
                                  /\ MayExpire(w, q)' => u = w
        <3> HIDE DEF MayExpire, NotListed
        <3> QED BY <2>1, <2>3, <2>4, <2>7 DEF AbortOnceInv
    <2>11. \A r \in expired' : ~NotListed(r)'
        <3> HIDE DEF NotListed
        <3> QED BY <1>1, <2>1, <2>4 DEF AbortOnceInv
    <2> QED BY <2>8, <2>9, <2>10, <2>11 DEF AbortOnceInv
<1>4. ASSUME UNCHANGED <<toWait, inProgressList, expired, caller>>,
             \A u \in Aborters \ {t} : pc'[u] = pc[u] /\ cur'[u] = cur[u],
             pc'[t] # "expire"
      PROVE  AbortOnceInv'
    BY <1>4, AbortOnceQuiet DEF NotListed, Fresh
<1>5. CASE CancelNext(t)
    BY <1>1, <1>4, <1>5 DEF CancelNext, PcWithProxy, ProxyRunning
<1>6. CASE CancelSkipped(t)
    BY <1>1, <1>4, <1>6 DEF CancelSkipped
<1>7. CASE CancelReady(t)
    BY <1>1, <1>4, <1>7 DEF CancelReady
<1>8. CASE CancelNotReady(t)
    BY <1>1, <1>4, <1>8 DEF CancelNotReady
<1>9. CASE CancelAdd(t)
    BY <1>1, <1>4, <1>9 DEF CancelAdd
<1>10. CASE CancelsDone(t)
    BY <1>1, <1>4, <1>10 DEF CancelsDone
<1>11. CASE AbortReturn(t)
    BY <1>1, <1>4, <1>11 DEF AbortReturn
<1>12. ASSUME toWait[t] # <<>>
       PROVE  /\ Head(toWait[t]) \in Requests
              /\ Head(toWait[t]) \in ToSet(toWait[t]) /\ Head(toWait[t]) \notin ToSet(Tail(toWait[t]))
              /\ ToSet(Tail(toWait[t])) \subseteq ToSet(toWait[t]) /\ IsInjective(Tail(toWait[t]))
    BY <1>1, <1>12, TailElements DEF AbortOnceInv
<1>13. ASSUME toWait[t] # <<>>, pc[t] # "expire", UNCHANGED <<inProgressList, expired, caller>>,
              toWait' = [toWait EXCEPT ![t] = Tail(toWait[t])],
              \A u \in Aborters \ {t} : pc'[u] = pc[u] /\ cur'[u] = cur[u],
              pc'[t] = "expire" => cur'[t] = Head(toWait[t])
       PROVE  AbortOnceInv'
    <2>1. \A u \in Aborters, q \in Requests : MayExpire(u, q)' => MayExpire(u, q)
        BY <1>1, <1>12, <1>13 DEF MayExpire
    <2>2. \A q \in Requests : NotListed(q)' <=> NotListed(q)
        BY <1>13 DEF NotListed, Fresh
    <2>3. \A u \in Aborters :
              /\ IsInjective(toWait'[u])
              /\ pc'[u] = "expire" => cur'[u] \notin ToSet(toWait'[u])
        BY <1>1, <1>12, <1>13 DEF AbortOnceInv
    <2> HIDE DEF MayExpire, NotListed
    <2> QED BY <1>1, <1>2, <1>13, <2>1, <2>2, <2>3 DEF AbortOnceInv
<1>14. CASE AbortedCompleted(t)
    BY <1>1, <1>13, <1>14 DEF AbortedCompleted
<1>15. CASE AbortTimeout(t)
    <2>1. /\ toWait[t] # <<>> /\ pc[t] = "wait" /\ UNCHANGED <<inProgressList, expired, caller>>
          /\ toWait' = [toWait EXCEPT ![t] = Tail(toWait[t])]
          /\ pc' = [pc EXCEPT ![t] = "expire"] /\ cur' = [cur EXCEPT ![t] = Head(toWait[t])]
        BY <1>15 DEF AbortTimeout
    <2> QED BY <1>0, <1>1, <1>13, <2>1
<1>16. CASE Expire(t)
    <2>1. PICK r \in Requests : r = cur[t]
        BY <1>0, <1>16 DEF Expire, TypeOK, HandSteps
    <2>2. /\ pc[t] = "expire" /\ UNCHANGED <<inProgressList, toWait, caller>>
          /\ expired' = expired \cup {r}
          /\ pc' = [pc EXCEPT ![t] = "irp"] /\ cur' = [cur EXCEPT ![t] = r]
        BY <1>16, <2>1 DEF Expire
    <2>3. MayExpire(t, r) /\ ~MayExpire(t, r)'
        BY <1>0, <1>1, <2>1, <2>2 DEF MayExpire, AbortOnceInv
    <2>4. \A u \in Aborters, q \in Requests : MayExpire(u, q)' => MayExpire(u, q)
        BY <1>1, <2>2 DEF MayExpire
    <2>5. \A q \in Requests : NotListed(q)' <=> NotListed(q)
        BY <2>2 DEF NotListed, Fresh
    <2>6. \A u \in Aborters : /\ toWait'[u] = toWait[u]
                              /\ pc'[u] = "expire" => pc[u] = "expire" /\ cur'[u] = cur[u]
        BY <1>1, <2>2
    <2>7. \A u \in Aborters : ~MayExpire(u, r)'
        <3> HIDE DEF MayExpire
        <3> QED BY <2>3, <2>4 DEF AbortOnceInv
    <2>8. ~NotListed(r) /\ \A p \in Pipes : r \notin ToSet(inProgressList[p])
        <3> HIDE DEF MayExpire
        <3> QED BY <2>3 DEF AbortOnceInv
    <2> HIDE DEF MayExpire, NotListed
    <2> QED BY <1>1, <1>2, <2>2, <2>4, <2>5, <2>6, <2>7, <2>8 DEF AbortOnceInv
<1>17. CASE CompletionStep(t)
    BY <1>0, <1>17, AbortOnceCompletion
<1> QED BY <1>3, <1>5, <1>6, <1>7, <1>8, <1>9, <1>10, <1>11, <1>14, <1>15, <1>16, <1>17
        DEF AbortStep

\* The proxy thread gives up on nothing.
LEMMA AbortOnceProxy ==
    ASSUME TypeOK, AbortOnceInv, ProxyStep
    PROVE  AbortOnceInv'
<1> USE NoneAssumption, RequestsAssumption, ThreadsAssumption
<1>0. Proxy \in Threads
    BY DEF Threads
<1>1. CASE CompletionStep(Proxy)
    BY <1>0, <1>1, AbortOnceCompletion
<1>2. ASSUME UNCHANGED <<toWait, inProgressList, expired, caller>>, NEW step, NEW r,
             Goto(Proxy, step, r)
      PROVE  AbortOnceInv'
    BY <1>0, <1>2, AbortOnceQuiet DEF Goto, TypeOK, Threads, NotListed, Fresh
<1> USE DEF lists, requestVars, abortVars, history, StartCompletion
<1>3. CASE GetReadyRequest
    <2>1. /\ UNCHANGED <<toWait, inProgressList, expired, caller>>
          /\ Goto(Proxy, "cancel", None) \/ Goto(Proxy, "submit", Head(readyList))
        BY <1>3, Zenon DEF GetReadyRequest
    <2> QED BY <1>2, <2>1
<1>4. CASE PollSeen \/ PollMissed
    <2>1. /\ UNCHANGED <<toWait, inProgressList, expired, caller>>
          /\ Goto(Proxy, "ready", None) \/ Goto(Proxy, "reap", None)
        BY <1>4 DEF PollSeen, PollMissed
    <2> QED BY <1>2, <2>1
<1>5. CASE SubmitRequest
    <2>1. /\ UNCHANGED <<toWait, inProgressList, expired, caller>>
          /\ Goto(Proxy, "cancel", None) \/ Goto(Proxy, "irp", cur[Proxy])
        BY <1>5 DEF SubmitRequest, SubmitRequestUrb, SubmitRequestIoctl, SubmitRequestFails
    <2> QED BY <1>2, <2>1
<1>6. CASE CancelRequest
    <2>1. /\ UNCHANGED <<toWait, inProgressList, expired, caller>>
          /\ Goto(Proxy, "reap", None)
        BY <1>6, Zenon DEF CancelRequest
    <2> QED BY <1>2, <2>1
<1>7. ASSUME NEW a \in Addrs, CompleteRequest(a) PROVE AbortOnceInv'
    <2>1. /\ UNCHANGED <<toWait, inProgressList, expired, caller>>
          /\ Goto(Proxy, "irp", urbOwner[a])
        BY <1>7 DEF CompleteRequest
    <2> QED BY <1>2, <2>1
<1>8. CASE ReapNothing \/ ReapNoDevice \/ ProxyExit
    <2>1. /\ UNCHANGED <<toWait, inProgressList, expired, caller>>
          /\ Goto(Proxy, "poll", None) \/ Goto(Proxy, "exiting", None) \/ Goto(Proxy, "off", None)
        BY <1>8 DEF ReapNothing, ReapNoDevice, ProxyExit
    <2> QED BY <1>2, <2>1
<1> QED BY <1>1, <1>3, <1>4, <1>5, <1>6, <1>7, <1>8 DEF ProxyStep


\* A request in the queue, with the proxy or in the kernel is still to be completed.
ServedLater(r) == Fresh(r) \/ Outstanding(r)

Completing(t, r) == pc[t] = "irp" /\ cur[t] = r

\* The completion thread t is about to make is that of an abort that gave up.
GaveUp(t) == ret[t] = "wait"

\* The two completions a request may have coming: one at the end of its way through
\* the queue, and one by an abort that gave up on it.
Due(r) == ServedLater(r) \/ \E t \in Threads : Completing(t, r) /\ ~GaveUp(t)
DueAgain(r) == \E t \in Threads : Completing(t, r) /\ GaveUp(t)

One(b) == IF b THEN 1 ELSE 0

\* Each of the two is in one place, and the second there only after the abort gave up.
OnceInv ==
    /\ \A r \in Requests, t \in Threads : Completing(t, r) =>
          /\ ServedLater(r) => GaveUp(t)
          /\ GaveUp(t) => r \in expired
          /\ \A u \in Threads : Completing(u, r) /\ (GaveUp(u) <=> GaveUp(t)) => u = t
    /\ \A r \in Requests :
          completions[r] + One(Due(r)) + One(DueAgain(r)) <= 1 + One(r \in expired)

\* The invariant does not see a step that begins no completion and makes none.
LEMMA OnceQuiet ==
    ASSUME OnceInv, TypeOK, UNCHANGED <<completions, expired>>,
           \A r \in Requests : ServedLater(r)' => ServedLater(r),
           \A t \in Threads : pc'[t] = "irp" =>
               pc[t] = "irp" /\ cur'[t] = cur[t] /\ ret'[t] = ret[t]
    PROVE  OnceInv'
<1>1. \A t \in Threads, r \in Requests :
          Completing(t, r)' => Completing(t, r) /\ (GaveUp(t)' <=> GaveUp(t))
    BY DEF Completing, GaveUp
<1>2. \A r \in Requests : (Due(r)' => Due(r)) /\ (DueAgain(r)' => DueAgain(r))
    <2> HIDE DEF ServedLater, Completing, GaveUp
    <2> QED BY <1>1 DEF Due, DueAgain
<1>3. ASSUME NEW r \in Requests
      PROVE  completions'[r] + One(Due(r)') + One(DueAgain(r)') <= 1 + One(r \in expired')
    <2>1. completions[r] \in Nat
        BY DEF TypeOK
    <2> HIDE DEF Due, DueAgain
    <2> QED BY <1>2, <2>1 DEF OnceInv, One
<1>4. ASSUME NEW r \in Requests, NEW t \in Threads, Completing(t, r)'
      PROVE  /\ ServedLater(r)' => GaveUp(t)'
             /\ GaveUp(t)' => r \in expired'
             /\ \A u \in Threads : Completing(u, r)' /\ (GaveUp(u)' <=> GaveUp(t)') => u = t
    <2> HIDE DEF ServedLater, Completing, GaveUp
    <2> QED BY <1>1, <1>4 DEF OnceInv
<1> QED BY <1>3, <1>4 DEF OnceInv

\* The completion at the end of the way of r begins: r leaves the last place on it.
LEMMA OnceStart ==
    ASSUME OnceInv, TypeOK, UNCHANGED <<completions, expired>>,
           NEW t \in Threads, NEW r \in Requests, NEW after, after # "wait",
           pc[t] # "irp", StartCompletion(t, r, after),
           ServedLater(r), ~ServedLater(r)',
           \A q \in Requests : ServedLater(q)' => ServedLater(q)
    PROVE  OnceInv'
<1>1. /\ pc' = [pc EXCEPT ![t] = "irp"] /\ cur' = [cur EXCEPT ![t] = r]
      /\ ret' = [ret EXCEPT ![t] = after]
      /\ pc \in [Threads -> ProxySteps \cup AbortSteps] /\ cur \in [Threads -> Requests \cup {None}]
      /\ ret \in [Threads -> {"poll", "cancel", "wait", "none"}]
    BY DEF StartCompletion, Goto, TypeOK
<1>2. /\ Completing(t, r)' /\ ~GaveUp(t)' /\ \A q \in Requests : Completing(t, q)' => q = r
      /\ \A u \in Threads \ {t}, q \in Requests :
            (Completing(u, q)' <=> Completing(u, q)) /\ (GaveUp(u)' <=> GaveUp(u))
      /\ \A q \in Requests : ~Completing(t, q)
    BY <1>1 DEF Completing, GaveUp
<1>3. \A u \in Threads : Completing(u, r) => GaveUp(u)
    <2> HIDE DEF ServedLater, Completing, GaveUp
    <2> QED BY DEF OnceInv
<1>4. \A q \in Requests : (Due(q)' => Due(q)) /\ (DueAgain(q)' => DueAgain(q))
    <2> HIDE DEF ServedLater, Completing, GaveUp
    <2> QED BY <1>2 DEF Due, DueAgain
<1>5. ASSUME NEW q \in Requests
      PROVE  completions'[q] + One(Due(q)') + One(DueAgain(q)') <= 1 + One(q \in expired')
    <2>1. completions[q] \in Nat
        BY DEF TypeOK
    <2> HIDE DEF Due, DueAgain
    <2> QED BY <1>4, <2>1 DEF OnceInv, One
<1>6. ASSUME NEW q \in Requests, NEW u \in Threads, Completing(u, q)'
      PROVE  /\ ServedLater(q)' => GaveUp(u)'
             /\ GaveUp(u)' => q \in expired'
             /\ \A w \in Threads : Completing(w, q)' /\ (GaveUp(w)' <=> GaveUp(u)') => w = u
    <2> HIDE DEF ServedLater, Completing, GaveUp
    <2>1. CASE u = t
        <3>1. q = r
            BY <1>2, <1>6, <2>1
        <3> QED BY <1>2, <1>3, <2>1, <3>1
    <2>2. CASE u # t
        <3>1. Completing(u, q) /\ (GaveUp(u)' <=> GaveUp(u))
            BY <1>2, <1>6, <2>2
        <3>2. Completing(t, q)' => GaveUp(u) /\ ~GaveUp(t)'
            BY <1>2, <1>3, <3>1
        <3> QED BY <1>2, <2>2, <3>1, <3>2 DEF OnceInv
    <2> QED BY <2>1, <2>2
<1> QED BY <1>5, <1>6 DEF OnceInv

\* setCompleted(true) makes the completion that was due.
LEMMA OnceCompletion ==
    ASSUME IndInv, OnceInv, NEW t \in Threads, CompletionStep(t)
    PROVE  OnceInv'
<1> USE NoneAssumption, RequestsAssumption, ThreadsAssumption
<1>1. TypeOK /\ pc \in [Threads -> ProxySteps \cup AbortSteps]
      /\ cur \in [Threads -> Requests \cup {None}]
    BY DEF IndInv, TypeOK
<1>2. ASSUME UNCHANGED <<readyList, kernelVars, caller>>,
             pc'[Proxy] = "submit" => pc[Proxy] = "submit" /\ cur'[Proxy] = cur[Proxy]
      PROVE  \A r \in Requests : ServedLater(r)' => ServedLater(r)
    BY <1>2 DEF ServedLater, Fresh, Outstanding, UrbsOf, kernelVars
<1>3. CASE CompleteUsbIrp(t)
    <2>1. PICK r \in Requests : r = cur[t]
        BY <1>1, <1>3 DEF CompleteUsbIrp, TypeOK, HandSteps, CompletionSteps
    <2>2. /\ pc[t] = "irp" /\ UNCHANGED <<readyList, kernelVars, caller, ret, expired>>
          /\ pc' = [pc EXCEPT ![t] = "flag"] /\ cur' = [cur EXCEPT ![t] = r]
          /\ completions' = [completions EXCEPT ![r] = completions[r] + 1]
        BY <1>3, <2>1 DEF CompleteUsbIrp, Goto, lists
    <2>3. \A q \in Requests : ServedLater(q)' => ServedLater(q)
        BY <1>1, <1>2, <2>2 DEF Threads
    <2>4. /\ Completing(t, r) /\ \A q \in Requests : ~Completing(t, q)'
          /\ \A q \in Requests \ {r} : ~Completing(t, q)
          /\ \A u \in Threads \ {t}, q \in Requests : Completing(u, q)' <=> Completing(u, q)
          /\ \A u \in Threads : GaveUp(u)' <=> GaveUp(u)
        BY <1>1, <2>1, <2>2 DEF Completing, GaveUp
    <2> HIDE DEF ServedLater, Completing, GaveUp
    <2>5. \A q \in Requests : (Due(q)' => Due(q)) /\ (DueAgain(q)' => DueAgain(q))
        BY <2>3, <2>4 DEF Due, DueAgain
    <2>6. IF GaveUp(t) THEN DueAgain(r) /\ ~DueAgain(r)' ELSE Due(r) /\ ~Due(r)'
        BY <2>3, <2>4 DEF Due, DueAgain, OnceInv
    <2>7. ASSUME NEW q \in Requests
          PROVE  completions'[q] + One(Due(q)') + One(DueAgain(q)') <= 1 + One(q \in expired')
        <3>1. completions[q] \in Nat /\ completions'[q] = completions[q] + One(q = r)
            BY <1>1, <2>2 DEF TypeOK, One
        <3>2. expired' = expired
            BY <2>2
        <3> HIDE DEF Due, DueAgain
        <3>3. CASE q = r
            BY <2>5, <2>6, <3>1, <3>2, <3>3 DEF OnceInv, One
        <3>4. CASE q # r
            BY <2>5, <3>1, <3>2, <3>4 DEF OnceInv, One
        <3> QED BY <3>3, <3>4
    <2>8. ASSUME NEW q \in Requests, NEW u \in Threads, Completing(u, q)'
          PROVE  /\ ServedLater(q)' => GaveUp(u)'
                 /\ GaveUp(u)' => q \in expired'
                 /\ \A w \in Threads : Completing(w, q)' /\ (GaveUp(w)' <=> GaveUp(u)') => w = u
        BY <2>2, <2>3, <2>4, <2>8 DEF OnceInv
    <2> QED BY <2>7, <2>8 DEF OnceInv
<1>4. ASSUME UNCHANGED <<readyList, kernelVars, caller, completions, expired>>,
             \A u \in Threads \ {t} : pc'[u] = pc[u] /\ cur'[u] = cur[u] /\ ret'[u] = ret[u],
             pc'[t] \notin {"irp", "submit"}
      PROVE  OnceInv'
    BY <1>1, <1>2, <1>4, OnceQuiet DEF Threads
<1>5. CASE SetCompleted(t)
    BY <1>1, <1>4, <1>5 DEF SetCompleted, Goto, lists, history
<1>6. CASE ExecuteCompletion(t)
    <2>1. /\ UNCHANGED <<readyList, kernelVars, caller, completions, expired>>
          /\ pc' = [pc EXCEPT ![t] = ret[t]] /\ cur' = [cur EXCEPT ![t] = None]
          /\ ret' = [ret EXCEPT ![t] = "none"]
        BY <1>6 DEF ExecuteCompletion, Goto, history
    <2>2. ret[t] \notin {"irp", "submit"} /\ ret \in [Threads -> {"poll", "cancel", "wait", "none"}]
        BY <1>1 DEF TypeOK
    <2> QED BY <1>1, <1>4, <2>1, <2>2
<1> QED BY <1>3, <1>5, <1>6 DEF CompletionStep


\* A request is submitted once.
LEMMA OnceSubmitter ==
    ASSUME IndInv, OnceInv, NEW r \in Requests, SubmitterStep(r)
    PROVE  OnceInv'
<1> USE NoneAssumption, RequestsAssumption, ThreadsAssumption
<1>1. TypeOK /\ readyList \in Seq(Requests) /\ caller \in [Requests -> CallerStates]
      /\ pc \in [Threads -> ProxySteps \cup AbortSteps]
    BY DEF IndInv, TypeOK
<1> USE DEF kernelVars, lists, requestVars, threadVars, abortVars, history
<1>2. UNCHANGED <<completions, expired, cur, ret, kernelVars>>
    BY DEF SubmitterStep, GetLinuxDeviceProxy, RejectSubmission, Submit, AddInProgress,
           WaitUntilCompleted
<1>3. \A t \in Threads : pc'[t] \in {"irp", "submit"} => pc'[t] = pc[t]
    BY <1>1 DEF SubmitterStep, GetLinuxDeviceProxy, PcWithProxy, ProxyRunning, RejectSubmission,
                Submit, AddInProgress, WaitUntilCompleted, Threads
<1>4. /\ \A q \in Requests : Fresh(q)' => Fresh(q)
      /\ \A q \in ToSet(readyList') : q \in ToSet(readyList) \/ Fresh(q)
    <2>1. CASE Submit(r)
        <3>1. ToSet(Append(readyList, r)) = ToSet(readyList) \cup {r}
            BY <1>1, AppendElements
        <3> QED BY <1>1, <2>1, <3>1 DEF Submit, Fresh
    <2>2. CASE ~Submit(r)
        BY <1>1, <2>2 DEF SubmitterStep, GetLinuxDeviceProxy, RejectSubmission, AddInProgress,
                          WaitUntilCompleted, Fresh
    <2> QED BY <2>1, <2>2
<1>5. \A q \in Requests : ServedLater(q)' => ServedLater(q)
    BY <1>2, <1>3, <1>4 DEF ServedLater, Outstanding, UrbsOf, Threads
<1> QED BY <1>1, <1>2, <1>3, <1>5, OnceQuiet

\* A cancelled request was in readyList, the only place it could be; an abort that
\* gives up on a request does so for the first time.
LEMMA OnceAbort ==
    ASSUME IndInv, AbortOnceInv, OnceInv, NEW t \in Aborters,
           (\E p \in Pipes : AbortAllSubmissions(t, p)) \/ AbortStep(t)
    PROVE  OnceInv'
<1> USE NoneAssumption, RequestsAssumption, ThreadsAssumption
<1>0. t \in Threads /\ t # Proxy /\ Proxy \in Threads
    BY DEF Threads
<1>1. TypeOK /\ readyList \in Seq(Requests) /\ toCancel \in [Aborters -> Seq(Requests)]
      /\ pc \in [Threads -> ProxySteps \cup AbortSteps]
      /\ cur \in [Threads -> Requests \cup {None}]
      /\ ret \in [Threads -> {"poll", "cancel", "wait", "none"}]
    BY DEF IndInv, TypeOK
<1> USE DEF lists, requestVars, threadVars, abortVars, history, Goto
<1>2. ASSUME UNCHANGED <<readyList, kernelVars, caller>>,
             pc'[Proxy] = "submit" => pc[Proxy] = "submit" /\ cur'[Proxy] = cur[Proxy]
      PROVE  \A r \in Requests : ServedLater(r)' => ServedLater(r)
    BY <1>2 DEF ServedLater, Fresh, Outstanding, UrbsOf, kernelVars
<1>3. ASSUME UNCHANGED <<readyList, kernelVars, caller, completions, expired, ret>>,
             \A u \in Threads \ {t} : /\ pc'[u] \in {"irp", "submit"} => pc'[u] = pc[u]
                                      /\ cur'[u] = cur[u],
             pc'[t] # "irp"
      PROVE  OnceInv'
    BY <1>0, <1>1, <1>2, <1>3, OnceQuiet
<1>4. ASSUME NEW p \in Pipes, AbortAllSubmissions(t, p) PROVE OnceInv'
    BY <1>0, <1>1, <1>3, <1>4 DEF AbortAllSubmissions
<1>5. CASE CancelNext(t)
    <2>1. /\ UNCHANGED <<readyList, kernelVars, caller, completions, expired, ret>>
          /\ pc' = [PcWithProxy EXCEPT ![t] = "cancelReady"]
          /\ cur' = [cur EXCEPT ![t] = Head(toCancel[t])]
        BY <1>5 DEF CancelNext
    <2> QED BY <1>0, <1>1, <1>3, <2>1 DEF PcWithProxy, ProxyRunning
<1>6. CASE CancelSkipped(t)
    BY <1>0, <1>1, <1>3, <1>6 DEF CancelSkipped
<1>7. CASE CancelReady(t)
    <2>1. PICK r \in Requests : r = cur[t]
        BY <1>1, <1>0, <1>7 DEF CancelReady, TypeOK, HandSteps
    <2>2. /\ pc[t] = "cancelReady" /\ StartCompletion(t, r, "cancel")
          /\ Contains(readyList, r) /\ readyList' = RemoveFirst(readyList, r)
          /\ UNCHANGED <<kernelVars, caller, urbAddress, completions, expired>>
        BY <1>7, <2>1 DEF CancelReady
    <2>3. /\ r \in ToSet(readyList) /\ r \notin ToSet(readyList')
          /\ ToSet(readyList') \subseteq ToSet(readyList)
        BY <1>1, <2>2, RemoveFirstElements, ToSetElements DEF IndInv, ReadyHasNoUrb, Contains
    <2>4. ServedLater(r) /\ ~Fresh(r)
        BY <2>3 DEF ServedLater, Outstanding, IndInv, FreshUnknown
    <2>5. urbAddress[r] = None /\ ~(pc[Proxy] = "submit" /\ cur[Proxy] = r)
        BY <2>3 DEF IndInv, ReadyHasNoUrb
    <2>6. UrbsOf(r) = {}
        BY <2>5 DEF UrbsOf, IndInv, UrbAccounting
    <2>7. pc'[Proxy] = pc[Proxy] /\ cur'[Proxy] = cur[Proxy]
        BY <1>0, <1>1, <2>2 DEF StartCompletion
    <2>8. /\ \A q \in Requests : UrbsOf(q)' = UrbsOf(q) /\ (Fresh(q)' <=> Fresh(q))
        BY <2>2 DEF UrbsOf, Fresh, kernelVars
    <2>9. ~ServedLater(r)' /\ \A q \in Requests : ServedLater(q)' => ServedLater(q)
        <3> HIDE DEF UrbsOf, Fresh
        <3> QED BY <2>3, <2>4, <2>5, <2>6, <2>7, <2>8 DEF ServedLater, Outstanding
    <2> HIDE DEF Goto
    <2> QED BY <1>0, <1>1, <2>2, <2>4, <2>9, OnceStart
<1>8. CASE CancelNotReady(t)
    BY <1>0, <1>1, <1>3, <1>8 DEF CancelNotReady
<1>9. CASE CancelAdd(t)
    BY <1>0, <1>1, <1>3, <1>9 DEF CancelAdd
<1>10. CASE CancelsDone(t)
    BY <1>0, <1>1, <1>3, <1>10 DEF CancelsDone
<1>11. CASE AbortedCompleted(t)
    BY <1>0, <1>1, <1>3, <1>11 DEF AbortedCompleted
<1>12. CASE AbortTimeout(t)
    BY <1>0, <1>1, <1>3, <1>12 DEF AbortTimeout
<1>13. CASE Expire(t)
    <2>1. PICK r \in Requests : r = cur[t]
        BY <1>0, <1>1, <1>13 DEF Expire, TypeOK, HandSteps
    <2>2. /\ pc[t] = "expire" /\ UNCHANGED <<readyList, kernelVars, caller, completions>>
          /\ expired' = expired \cup {r}
          /\ pc' = [pc EXCEPT ![t] = "irp"] /\ cur' = [cur EXCEPT ![t] = r]
          /\ ret' = [ret EXCEPT ![t] = "wait"]
        BY <1>13, <2>1 DEF Expire, StartCompletion
    <2>3. r \notin expired
        BY <2>1, <2>2 DEF AbortOnceInv, MayExpire
    <2>4. \A q \in Requests : ServedLater(q)' => ServedLater(q)
        BY <1>0, <1>1, <1>2, <2>2
    <2>5. /\ Completing(t, r)' /\ GaveUp(t)' /\ \A q \in Requests : Completing(t, q)' => q = r
          /\ \A u \in Threads \ {t}, q \in Requests :
                (Completing(u, q)' <=> Completing(u, q)) /\ (GaveUp(u)' <=> GaveUp(u))
          /\ \A q \in Requests : ~Completing(t, q)
        BY <1>0, <1>1, <2>2 DEF Completing, GaveUp
    <2> HIDE DEF ServedLater, Completing, GaveUp
    <2>6. \A u \in Threads : Completing(u, r) => ~GaveUp(u)
        BY <2>3 DEF OnceInv
    <2>7. /\ \A q \in Requests : Due(q)' => Due(q)
          /\ \A q \in Requests \ {r} : DueAgain(q)' => DueAgain(q)
          /\ ~DueAgain(r)
        BY <2>4, <2>5, <2>6 DEF Due, DueAgain
    <2>8. ASSUME NEW q \in Requests
          PROVE  completions'[q] + One(Due(q)') + One(DueAgain(q)') <= 1 + One(q \in expired')
        <3>1. completions[q] \in Nat /\ completions'[q] = completions[q]
            BY <1>1, <2>2 DEF TypeOK
        <3> HIDE DEF Due, DueAgain
        <3>2. CASE q = r
            BY <2>2, <2>3, <2>7, <3>1, <3>2 DEF OnceInv, One
        <3>3. CASE q # r
            BY <2>2, <2>7, <3>1, <3>3 DEF OnceInv, One
        <3> QED BY <3>2, <3>3
    <2>9. ASSUME NEW q \in Requests, NEW u \in Threads, Completing(u, q)'
          PROVE  /\ ServedLater(q)' => GaveUp(u)'
                 /\ GaveUp(u)' => q \in expired'
                 /\ \A w \in Threads : Completing(w, q)' /\ (GaveUp(w)' <=> GaveUp(u)') => w = u
        <3>1. CASE u = t
            <4>1. q = r
                BY <2>5, <2>9, <3>1
            <4> QED BY <2>2, <2>5, <2>6, <3>1, <4>1
        <3>2. CASE u # t
            <4>1. Completing(u, q) /\ (GaveUp(u)' <=> GaveUp(u))
                BY <2>5, <2>9, <3>2
            <4>2. Completing(t, q)' => ~GaveUp(u) /\ GaveUp(t)'
                BY <2>5, <2>6, <4>1
            <4> QED BY <2>2, <2>4, <2>5, <3>2, <4>1, <4>2 DEF OnceInv
        <3> QED BY <3>1, <3>2
    <2> QED BY <2>8, <2>9 DEF OnceInv
<1>14. CASE AbortReturn(t)
    BY <1>0, <1>1, <1>3, <1>14 DEF AbortReturn
<1>15. CASE CompletionStep(t)
    BY <1>0, <1>15, OnceCompletion
<1> QED BY <1>4, <1>5, <1>6, <1>7, <1>8, <1>9, <1>10, <1>11, <1>12, <1>13, <1>14, <1>15
        DEF AbortStep

\* The proxy thread begins to complete what it submitted in vain or with one ioctl(),
\* and what it reaped: that request is nowhere else.
LEMMA OnceProxy ==
    ASSUME IndInv, OnceInv, ProxyStep
    PROVE  OnceInv'
<1> USE NoneAssumption, RequestsAssumption, ThreadsAssumption
<1>0. Proxy \in Threads
    BY DEF Threads
<1>1. TypeOK /\ readyList \in Seq(Requests)
      /\ pc \in [Threads -> ProxySteps \cup AbortSteps]
      /\ cur \in [Threads -> Requests \cup {None}]
      /\ ret \in [Threads -> {"poll", "cancel", "wait", "none"}]
    BY DEF IndInv, TypeOK
<1>2. CASE CompletionStep(Proxy)
    BY <1>0, <1>2, OnceCompletion
<1>3. ASSUME NEW step, step # "irp", NEW r, Goto(Proxy, step, r),
             UNCHANGED <<ret, completions, expired>>,
             \A q \in Requests : ServedLater(q)' => ServedLater(q)
      PROVE  OnceInv'
    BY <1>0, <1>1, <1>3, OnceQuiet DEF Goto
<1>4. ASSUME NEW step, step \notin {"irp", "submit"}, NEW r, Goto(Proxy, step, r),
             UNCHANGED <<ret, completions, expired, readyList, caller>>,
             \A q \in Requests : UrbsOf(q)' \subseteq UrbsOf(q)
      PROVE  OnceInv'
    <2>1. \A q \in Requests : ServedLater(q)' => ServedLater(q)
        <3>1. pc'[Proxy] # "submit"
            BY <1>0, <1>1, <1>4 DEF Goto
        <3> HIDE DEF UrbsOf
        <3> QED BY <1>4, <3>1 DEF ServedLater, Outstanding, Fresh
    <2> QED BY <1>3, <1>4, <2>1
<1>5. ASSUME UNCHANGED kernelVars
      PROVE  \A q \in Requests : UrbsOf(q)' \subseteq UrbsOf(q)
    BY <1>5 DEF UrbsOf, kernelVars
<1> USE DEF lists, requestVars, abortVars, history
<1>6. CASE PollSeen \/ PollMissed
    <2>1. /\ UNCHANGED <<ret, completions, expired, readyList, caller, kernelVars>>
          /\ Goto(Proxy, "ready", None) \/ Goto(Proxy, "reap", None)
        BY <1>6 DEF PollSeen, PollMissed
    <2> QED BY <1>4, <1>5, <2>1
<1>7. CASE GetReadyRequest
    <2>1. /\ UNCHANGED <<ret, completions, expired, caller, kernelVars>>
          /\ \/ Goto(Proxy, "cancel", None) /\ readyList' = readyList
             \/ /\ readyList # <<>> /\ Goto(Proxy, "submit", Head(readyList))
                /\ readyList' = Tail(readyList)
        BY <1>7, Zenon DEF GetReadyRequest
    <2>2. CASE Goto(Proxy, "cancel", None) /\ readyList' = readyList
        BY <1>4, <1>5, <2>1, <2>2
    <2>3. CASE /\ readyList # <<>> /\ Goto(Proxy, "submit", Head(readyList))
               /\ readyList' = Tail(readyList)
        <3>1. /\ Head(readyList) \in ToSet(readyList) /\ Head(readyList) \in Requests
              /\ ToSet(Tail(readyList)) \subseteq ToSet(readyList)
            BY <1>1, <2>3, TailElements
        <3>2. cur'[Proxy] = Head(readyList)
            BY <1>0, <1>1, <2>3 DEF Goto
        <3>3. \A q \in Requests : ServedLater(q)' => ServedLater(q)
            <4>1. \A q \in Requests : UrbsOf(q)' = UrbsOf(q) /\ (Fresh(q)' <=> Fresh(q))
                BY <2>1 DEF UrbsOf, Fresh, kernelVars
            <4> HIDE DEF UrbsOf, Fresh
            <4> QED BY <2>3, <3>1, <3>2, <4>1 DEF ServedLater, Outstanding
        <3> QED BY <1>3, <2>1, <2>3, <3>3
    <2> QED BY <2>1, <2>2, <2>3
<1>8. CASE SubmitRequestUrb
    <2>1. PICK r \in Requests, a \in Addrs :
              /\ pc[Proxy] = "submit" /\ cur[Proxy] = r /\ SubmitUrb(r, a)
              /\ Goto(Proxy, "cancel", None)
              /\ UNCHANGED <<ret, completions, expired, readyList, caller>>
        BY <1>0, <1>1, <1>8 DEF SubmitRequestUrb, TypeOK, HandSteps
    <2>2. \A q \in Requests : UrbsOf(q)' \subseteq UrbsOf(q) \/ q = r
        BY <1>1, <2>1 DEF SubmitUrb, UrbsOf, InKernelStates, TypeOK, UsbfsTypeOK
    <2>3. pc'[Proxy] = "cancel"
        BY <1>0, <1>1, <2>1 DEF Goto
    <2>4. \A q \in Requests : ServedLater(q)' => ServedLater(q)
        <3> HIDE DEF UrbsOf
        <3> QED BY <2>1, <2>2, <2>3 DEF ServedLater, Outstanding, Fresh
    <2> QED BY <1>3, <2>1, <2>4
<1>9. CASE SubmitRequestIoctl \/ SubmitRequestFails
    <2>1. PICK r \in Requests :
              /\ pc[Proxy] = "submit" /\ cur[Proxy] = r
              /\ StartCompletion(Proxy, r, "cancel")
              /\ UNCHANGED <<kernelVars, completions, expired, readyList, caller>>
        BY <1>0, <1>1, <1>9 DEF SubmitRequestIoctl, SubmitRequestFails, TypeOK, HandSteps
    <2>2. urbAddress[r] = None /\ r \notin ToSet(readyList)
        BY <2>1 DEF IndInv, ReadyHasNoUrb
    <2>3. UrbsOf(r) = {}
        BY <2>2 DEF UrbsOf, IndInv, UrbAccounting
    <2>4. ServedLater(r) /\ ~Fresh(r)
        BY <1>0, <2>1 DEF ServedLater, Outstanding, IndInv, FreshUnknown, HandSteps
    <2>5. pc'[Proxy] = "irp"
        BY <1>0, <1>1, <2>1 DEF StartCompletion, Goto
    <2>6. \A q \in Requests : UrbsOf(q)' = UrbsOf(q) /\ (Fresh(q)' <=> Fresh(q))
        BY <2>1 DEF UrbsOf, Fresh, kernelVars
    <2>7. ~ServedLater(r)' /\ \A q \in Requests : ServedLater(q)' => ServedLater(q)
        <3> HIDE DEF UrbsOf, Fresh
        <3> QED BY <2>1, <2>2, <2>3, <2>4, <2>5, <2>6 DEF ServedLater, Outstanding
    <2> QED BY <1>0, <1>1, <2>1, <2>4, <2>7, OnceStart
<1>10. CASE CancelRequest
    <2>1. /\ Goto(Proxy, "reap", None)
          /\ UNCHANGED <<ret, completions, expired, readyList, caller>>
          /\ UNCHANGED kernelVars \/ DiscardUrb(urbAddress[Head(cancelList)])
        BY <1>10, Zenon DEF CancelRequest
    <2>2. \A q \in Requests : UrbsOf(q)' \subseteq UrbsOf(q)
        BY <1>5, <2>1 DEF DiscardUrb, UrbsOf, InKernelStates, Finished
    <2> QED BY <1>4, <2>1, <2>2
<1>11. ASSUME NEW a \in Addrs, CompleteRequest(a) PROVE OnceInv'
    <2>1. PICK r \in Requests : r = urbOwner[a] /\ urbAddress[r] = a
        BY <1>1, <1>11 DEF CompleteRequest, ReapUrb, IndInv, UrbAccounting, InKernelStates,
                           TypeOK, UsbfsTypeOK
    <2>2. r \notin ToSet(readyList)
        BY <2>1 DEF IndInv, ReadyHasNoUrb
    <2>3. UrbsOf(r)' = {} /\ \A q \in Requests : UrbsOf(q)' \subseteq UrbsOf(q)
        BY <1>11, <2>1 DEF CompleteRequest, ReapUrb, IndInv, UrbAccounting, InKernelStates,
                           Finished, UrbsOf
    <2>4. /\ pc[Proxy] = "reap" /\ StartCompletion(Proxy, r, "poll")
          /\ UNCHANGED <<completions, expired, readyList, caller>>
        BY <1>11, <2>1 DEF CompleteRequest
    <2>5. a \in UrbsOf(r)
        BY <1>11, <2>1 DEF CompleteRequest, ReapUrb, UrbsOf, InKernelStates
    <2>6. ServedLater(r) /\ ~Fresh(r)
        BY <2>1, <2>5 DEF ServedLater, Outstanding, IndInv, FreshUnknown
    <2>7. pc'[Proxy] = "irp"
        BY <1>0, <1>1, <2>4 DEF StartCompletion, Goto
    <2>8. ~ServedLater(r)' /\ \A q \in Requests : ServedLater(q)' => ServedLater(q)
        <3>1. \A q \in Requests : Fresh(q)' <=> Fresh(q)
            BY <2>4 DEF Fresh
        <3> HIDE DEF UrbsOf, Fresh
        <3> QED BY <2>2, <2>3, <2>4, <2>6, <2>7, <3>1 DEF ServedLater, Outstanding
    <2> QED BY <1>0, <1>1, <2>4, <2>6, <2>8, OnceStart
<1>12. CASE ReapNothing \/ ReapNoDevice \/ ProxyExit
    <2>1. /\ UNCHANGED <<ret, completions, expired, readyList, caller>>
          /\ Goto(Proxy, "poll", None) \/ Goto(Proxy, "exiting", None) \/ Goto(Proxy, "off", None)
          /\ UNCHANGED kernelVars \/ CloseFd
        BY <1>12 DEF ReapNothing, ReapNoDevice, ProxyExit
    <2>2. \A q \in Requests : UrbsOf(q)' \subseteq UrbsOf(q)
        BY <1>5, <2>1 DEF CloseFd, UrbsOf, InKernelStates, Finished
    <2> QED BY <1>4, <2>1, <2>2
<1> QED BY <1>2, <1>6, <1>7, <1>8, <1>9, <1>10, <1>11, <1>12 DEF ProxyStep, SubmitRequest

\* setCompleted(true) is called once for a request, and once more only by an abort
\* that gave up on it, however many aborts race the proxy thread.
THEOREM CompletedOnceCorrect == Spec => []CompletedOnce
<1> DEFINE Inv == IndInv /\ AbortInv /\ AbortOnceInv /\ OnceInv
<1>1. Init => AbortOnceInv /\ OnceInv
    <2> SUFFICES ASSUME Init PROVE AbortOnceInv /\ OnceInv
        OBVIOUS
    <2>1. ToSet(<<>>) = {} /\ IsInjective(<<>>)
        <3>1. <<>> \in Seq(Requests) /\ DOMAIN <<>> = {}
            BY EmptySeq
        <3> QED BY <3>1, ToSetElements DEF IsInjective
    <2>2. /\ \A t \in Threads : pc[t] \in {"off", "idle"}
          /\ \A t \in Aborters : t \in Threads /\ toWait[t] = <<>>
          /\ \A p \in Pipes : inProgressList[p] = <<>>
          /\ expired = {} /\ \A r \in Requests : completions[r] = 0
        BY DEF Init, Threads
    <2>3. AbortOnceInv
        BY <2>1, <2>2 DEF AbortOnceInv, MayExpire
    <2>4. \A r \in Requests, t \in Threads : ~Completing(t, r)
        BY <2>2 DEF Completing
    <2>5. \A r \in Requests : ~DueAgain(r)
        BY <2>4 DEF DueAgain
    <2>6. OnceInv
        <3> HIDE DEF Due, DueAgain
        <3> QED BY <2>2, <2>4, <2>5 DEF OnceInv, One
    <2> QED BY <2>3, <2>6
<1>2. IndInv /\ AbortInv /\ AbortOnceInv /\ OnceInv /\ [Next]_vars => AbortOnceInv' /\ OnceInv'
    <2> SUFFICES ASSUME IndInv, AbortInv, AbortOnceInv, OnceInv, [Next]_vars
                 PROVE  AbortOnceInv' /\ OnceInv'
        OBVIOUS
    <2>0. TypeOK
        BY DEF IndInv
    <2>1. ASSUME NEW r \in Requests, SubmitterStep(r) PROVE AbortOnceInv' /\ OnceInv'
        BY <2>0, <2>1, AbortOnceSubmitter, OnceSubmitter
    <2>2. ASSUME NEW t \in Aborters, (\E p \in Pipes : AbortAllSubmissions(t, p)) \/ AbortStep(t)
          PROVE  AbortOnceInv' /\ OnceInv'
        BY <2>0, <2>2, AbortOnceAbort, OnceAbort
    <2>3. CASE ProxyStep
        BY <2>0, <2>3, AbortOnceProxy, OnceProxy
    <2>4. CASE Device \/ UNCHANGED vars
        <3>1. UNCHANGED <<lists, requestVars, caller, threadVars, abortVars, history>>
            BY <2>4 DEF Device, vars
        <3>2. \A q \in Requests : UrbsOf(q)' \subseteq UrbsOf(q)
            BY <2>0, <2>4 DEF Device, FinishUrb, Unplug, vars, kernelVars, UrbsOf, InKernelStates,
                              Finished, TypeOK, UsbfsTypeOK
        <3>3. \A q \in Requests : ServedLater(q)' => ServedLater(q)
            <4> HIDE DEF UrbsOf
            <4> QED BY <3>1, <3>2 DEF lists, threadVars, ServedLater, Outstanding, Fresh
        <3>4. AbortOnceInv'
            BY <2>0, <3>1, AbortOnceQuiet
               DEF lists, threadVars, abortVars, history, NotListed, Fresh
        <3>5. OnceInv'
            BY <2>0, <3>1, <3>3, OnceQuiet DEF threadVars, history
        <3> QED BY <3>4, <3>5
    <2> QED BY <2>1, <2>2, <2>3, <2>4 DEF Next
<1>3. IndInv /\ OnceInv => CompletedOnce
    <2> SUFFICES ASSUME IndInv, OnceInv, NEW r \in Requests
                 PROVE  completions[r] <= (IF r \in expired THEN 2 ELSE 1)
        BY DEF CompletedOnce
    <2>1. completions[r] \in Nat
        BY DEF IndInv, TypeOK
    <2> HIDE DEF Due, DueAgain
    <2> QED BY <2>1 DEF OnceInv, One
<1> QED BY <1>1, <1>2, <1>3, IndInvCorrect, AbortInvCorrect, PTL DEF Spec
=============================================================================
