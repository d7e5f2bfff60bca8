---------------------------- MODULE DeviceProxy ----------------------------
(***************************************************************************)
(* The life of a LinuxRequest: from the application thread that submits it *)
(* (LinuxPipeOsImp, LinuxDeviceOsImp, LinuxInterfaceOsImp), through the    *)
(* two lists of LinuxRequestProxy and the loop of the native proxy thread  *)
(* (jni/JavaxUsbDeviceProxy.c), into the kernel and back to the            *)
(* application, or cut short by LinuxPipeOsImp.abortAllSubmissions().      *)
(*                                                                         *)
(* Three kinds of threads take steps: one submitting thread per request    *)
(* (its state is caller[r]), the aborting threads, and the proxy thread.   *)
(* A step ends where the code releases a lock, or where another thread can *)
(* see what it did: errorNumber, the IRP, the completed flag and the lists *)
(* are all written at different moments.                                   *)
(***************************************************************************)
EXTENDS Usbfs, SequencesExt

CONSTANTS
    UrbRequests,    \* requests served by an URB; the others by one ioctl()
    IsoRequests,    \* those that are LinuxIsochronousRequests (a list of IRPs)
    Claims,         \* LinuxInterfaceRequests: no IRP, and the caller waits
    Pipes,          \* the LinuxPipeOsImps
    PipeOf,         \* the pipe of a request; None: the device's own queue
    Proxy,          \* the native proxy thread
    Aborters        \* threads that call abortAllSubmissions()

ASSUME RequestsAssumption ==
    /\ UrbRequests \subseteq Requests
    /\ IsoRequests \subseteq UrbRequests
    /\ Claims \subseteq Requests \ UrbRequests
    /\ None \notin Pipes
    /\ PipeOf \in [Requests -> Pipes \cup {None}]
    /\ \A r \in Claims : PipeOf[r] = None

ASSUME ThreadsAssumption == Proxy \notin Aborters /\ None \notin Aborters \cup {Proxy}

VARIABLES
    readyList, cancelList,  \* LinuxRequestProxy
    readyLock,              \* who holds the monitor of readyList between steps
    inProgressList,         \* LinuxPipeOsImp, per pipe
    urbAddress,             \* LinuxPipeRequest.urbAddress, never reset
    errorNumber, completed, \* LinuxRequest
    irp,                    \* what the application sees in the UsbIrp
    caller,                 \* the submitting thread of each request
    pc, cur, ret,           \* per thread: its position, the request in its
                            \* hands, where it goes on after setCompleted()
    toCancel, toWait,       \* the local array of abortAllSubmissions()
    \* History, read by properties only.
    transferred,            \* requests the device really served
    aborted,                \* requests some abortAllSubmissions() took
    expired,                \* requests an abort gave up waiting for
    completions             \* how often setCompleted(true) was called

lists == <<readyList, cancelList, readyLock, inProgressList>>
requestVars == <<urbAddress, errorNumber, completed, irp>>
threadVars == <<pc, cur, ret>>
abortVars == <<toCancel, toWait>>
history == <<transferred, aborted, expired, completions>>
vars == <<kernelVars, lists, requestVars, caller, threadVars, abortVars, history>>

Threads == {Proxy} \cup Aborters
Tracked == {r \in Requests : PipeOf[r] # None}

\* "cancelled" is -1 (LinuxRequestProxy.cancel), "timeout" -2 (ABORT_TIMEOUT_ERROR),
\* "failed" any error of an ioctl, malloc or URB, "unlinked" that of a discarded URB.
Errors == {"cancelled", "timeout", "failed", "unlinked"}
CallerStates == {"idle", "checked", "rejected", "submitted", "waiting", "returned"}
CompletionSteps == {"irp", "flag", "list"}
ProxySteps == {"off", "poll", "ready", "submit", "cancel", "reap", "exiting"} \cup CompletionSteps
AbortSteps == {"idle", "cancel", "cancelReady", "cancelAdd", "wait", "expire"} \cup CompletionSteps

\* The positions at which a thread has a request in its hands.
HandSteps == {"submit", "cancelReady", "cancelAdd", "expire"} \cup CompletionSteps

TypeOK ==
    /\ UsbfsTypeOK
    /\ readyList \in Seq(Requests)
    /\ cancelList \in Seq(Requests)
    /\ readyLock \in Aborters \cup {None}
    /\ inProgressList \in [Pipes -> Seq(Requests)]
    /\ urbAddress \in [Requests -> Addrs \cup {None}]
    /\ errorNumber \in [Requests -> Errors \cup {"none"}]
    /\ completed \in [Requests -> BOOLEAN]
    /\ irp \in [Requests -> Errors \cup {"none", "pending"}]
    /\ caller \in [Requests -> CallerStates]
    /\ pc \in [Threads -> ProxySteps \cup AbortSteps]
    /\ pc[Proxy] \in ProxySteps
    /\ \A t \in Aborters : pc[t] \in AbortSteps
    /\ cur \in [Threads -> Requests \cup {None}]
    /\ \A t \in Threads : pc[t] \in HandSteps => cur[t] \in Requests
    /\ ret \in [Threads -> {"poll", "cancel", "wait", "none"}]
    /\ pc[Proxy] \in CompletionSteps => ret[Proxy] \in {"poll", "cancel"}
    /\ \A t \in Aborters : pc[t] \in CompletionSteps => ret[t] \in {"cancel", "wait"}
    /\ toCancel \in [Aborters -> Seq(Requests)]
    /\ toWait \in [Aborters -> Seq(Requests)]
    /\ transferred \subseteq Requests
    /\ aborted \subseteq Requests
    /\ expired \subseteq Requests
    /\ completions \in [Requests -> Nat]

Init ==
    /\ UsbfsInit
    /\ readyList = <<>> /\ cancelList = <<>> /\ readyLock = None
    /\ inProgressList = [p \in Pipes |-> <<>>]
    /\ urbAddress = [r \in Requests |-> None]
    /\ errorNumber = [r \in Requests |-> "none"]
    /\ completed = [r \in Requests |-> FALSE]
    /\ irp = [r \in Requests |-> "pending"]
    /\ caller = [r \in Requests |-> "idle"]
    /\ pc = [t \in Threads |-> IF t = Proxy THEN "off" ELSE "idle"]
    /\ cur = [t \in Threads |-> None]
    /\ ret = [t \in Threads |-> "none"]
    /\ toCancel = [t \in Aborters |-> <<>>]
    /\ toWait = [t \in Aborters |-> <<>>]
    /\ transferred = {} /\ aborted = {} /\ expired = {}
    /\ completions = [r \in Requests |-> 0]

-----------------------------------------------------------------------------
(* Shared pieces.                                                          *)

\* Thread t moves to position step with request r in its hands.
Goto(t, step, r) ==
    /\ pc' = [pc EXCEPT ![t] = step]
    /\ cur' = [cur EXCEPT ![t] = r]

\* Thread t is about to call setCompleted(true) on r, and goes on at step after.
StartCompletion(t, r, after) ==
    /\ Goto(t, "irp", r)
    /\ ret' = [ret EXCEPT ![t] = after]

ProxyRunning == pc[Proxy] # "off"

\* LinuxDeviceOsImp.getLinuxDeviceProxy(): the proxy runs, or start() opens the
\* device and the native loop begins.
ProxyAvailable == ProxyRunning \/ device = "present"
PcWithProxy == IF ProxyRunning THEN pc ELSE [pc EXCEPT ![Proxy] = "poll"]

-----------------------------------------------------------------------------
(* The submitting threads.                                                 *)

\* LinuxDeviceOsImp.submit(): getLinuxDeviceProxy() returns the proxy ...
GetLinuxDeviceProxy(r) ==
    /\ caller[r] = "idle"
    /\ ProxyAvailable
    /\ caller' = [caller EXCEPT ![r] = "checked"]
    /\ pc' = PcWithProxy
    /\ UNCHANGED <<kernelVars, lists, requestVars, cur, ret, abortVars, history>>

\* ... or start() throws, because open_device() failed.
RejectSubmission(r) ==
    /\ caller[r] = "idle"
    /\ ~ProxyRunning
    /\ caller' = [caller EXCEPT ![r] = "rejected"]
    /\ UNCHANGED <<kernelVars, lists, requestVars, threadVars, abortVars, history>>

\* LinuxRequestProxy.submit(), with no further look at the proxy thread.
Submit(r) ==
    /\ caller[r] = "checked"
    /\ readyLock = None
    /\ readyList' = Append(readyList, r)
    /\ caller' = [caller EXCEPT ![r] = IF r \in Tracked THEN "submitted"
                                       ELSE IF r \in Claims THEN "waiting"
                                       ELSE "returned"]
    /\ UNCHANGED <<kernelVars, cancelList, readyLock, inProgressList, requestVars,
                   threadVars, abortVars, history>>

\* LinuxPipeOsImp.asyncSubmit() adds the request to the list of its pipe only
\* after it was submitted.
AddInProgress(r) ==
    /\ caller[r] = "submitted"
    /\ inProgressList' = [inProgressList EXCEPT ![PipeOf[r]] = Append(@, r)]
    /\ caller' = [caller EXCEPT ![r] = "returned"]
    /\ UNCHANGED <<kernelVars, readyList, cancelList, readyLock, requestVars,
                   threadVars, abortVars, history>>

\* claim(), release() and isClaimed() wait for the flag, without a timeout.
WaitUntilCompleted(r) ==
    /\ caller[r] = "waiting"
    /\ completed[r]
    /\ caller' = [caller EXCEPT ![r] = "returned"]
    /\ UNCHANGED <<kernelVars, lists, requestVars, threadVars, abortVars, history>>

-----------------------------------------------------------------------------
(* setCompleted(true), by the proxy thread or an aborting thread.          *)

\* completeUsbIrp(): the IRP gets the error number as it is at this moment. A
\* LinuxIsochronousRequest completes its IRPs without looking at it.
IrpError(r) == IF r \in IsoRequests THEN "none" ELSE errorNumber[r]

\* Mutation of CompleteUsbIrp: only a failed IRP is completed.
CompleteUsbIrpIfFailed(t) ==
    /\ pc[t] = "irp"
    /\ irp' = IF errorNumber[cur[t]] = "none" THEN irp
              ELSE [irp EXCEPT ![cur[t]] = errorNumber[cur[t]]]
    /\ completions' = [completions EXCEPT ![cur[t]] = @ + 1]
    /\ Goto(t, "flag", cur[t])
    /\ UNCHANGED <<kernelVars, lists, urbAddress, errorNumber, completed, caller, ret,
                   abortVars, transferred, aborted, expired>>

\* LinuxPipeRequest.setCompleted(): completeUsbIrp() comes first. (The requests of
\* a LinuxInterfaceOsImp have no IRP.)
CompleteUsbIrp(t) ==
    /\ pc[t] = "irp"
    /\ irp' = IF cur[t] \in Claims THEN irp ELSE [irp EXCEPT ![cur[t]] = IrpError(cur[t])]
    /\ completions' = [completions EXCEPT ![cur[t]] = @ + 1]
    /\ Goto(t, "flag", cur[t])
    /\ UNCHANGED <<kernelVars, lists, urbAddress, errorNumber, completed, caller, ret,
                   abortVars, transferred, aborted, expired>>

\* LinuxRequest.setCompleted(): the flag, and the waiters are notified.
SetCompleted(t) ==
    /\ pc[t] = "flag"
    /\ completed' = [completed EXCEPT ![cur[t]] = TRUE]
    /\ Goto(t, "list", cur[t])
    /\ UNCHANGED <<kernelVars, lists, urbAddress, errorNumber, irp, caller, ret,
                   abortVars, history>>

\* Mutation of ExecuteCompletion: the oldest entry is removed, as if requests
\* completed in the order of their submission.
ExecuteCompletionRemovesOldest(t) ==
    /\ pc[t] = "list"
    /\ inProgressList' = [p \in Pipes |->
          IF p = PipeOf[cur[t]] /\ inProgressList[p] # <<>> THEN Tail(inProgressList[p])
                                                            ELSE inProgressList[p]]
    /\ readyLock' = IF readyLock = t THEN None ELSE readyLock
    /\ Goto(t, ret[t], None)
    /\ ret' = [ret EXCEPT ![t] = "none"]
    /\ UNCHANGED <<kernelVars, readyList, cancelList, requestVars, caller, abortVars, history>>

\* executeCompletion(): linuxRequestComplete() takes the request off its pipe's
\* list, if it is there. A completion inside cancel() ends its readyList block.
ExecuteCompletion(t) ==
    /\ pc[t] = "list"
    /\ inProgressList' =
          IF cur[t] \in Tracked
            THEN [inProgressList EXCEPT ![PipeOf[cur[t]]] = RemoveFirst(@, cur[t])]
            ELSE inProgressList
    /\ readyLock' = IF readyLock = t THEN None ELSE readyLock
    /\ Goto(t, ret[t], None)
    /\ ret' = [ret EXCEPT ![t] = "none"]
    /\ UNCHANGED <<kernelVars, readyList, cancelList, requestVars, caller, abortVars, history>>

CompletionStep(t) == CompleteUsbIrp(t) \/ SetCompleted(t) \/ ExecuteCompletion(t)

-----------------------------------------------------------------------------
(* LinuxPipeOsImp.abortAllSubmissions().                                   *)

\* The list of the pipe is copied and cleared. (With an empty list the whole
\* call does nothing.)
AbortAllSubmissions(t, p) ==
    /\ pc[t] = "idle"
    /\ inProgressList[p] # <<>>
    /\ toCancel' = [toCancel EXCEPT ![t] = inProgressList[p]]
    /\ toWait' = [toWait EXCEPT ![t] = inProgressList[p]]
    /\ inProgressList' = [inProgressList EXCEPT ![p] = <<>>]
    /\ aborted' = aborted \cup ToSet(inProgressList[p])
    /\ Goto(t, "cancel", None)
    /\ UNCHANGED <<kernelVars, readyList, cancelList, readyLock, requestVars, caller, ret,
                   transferred, expired, completions>>

\* LinuxDeviceOsImp.cancel() of the next request gets the proxy ...
CancelNext(t) ==
    /\ pc[t] = "cancel"
    /\ toCancel[t] # <<>>
    /\ ProxyAvailable
    /\ pc' = [PcWithProxy EXCEPT ![t] = "cancelReady"]
    /\ cur' = [cur EXCEPT ![t] = Head(toCancel[t])]
    /\ toCancel' = [toCancel EXCEPT ![t] = Tail(@)]
    /\ UNCHANGED <<kernelVars, lists, requestVars, caller, ret, toWait, history>>

\* ... or swallows the exception of start(): nothing is cancelled.
CancelSkipped(t) ==
    /\ pc[t] = "cancel"
    /\ toCancel[t] # <<>>
    /\ ~ProxyRunning
    /\ toCancel' = [toCancel EXCEPT ![t] = Tail(@)]
    /\ UNCHANGED <<kernelVars, lists, requestVars, caller, threadVars, toWait, history>>

\* Mutation of CancelReady: completes the request without asking whether the proxy
\* thread took it out of readyList before.
CancelReadyUnchecked(t) ==
    /\ pc[t] = "cancelReady"
    /\ readyLock = None
    /\ readyList' = RemoveFirst(readyList, cur[t])
    /\ readyLock' = t
    /\ errorNumber' = [errorNumber EXCEPT ![cur[t]] = "cancelled"]
    /\ StartCompletion(t, cur[t], "cancel")
    /\ UNCHANGED <<kernelVars, cancelList, inProgressList, urbAddress, completed, irp, caller,
                   abortVars, history>>

\* LinuxRequestProxy.cancel(), first block: a request still in readyList is
\* taken out and completed with -1, all under the monitor of readyList.
CancelReady(t) ==
    /\ pc[t] = "cancelReady"
    /\ readyLock = None
    /\ Contains(readyList, cur[t])
    /\ readyList' = RemoveFirst(readyList, cur[t])
    /\ readyLock' = t
    /\ errorNumber' = [errorNumber EXCEPT ![cur[t]] = "cancelled"]
    /\ StartCompletion(t, cur[t], "cancel")
    /\ UNCHANGED <<kernelVars, cancelList, inProgressList, urbAddress, completed, irp, caller,
                   abortVars, history>>

CancelNotReady(t) ==
    /\ pc[t] = "cancelReady"
    /\ readyLock = None
    /\ ~Contains(readyList, cur[t])
    /\ Goto(t, "cancelAdd", cur[t])
    /\ UNCHANGED <<kernelVars, lists, requestVars, caller, ret, abortVars, history>>

\* LinuxRequestProxy.cancel(), second block.
CancelAdd(t) ==
    /\ pc[t] = "cancelAdd"
    /\ cancelList' = Append(cancelList, cur[t])
    /\ Goto(t, "cancel", None)
    /\ UNCHANGED <<kernelVars, readyList, readyLock, inProgressList, requestVars, caller, ret,
                   abortVars, history>>

CancelsDone(t) ==
    /\ pc[t] = "cancel"
    /\ toCancel[t] = <<>>
    /\ Goto(t, "wait", None)
    /\ UNCHANGED <<kernelVars, lists, requestVars, caller, ret, abortVars, history>>

\* waitUntilCompleted(ABORT_COMPLETION_TIMEOUT) finds the request completed.
AbortedCompleted(t) ==
    /\ pc[t] = "wait"
    /\ toWait[t] # <<>>
    /\ completed[Head(toWait[t])]
    /\ toWait' = [toWait EXCEPT ![t] = Tail(@)]
    /\ UNCHANGED <<kernelVars, lists, requestVars, caller, threadVars, toCancel, history>>

\* Mutations of AbortTimeout: a wait without a timeout; a timeout after which the
\* request is dropped as it is.
AbortNeverTimesOut(t) == FALSE

AbortTimeoutDrops(t) ==
    /\ pc[t] = "wait"
    /\ toWait[t] # <<>>
    /\ toWait' = [toWait EXCEPT ![t] = Tail(@)]
    /\ UNCHANGED <<kernelVars, lists, requestVars, caller, threadVars, toCancel, history>>

\* The half second is over and isCompleted() answered false.
AbortTimeout(t) ==
    /\ pc[t] = "wait"
    /\ toWait[t] # <<>>
    /\ ~completed[Head(toWait[t])]
    /\ toWait' = [toWait EXCEPT ![t] = Tail(@)]
    /\ Goto(t, "expire", Head(toWait[t]))
    /\ UNCHANGED <<kernelVars, lists, requestVars, caller, ret, toCancel, history>>

\* The answer may be out of date when the error is set and setCompleted() called.
Expire(t) ==
    /\ pc[t] = "expire"
    /\ errorNumber' = [errorNumber EXCEPT ![cur[t]] = "timeout"]
    /\ expired' = expired \cup {cur[t]}
    /\ StartCompletion(t, cur[t], "wait")
    /\ UNCHANGED <<kernelVars, lists, urbAddress, completed, irp, caller, abortVars,
                   transferred, aborted, completions>>

AbortReturn(t) ==
    /\ pc[t] = "wait"
    /\ toWait[t] = <<>>
    /\ Goto(t, "idle", None)
    /\ UNCHANGED <<kernelVars, lists, requestVars, caller, ret, abortVars, history>>

AbortStep(t) ==
    \/ CancelNext(t) \/ CancelSkipped(t) \/ CancelReady(t) \/ CancelNotReady(t)
    \/ CancelAdd(t) \/ CancelsDone(t)
    \/ AbortedCompleted(t) \/ AbortTimeout(t) \/ Expire(t) \/ AbortReturn(t)
    \/ CompletionStep(t)

-----------------------------------------------------------------------------
(* The loop of the native proxy thread.                                    *)

\* Mutations of PollSeen: a request waits only if both lists have one; the list of
\* cancellations is forgotten.
PollSeenBoth ==
    /\ pc[Proxy] = "poll"
    /\ readyList # <<>> /\ cancelList # <<>>
    /\ Goto(Proxy, "ready", None)
    /\ UNCHANGED <<kernelVars, lists, requestVars, caller, ret, abortVars, history>>

PollSeenReadyOnly ==
    /\ pc[Proxy] = "poll"
    /\ readyList # <<>>
    /\ Goto(Proxy, "ready", None)
    /\ UNCHANGED <<kernelVars, lists, requestVars, caller, ret, abortVars, history>>

\* isRequestWaiting() reads both lists without a lock. If it misses what is
\* there, or nothing is there, the loop goes straight to the reaping.
PollSeen ==
    /\ pc[Proxy] = "poll"
    /\ readyList # <<>> \/ cancelList # <<>>
    /\ Goto(Proxy, "ready", None)
    /\ UNCHANGED <<kernelVars, lists, requestVars, caller, ret, abortVars, history>>

\* Mutation of PollMissed: without a request waiting the loop does not reap.
PollMissedNoReap == FALSE

PollMissed ==
    /\ pc[Proxy] = "poll"
    /\ Goto(Proxy, "reap", None)
    /\ UNCHANGED <<kernelVars, lists, requestVars, caller, ret, abortVars, history>>

\* getReadyRequest(), and nothing to submit if it answers null.
GetReadyRequest ==
    /\ pc[Proxy] = "ready"
    /\ readyLock = None
    /\ IF readyList = <<>>
         THEN Goto(Proxy, "cancel", None) /\ UNCHANGED readyList
         ELSE Goto(Proxy, "submit", Head(readyList)) /\ readyList' = Tail(readyList)
    /\ UNCHANGED <<kernelVars, cancelList, readyLock, inProgressList, requestVars, caller,
                   ret, abortVars, history>>

\* Mutation of SubmitRequestUrb: the request completes when it was submitted, as the
\* ones served by a single ioctl do.
SubmitRequestUrbSync ==
    /\ pc[Proxy] = "submit"
    /\ cur[Proxy] \in UrbRequests
    /\ \E a \in Addrs :
          /\ SubmitUrb(cur[Proxy], a)
          /\ urbAddress' = [urbAddress EXCEPT ![cur[Proxy]] = a]
    /\ StartCompletion(Proxy, cur[Proxy], "cancel")
    /\ UNCHANGED <<lists, errorNumber, completed, irp, caller, abortVars, history>>

\* pipe_request(), isochronous_request(): the URB is built and submitted.
SubmitRequestUrb ==
    /\ pc[Proxy] = "submit"
    /\ cur[Proxy] \in UrbRequests
    /\ \E a \in Addrs :
          /\ SubmitUrb(cur[Proxy], a)
          /\ urbAddress' = [urbAddress EXCEPT ![cur[Proxy]] = a]
    /\ Goto(Proxy, "cancel", None)
    /\ UNCHANGED <<lists, errorNumber, completed, irp, caller, ret, abortVars, history>>

\* set_interface(), set_configuration(), claim_interface(), is_claimed(): one
\* ioctl, and the request completes here.
SubmitRequestIoctl ==
    /\ pc[Proxy] = "submit"
    /\ cur[Proxy] \notin UrbRequests
    /\ device = "present"
    /\ transferred' = transferred \cup {cur[Proxy]}
    /\ StartCompletion(Proxy, cur[Proxy], "cancel")
    /\ UNCHANGED <<kernelVars, lists, requestVars, caller, abortVars, aborted, expired, completions>>

\* malloc() or the ioctl fails: setError(err), setCompleted(true).
SubmitRequestFails ==
    /\ pc[Proxy] = "submit"
    /\ errorNumber' = [errorNumber EXCEPT ![cur[Proxy]] = "failed"]
    /\ StartCompletion(Proxy, cur[Proxy], "cancel")
    /\ UNCHANGED <<kernelVars, lists, urbAddress, completed, irp, caller, abortVars, history>>

\* Mutation of CancelRequest: the request forgets its URB when it is discarded.
CancelRequestForgets ==
    /\ pc[Proxy] = "cancel"
    /\ IF cancelList = <<>>
         THEN UNCHANGED <<kernelVars, cancelList, urbAddress>>
         ELSE /\ DiscardUrb(urbAddress[Head(cancelList)])
              /\ cancelList' = Tail(cancelList)
              /\ urbAddress' = [urbAddress EXCEPT ![Head(cancelList)] = None]
    /\ Goto(Proxy, "reap", None)
    /\ UNCHANGED <<readyList, readyLock, inProgressList, errorNumber, completed, irp, caller,
                   ret, abortVars, history>>

\* getCancelRequest() and cancelRequest(): DISCARDURB of the address the request
\* remembers, which is None for a request that never had an URB.
CancelRequest ==
    /\ pc[Proxy] = "cancel"
    /\ IF cancelList = <<>>
         THEN UNCHANGED <<kernelVars, cancelList>>
         ELSE DiscardUrb(urbAddress[Head(cancelList)]) /\ cancelList' = Tail(cancelList)
    /\ Goto(Proxy, "reap", None)
    /\ UNCHANGED <<readyList, readyLock, inProgressList, requestVars, caller, ret,
                   abortVars, history>>

\* complete_pipe_request(), complete_isochronous_request(): what completeRequest()
\* passes to setError(), from the status of the URB at the address the request
\* remembers; -EINVAL without an address.
CompletionError(r) ==
    LET status == IF urbAddress[r] = None THEN "io" ELSE urbState[urbAddress[r]]
    IN CASE status = "io" -> "failed"
         [] status = "unlinked" -> "unlinked"
         [] OTHER -> errorNumber[r]      \* no error, no setError()

\* A finished URB: completeRequest() of the request in urb->usercontext copies the
\* data and frees the URB at the address the request remembers.
CompleteRequest(a) ==
    /\ pc[Proxy] = "reap"
    /\ LET r == urbOwner[a] IN
          /\ ReapUrb(a, urbAddress[r])
          /\ StartCompletion(Proxy, r, "poll")
          /\ errorNumber' = [errorNumber EXCEPT ![r] = CompletionError(r)]
          /\ transferred' = IF urbState[a] = "ok" THEN transferred \cup {r} ELSE transferred
    /\ UNCHANGED <<lists, urbAddress, completed, irp, caller, abortVars, aborted, expired,
                   completions>>

ReapNothing ==
    /\ pc[Proxy] = "reap"
    /\ device = "present"
    /\ NothingToReap
    /\ Goto(Proxy, "poll", None)
    /\ UNCHANGED <<kernelVars, lists, requestVars, caller, ret, abortVars, history>>

\* ENODEV ends the loop; the thread is still alive until it has closed the
\* descriptor. What is in the lists and in the kernel is left as it is.
ReapNoDevice ==
    /\ pc[Proxy] = "reap"
    /\ device = "gone"
    /\ Goto(Proxy, "exiting", None)
    /\ UNCHANGED <<kernelVars, lists, requestVars, caller, ret, abortVars, history>>

ProxyExit ==
    /\ pc[Proxy] = "exiting"
    /\ CloseFd
    /\ Goto(Proxy, "off", None)
    /\ UNCHANGED <<lists, requestVars, caller, ret, abortVars, history>>

SubmitRequest == SubmitRequestUrb \/ SubmitRequestIoctl \/ SubmitRequestFails

ProxyStep ==
    \/ PollSeen \/ PollMissed
    \/ GetReadyRequest \/ SubmitRequest
    \/ CancelRequest
    \/ (\E a \in Addrs : CompleteRequest(a)) \/ ReapNothing \/ ReapNoDevice \/ ProxyExit
    \/ CompletionStep(Proxy)

-----------------------------------------------------------------------------
SubmitterStep(r) ==
    GetLinuxDeviceProxy(r) \/ RejectSubmission(r) \/ Submit(r) \/ AddInProgress(r)
        \/ WaitUntilCompleted(r)

Device ==
    /\ (\E a \in Addrs : FinishUrb(a)) \/ Unplug
    /\ UNCHANGED <<lists, requestVars, caller, threadVars, abortVars, history>>

Next ==
    \/ \E r \in Requests : SubmitterStep(r)
    \/ \E t \in Aborters : (\E p \in Pipes : AbortAllSubmissions(t, p)) \/ AbortStep(t)
    \/ ProxyStep
    \/ Device

Spec == Init /\ [][Next]_vars

\* Every thread runs on once it started: the locks are held for a few statements
\* and waiting ends by time. A submission, once begun, goes on; nothing makes the
\* application submit or abort, the device answer or be unplugged. An unlocked
\* read of the lists may miss an element, but not for ever.
Fairness ==
    /\ \A r \in Requests : WF_vars(Submit(r) \/ AddInProgress(r) \/ WaitUntilCompleted(r))
    /\ \A t \in Aborters : WF_vars(AbortStep(t))
    /\ WF_vars(ProxyStep)
    /\ SF_vars(PollSeen)

FairSpec == Spec /\ Fairness

-----------------------------------------------------------------------------
(* Safety.                                                                 *)

\* Request r is in the hands of an abortAllSubmissions() that has not returned.
HeldByAbort(r) ==
    \E t \in Aborters : r \in ToSet(toCancel[t]) \cup ToSet(toWait[t]) \cup {cur[t]}

\* The request can still reach the device, or the device its buffer.
Outstanding(r) ==
    \/ r \in ToSet(readyList)
    \/ pc[Proxy] = "submit" /\ cur[Proxy] = r
    \/ UrbsOf(r) # {}

\* The application has its IRP back, or a waiter was told that the request is over.
HandedBack(r) == irp[r] # "pending" \/ completed[r]

\* completeRequest() finds the URB through the request, not through what the
\* kernel returned: while the kernel has an URB, its request must remember exactly
\* that address, or memory in use is freed and the reaped URB is lost.
UrbAccounting ==
    \A a \in Addrs :
        /\ urbState[a] \in InKernelStates => urbAddress[urbOwner[a]] = a
        /\ urbState[a] = "lost" => pc[Proxy] = "off"

\* Once its IRP is handed back a request is neither queued nor in the kernel, so the
\* application may reuse the buffer; the only exception is an abort that timed out.
NoTransferAfterCompletion ==
    \A r \in Requests : HandedBack(r) /\ r \notin expired => ~Outstanding(r)

\* No request that failed, was cancelled or timed out is reported as a success.
\* (A LinuxIsochronousRequest reports none of these: see Transfers.)
NoFalseSuccess ==
    \A r \in Requests \ IsoRequests :
        (irp[r] = "none" \/ (completed[r] /\ errorNumber[r] = "none")) => r \in transferred

\* A thread that sees the completed flag sees the IRP complete, with the error of
\* the request.
FlagMeansSettled ==
    \A r \in Requests \ Claims :
        completed[r] => /\ irp[r] # "pending"
                        /\ r \notin IsoRequests \cup expired => irp[r] = errorNumber[r]

\* A request is completed once; a second time only if an abort gave up on it.
CompletedOnce ==
    \A r \in Requests : completions[r] <= (IF r \in expired THEN 2 ELSE 1)

\* An abort can reach every request whose submission returned and which is not
\* complete: it is on the list of its pipe, or an abort already has it.
LiveRequestTracked ==
    \A r \in Tracked :
        caller[r] = "returned" /\ ~completed[r] =>
            r \in ToSet(inProgressList[PipeOf[r]]) \/ HeldByAbort(r)

\* abortAllSubmissions() does not let go of a request before it is completed,
\* whether the device answers or not, and whether the proxy still runs.
AbortedAreCompleted ==
    \A r \in aborted : completed[r] \/ HeldByAbort(r)

\* The outcome the application reads after completion does not change any more,
\* unless an abort gave up on the request.
OutcomeStable ==
    [][\A r \in Requests : completed[r] /\ r \notin expired' => irp'[r] = irp[r]]_vars

-----------------------------------------------------------------------------
(* Liveness.                                                               *)

\* abortAllSubmissions() returns, even if the device is gone.
AbortReturns == \A t \in Aborters : pc[t] # "idle" ~> pc[t] = "idle"

\* A submitted request is completed, unless the device has its URB and does not
\* answer or is unplugged.
RequestServed ==
    \A r \in Requests :
        caller[r] \in {"submitted", "waiting"} ~>
            \/ completed[r] \/ device = "gone"
            \/ \E a \in UrbsOf(r) : urbState[a] = "inflight"

\* An URB the kernel has finished is reaped and its request completed.
FinishedReaped ==
    \A r \in Requests :
        (\E a \in UrbsOf(r) : urbState[a] \in Finished) ~> completed[r] \/ device = "gone"

\* No URB of an aborted request stays in flight, whatever the device does.
AbortReachesKernel ==
    \A r \in Requests :
        r \in aborted ~> [](\A a \in UrbsOf(r) : urbState[a] # "inflight")

-----------------------------------------------------------------------------
(* What comments in the code say, and the code does not do.                *)

\* LinuxRequestProxy.cancel(): "Cancel the Request." Only URBs of requests that
\* were aborted are discarded. The address a request remembers may by then be that
\* of another request's URB.
DiscardHitsItsRequest ==
    [][\A a \in Addrs : urbState[a] = "inflight" /\ urbState'[a] = "unlinked"
                            => urbOwner[a] \in aborted]_vars
=============================================================================
