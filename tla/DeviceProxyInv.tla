-------------------------- MODULE DeviceProxyInv --------------------------
(***************************************************************************)
(* The inductive invariant behind the safety properties of DeviceProxy.    *)
(* Its parts say who can have a request at a given moment: a request moves *)
(* from its submitter to readyList, to the proxy thread, to the kernel,    *)
(* and leaves each of them before it is completed.                         *)
(***************************************************************************)
EXTENDS DeviceProxy

\* LinuxRequestProxy.submit() has not been called for r yet.
Fresh(r) == caller[r] \in {"idle", "checked", "rejected"}

\* Nobody else knows a request before it is submitted, and nothing happened to it.
FreshUnknown ==
    \A r \in Requests : Fresh(r) =>
        /\ r \notin ToSet(readyList)
        /\ \A p \in Pipes : r \notin ToSet(inProgressList[p])
        /\ \A t \in Aborters : r \notin ToSet(toCancel[t]) /\ r \notin ToSet(toWait[t])
        /\ \A t \in Threads : pc[t] \in HandSteps => cur[t] # r
        /\ \A a \in Addrs : urbState[a] \in InKernelStates => urbOwner[a] # r
        /\ urbAddress[r] = None
        /\ irp[r] = "pending" /\ ~completed[r]

\* A request is in readyList once, and has no URB while it is there or about to be
\* submitted by the proxy thread, which took it out of the list.
ReadyHasNoUrb ==
    /\ IsInjective(readyList)
    /\ \A r \in ToSet(readyList) :
          urbAddress[r] = None /\ ~(pc[Proxy] = "submit" /\ cur[Proxy] = r)
    /\ pc[Proxy] = "submit" => urbAddress[cur[Proxy]] = None

\* The descriptor is closed only when the device is gone, and never opened again.
ClosedForGood ==
    (pc[Proxy] = "exiting" \/ \E a \in Addrs : urbState[a] = "lost") => device = "gone"

\* A request that can still reach the device is not handed back and no thread is
\* completing it, unless an abort gave up on it.
OutstandingIsLive ==
    \A r \in Requests \ expired : Outstanding(r) =>
        /\ irp[r] = "pending" /\ ~completed[r]
        /\ \A t \in Threads : pc[t] \in CompletionSteps => cur[t] # r

\* setCompleted(true) is called after the outcome of the request is known, and the
\* flag is set after the IRP has it. The outcome does not change afterwards.
OutcomeKnown ==
    /\ \A t \in Threads : pc[t] \in CompletionSteps =>
          cur[t] \in IsoRequests \cup transferred \/ errorNumber[cur[t]] # "none"
    /\ \A t \in Threads : pc[t] \in {"flag", "list"} =>
          cur[t] \in Claims \/ irp[cur[t]] # "pending"
    /\ \A r \in Requests \ Claims : completed[r] => irp[r] # "pending"
    /\ \A r \in Requests \ (Claims \cup IsoRequests \cup expired) :
          irp[r] # "pending" => irp[r] = errorNumber[r]
    /\ \A r \in IsoRequests : irp[r] \in {"pending", "none"}
    /\ NoFalseSuccess

IndInv ==
    /\ TypeOK
    /\ FreshUnknown
    /\ ReadyHasNoUrb
    /\ UrbAccounting
    /\ ClosedForGood
    /\ OutstandingIsLive
    /\ OutcomeKnown

-----------------------------------------------------------------------------
(* What the application is promised, in terms of the code's state.         *)

Contract == INSTANCE RequestContract WITH
    Unreported <- IsoRequests,
    submitted <- {r \in Requests : ~Fresh(r)},
    served <- transferred,
    abandoned <- expired,
    outcome <- irp

\* The lists, the proxy thread, the kernel and the aborts together do what
\* RequestContract promises: a request is served only between its submission and
\* its completion, completed once with an outcome that is true, and neither
\* afterwards, unless an abort gave up on it.
ImplementsContract == Contract!Spec
=============================================================================
