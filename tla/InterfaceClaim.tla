--------------------------- MODULE InterfaceClaim ---------------------------
(***************************************************************************)
(* Who has an interface.  LinuxInterfaceOsImp (claim, release, isClaimed)  *)
(* and the control requests of LinuxDeviceOsImp queue requests that the    *)
(* proxy thread serves one at a time with a few ioctls each                *)
(* (jni/JavaxUsbInterfaceRequest.c, -ControlRequest.c), while drivers and  *)
(* other processes take and leave interfaces.                              *)
(*                                                                         *)
(* The proxy runs and the device stays: ProxyStart and DeviceProxy have    *)
(* the rest.  UsbInterfaceImp, which is not in this repository, remembers  *)
(* that claim() returned until release() returns (javaClaimed), and lets   *)
(* one thread at a time claim or release an interface: its keeper.         *)
(***************************************************************************)
EXTENDS Integers, Sequences

CONSTANTS
    Interfaces,
    Callers,     \* application threads
    Keeper,      \* the thread that claims and releases each interface
    MaxCalls,    \* calls each thread makes
    MaxChanges   \* how often others bind or unbind

ASSUME KeeperAssumption == Keeper \in [Interfaces -> Callers]
ASSUME BoundsAssumption == MaxCalls \in Nat /\ MaxChanges \in Nat

VARIABLES
    owner,       \* what the kernel has bound to each interface
    javaClaimed, \* UsbInterfaceImp.isJavaClaimed()
    call,        \* the call each thread makes
    readyList,   \* threads whose requests wait, first submitted first
    native,      \* what the proxy thread does
    calls, changes,                          \* bounds
    refusals, overtaken, stray   \* history

kernel == <<owner, changes>>
history == <<refusals, overtaken, stray>>
vars == <<owner, javaClaimed, call, readyList, native, calls, changes, history>>

Keeping == {"claim", "forceClaim", "release"}
Checked == {"interfaceControl", "setInterface"}   \* recipient: an interface
Using == Checked \cup {"vendorControl"}           \* whatever the recipient it names
WithoutInterface == {"vendorControl", "deviceControl"}   \* may need no interface
Ops == Keeping \cup Using \cup WithoutInterface \cup {"isClaimed", "setConfiguration"}

Idle == [pc |-> "poll"]

TypeOK ==
    /\ owner \in [Interfaces -> {"none", "us", "driver"}]
    /\ javaClaimed \in [Interfaces -> BOOLEAN]
    /\ call \in [Callers -> [op : Ops, i : Interfaces, error : BOOLEAN, claimed : BOOLEAN,
                             at : {"outside", "checked", "waiting", "completed"}]]
    /\ readyList \in Seq(Callers)
    /\ native \in {Idle} \cup [pc : {"serve", "disconnect"}, c : Callers, triedDisconnect : BOOLEAN]
    /\ calls \in [Callers -> 0..MaxCalls] /\ changes \in 0..MaxChanges
    /\ refusals \in [Callers -> 0..2] /\ stray \subseteq Interfaces
    /\ overtaken \subseteq Callers

Init ==
    /\ owner \in [Interfaces -> {"none", "driver"}]
    /\ javaClaimed = [i \in Interfaces |-> FALSE]
    /\ call \in {[c \in Callers |-> [op |-> "isClaimed", i |-> i, at |-> "outside",
                                     error |-> FALSE, claimed |-> FALSE]] : i \in Interfaces}
    /\ readyList = <<>>
    /\ native = Idle
    /\ calls = [c \in Callers |-> 0]
    /\ changes = 0
    /\ refusals = [c \in Callers |-> 0]
    /\ overtaken = {} /\ stray = {}

-----------------------------------------------------------------------------
(* The application threads.                                                *)

\* Mutant: the recipient of a control request is never looked at.
MayAskUnclaimed(c, op, i) ==
    /\ op \in {"claim", "forceClaim"} => Keeper[i] = c /\ ~javaClaimed[i]
    /\ op = "release" => Keeper[i] = c /\ javaClaimed[i]

\* What is asked before a request is made. checkUnclaimedInterface() throws if
\* the interface that is the recipient (or owns the endpoint that is) is not
\* claimed, but lets pass vendor requests, whatever their recipient, and those to
\* the device or to endpoint 0; UsbInterfaceImp does not claim twice or release
\* what is not claimed.
MayAsk(c, op, i) ==
    /\ op \in {"claim", "forceClaim"} => Keeper[i] = c /\ ~javaClaimed[i]
    /\ op = "release" => Keeper[i] = c /\ javaClaimed[i]
    /\ op \in Checked => javaClaimed[i]

\* A release is done, and its keeper has not noted it yet.
ReleaseReturning(i) ==
    \E k \in Callers : call[k].i = i /\ call[k].op = "release" /\ call[k].at = "completed"

Ask(c) ==
    /\ call[c].at = "outside"
    /\ calls[c] < MaxCalls
    /\ calls' = [calls EXCEPT ![c] = @ + 1]
    /\ \E op \in Ops, i \in Interfaces :
          /\ MayAsk(c, op, i)
          /\ call' = [call EXCEPT ![c] = [op |-> op, i |-> i, at |-> "checked",
                                          error |-> FALSE, claimed |-> FALSE]]
          /\ overtaken' = IF ReleaseReturning(i) THEN overtaken \cup {c} ELSE overtaken \ {c}
    /\ refusals' = [refusals EXCEPT ![c] = 0]
    /\ UNCHANGED <<kernel, javaClaimed, readyList, native, stray>>

Submit(c) ==
    /\ call[c].at = "checked"
    /\ call' = [call EXCEPT ![c].at = "waiting"]
    /\ readyList' = Append(readyList, c)
    /\ UNCHANGED <<kernel, javaClaimed, native, calls, history>>

\* waitUntilCompleted() ends; claim() and release() throw if there is an error,
\* and UsbInterfaceImp notes what has changed if there is none.
Return(c) ==
    /\ call[c].at = "completed"
    /\ call' = [call EXCEPT ![c].at = "outside"]
    /\ javaClaimed' = IF call[c].error \/ call[c].op \notin Keeping THEN javaClaimed
                      ELSE [javaClaimed EXCEPT ![call[c].i] = call[c].op # "release"]
    /\ UNCHANGED <<kernel, readyList, native, calls, history>>

-----------------------------------------------------------------------------
(* The proxy thread.                                                       *)

GetReadyRequest ==
    /\ native = Idle
    /\ readyList # <<>>
    /\ native' = [pc |-> "serve", c |-> Head(readyList), triedDisconnect |-> FALSE]
    /\ readyList' = Tail(readyList)
    /\ UNCHANGED <<kernel, javaClaimed, call, calls, history>>

Serving(c, ops) == native.pc = "serve" /\ native.c = c /\ call[c].op \in ops

\* submitRequest(): setError(), setCompleted(true).
CompleteRequest(c, error, claimed) ==
    /\ call' = [call EXCEPT ![c].at = "completed", ![c].error = error, ![c].claimed = claimed]
    /\ native' = Idle

\* An ioctl binds interface i to owner o, or unbinds it.
Bind(i, o) == owner' = [owner EXCEPT ![i] = o]

\* Mutant: the error of the first attempt is kept.
RetKept(c, failed) == failed \/ native.triedDisconnect

\* Mutant: a claim that was to be forced is taken for made.
RetForced(c, failed) == failed /\ ~native.triedDisconnect

\* The error of a claim is that of its last attempt.
Ret(c, failed) == failed

\* ioctl(USBDEVFS_CLAIMINTERFACE): fails if a driver, or another process, has it.
ClaimInterface(c) ==
    /\ Serving(c, {"claim", "forceClaim"})
    /\ owner[call[c].i] # "driver"
    /\ Bind(call[c].i, "us")
    /\ CompleteRequest(c, Ret(c, FALSE), FALSE)
    /\ stray' = stray \ {call[c].i}
    /\ UNCHANGED <<javaClaimed, readyList, calls, changes, refusals, overtaken>>

\* Mutant: the policy of the application is not asked.
MayDisconnectAlways(c) == ~native.triedDisconnect

\* Mutant: triedDisconnect is not looked at.
MayDisconnectAgain(c) == call[c].op = "forceClaim"

\* Whether a refused claim goes round once more.
MayDisconnect(c) == call[c].op = "forceClaim" /\ ~native.triedDisconnect

ClaimRefused(c) ==
    /\ Serving(c, {"claim", "forceClaim"})
    /\ owner[call[c].i] = "driver"
    /\ refusals' = [refusals EXCEPT ![c] = IF @ = 2 THEN 2 ELSE @ + 1]   \* 2: or more
    /\ IF MayDisconnect(c)
         THEN /\ native' = [native EXCEPT !.pc = "disconnect", !.triedDisconnect = TRUE]
              /\ UNCHANGED call
         ELSE CompleteRequest(c, Ret(c, TRUE), FALSE)
    /\ UNCHANGED <<kernel, javaClaimed, readyList, calls, overtaken, stray>>

\* disconnect_interface_driver(): no memory, no driver any more (ENODATA) or no
\* such ioctl (ENOSYS) only go to the log; the claim is tried again anyhow.
DisconnectDriver(c) ==
    /\ native.pc = "disconnect" /\ native.c = c
    /\ native' = [native EXCEPT !.pc = "serve"]
    /\ \/ owner[call[c].i] = "driver" /\ Bind(call[c].i, "none")
       \/ UNCHANGED owner
    /\ UNCHANGED <<javaClaimed, call, readyList, calls, changes, refusals, overtaken, stray>>

\* ioctl(USBDEVFS_RELEASEINTERFACE).
ReleaseInterface(c) ==
    /\ Serving(c, {"release"})
    /\ IF owner[call[c].i] = "us"
         THEN /\ Bind(call[c].i, "none")
              /\ CompleteRequest(c, FALSE, FALSE)
              /\ stray' = stray \ {call[c].i}
              /\ overtaken' = overtaken \cup {d \in Callers : call[d].i = call[c].i}
         ELSE /\ CompleteRequest(c, TRUE, FALSE)
              /\ UNCHANGED <<owner, stray, overtaken>>
    /\ UNCHANGED <<javaClaimed, readyList, calls, changes, refusals>>

\* ioctl(USBDEVFS_GETDRIVER) names the driver; usbdevfs is one as others are.
HasDriver(i) == owner[i] # "none"

IsClaimed(c) ==
    /\ Serving(c, {"isClaimed"})
    /\ CompleteRequest(c, FALSE, HasDriver(call[c].i))
    /\ UNCHANGED <<kernel, javaClaimed, readyList, calls, history>>

\* set_interface(), control_pipe_request(): the kernel claims an interface that
\* is free for whoever uses it, and refuses one that a driver has. Some kernels
\* look at the recipient of vendor requests, too.
UseInterface(c) ==
    /\ Serving(c, Using)
    /\ CASE owner[call[c].i] = "us" ->
              /\ CompleteRequest(c, FALSE, FALSE)
              /\ UNCHANGED <<owner, stray>>
         [] owner[call[c].i] = "none" ->
              /\ Bind(call[c].i, "us")
              /\ CompleteRequest(c, FALSE, FALSE)
              /\ stray' = stray \cup {call[c].i}
         [] OTHER ->
              /\ CompleteRequest(c, TRUE, FALSE)
              /\ UNCHANGED <<owner, stray>>
    /\ UNCHANGED <<javaClaimed, readyList, calls, changes, refusals, overtaken>>

\* control_pipe_request(), when the kernel sees no interface in it: a request to
\* the device or to endpoint 0, or a vendor request whose recipient it ignores.
ControlOnly(c) ==
    /\ Serving(c, WithoutInterface)
    /\ \E failed \in BOOLEAN : CompleteRequest(c, failed, FALSE)
    /\ UNCHANGED <<kernel, javaClaimed, readyList, calls, history>>

\* set_configuration(): the kernel refuses while any interface is bound.
SetConfiguration(c) ==
    /\ Serving(c, {"setConfiguration"})
    /\ CompleteRequest(c, \E i \in Interfaces : owner[i] # "none", FALSE)
    /\ UNCHANGED <<kernel, javaClaimed, readyList, calls, history>>

\* malloc() fails before the first ioctl.
OutOfMemory(c) ==
    /\ Serving(c, Ops)
    /\ ~native.triedDisconnect
    /\ CompleteRequest(c, TRUE, FALSE)
    /\ UNCHANGED <<kernel, javaClaimed, readyList, calls, history>>

Proxy(c) ==
    \/ ClaimInterface(c) \/ ClaimRefused(c) \/ DisconnectDriver(c) \/ ReleaseInterface(c)
    \/ IsClaimed(c) \/ UseInterface(c) \/ ControlOnly(c) \/ SetConfiguration(c)
    \/ OutOfMemory(c)

-----------------------------------------------------------------------------
(* Drivers and other processes (external): they take what is free, and     *)
(* leave it; they do not take what this program has.                       *)

OthersChange ==
    /\ changes < MaxChanges
    /\ changes' = changes + 1
    /\ \E i \in Interfaces :
          /\ owner[i] # "us"
          /\ Bind(i, IF owner[i] = "none" THEN "driver" ELSE "none")
    /\ UNCHANGED <<javaClaimed, call, readyList, native, calls, refusals, overtaken, stray>>

Next ==
    \/ \E c \in Callers : Ask(c) \/ Submit(c) \/ Return(c) \/ Proxy(c)
    \/ GetReadyRequest
    \/ OthersChange

Fairness ==
    /\ WF_vars(GetReadyRequest)
    /\ \A c \in Callers : WF_vars(Submit(c)) /\ WF_vars(Return(c)) /\ WF_vars(Proxy(c))

Spec == Init /\ [][Next]_vars /\ Fairness

-----------------------------------------------------------------------------
(* Properties.                                                             *)

InMidst(i, ops) == call[Keeper[i]].at # "outside" /\ call[Keeper[i]].i = i
                   /\ call[Keeper[i]].op \in ops

\* From the return of a claim() that did not throw until the keeper calls
\* release(), the kernel has the interface bound to this program: whatever the
\* first attempt of a forced claim met, its outcome is that of the last one.
ClaimTellsTruth ==
    \A i \in Interfaces :
        javaClaimed[i] /\ ~InMidst(i, {"release"}) => owner[i] = "us"

\* The converse: a claim() that threw leaves the interface to others, and so
\* does a release() that returned.  What the kernel claimed by itself, for a
\* control request that came too late or that is not checked, is excepted (stray).
NothingKeptUnclaimed ==
    \A i \in Interfaces :
        owner[i] = "us" /\ ~javaClaimed[i] => InMidst(i, Keeping) \/ i \in stray

\* A driver loses its interface to this program only in a forced claim of that
\* interface which has been refused once: not for the asking, and not twice.
ForceOnlyWhenAsked ==
    [][\A i \in Interfaces :
          owner[i] = "driver" /\ owner'[i] # "driver" /\ changes' = changes =>
              \E c \in Callers : /\ call[c].op = "forceClaim" /\ call[c].i = i
                                 /\ call[c].at = "waiting" /\ refusals[c] = 1]_vars

\* checkUnclaimedInterface() looks at the claim when a request is made, not when
\* it is served. The kernel binds an interface that nobody claimed only for the
\* request that is being served, and that is a vendor request, which is not
\* checked, or one that a release overtook: served in between, or about to return
\* when the request was made.
UnclaimedIsNotUsed ==
    [][\A i \in stray' \ stray :
          \E c \in Callers : /\ Serving(c, Using) /\ call[c].i = i
                             /\ call[c].op \in Checked => c \in overtaken]_vars

\* Every request that is submitted is served and its caller returns, although
\* drivers come back as often as they are disconnected.
CallReturns == \A c \in Callers : call[c].at = "waiting" ~> call[c].at = "outside"
=============================================================================
