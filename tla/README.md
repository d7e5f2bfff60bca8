# A verification development for the Linux implementation of javax.usb

This directory holds TLA+ models of `javax-usb-ri-linux`, the TLC configurations that
check them on small instances, and proofs, checked by TLAPS, of what holds for any
number of threads, requests and URBs. `src/` below is the repository.

The program has two halves. The Java half (`src/src/com/ibm/jusb/os/linux/`) turns the
calls of javax.usb into *requests*. The C half (`src/jni/`) runs one native *proxy
thread* per open device that takes the requests, hands them to the kernel's usbdevfs and
completes them, and one *topology listener* that watches `/proc/bus/usb/devices`. The two
halves share Java objects through JNI and have no other protocol than the order in which
they touch them.

## 1. The system

| Part | State | Operations | Talks to |
|---|---|---|---|
| Request queue (`LinuxRequestProxy`, `LinuxDeviceProxy`) | `readyList`, `cancelList` | `submit`, `cancel`, `isRequestWaiting`, `getReadyRequest`, `getCancelRequest` | application threads append; the proxy thread takes |
| Native proxy loop (`JavaxUsbDeviceProxy.c`) | the descriptor of the device | poll, submit, cancel, reap; ends on ENODEV | usbdevfs; calls `setError`, `setCompleted` on requests |
| Request (`LinuxRequest`, `LinuxPipeRequest`, `LinuxIsochronousRequest`) | `errorNumber`, `completed`, `waitCount`, `urbAddress`, the IRP | `setCompleted`, `waitUntilCompleted`, `completeUsbIrp` | the IRP of the application, the pipe's list |
| Pipe (`LinuxPipeOsImp`) | `inProgressList` | `asyncSubmit`, `abortAllSubmissions`, `linuxRequestComplete` | the request queue, the waits |
| Start of the proxy (`LinuxDeviceOsImp`, `LinuxDeviceProxy`) | `thread`, `startError` | `getLinuxDeviceProxy`, `start`, `startCompleted` | starts the native thread, waits for its answer |
| Usbdevfs URBs (`JavaxUsb{Pipe,Bulk,Interrupt,Control}Request.c`) | memory of the URBs | submit, reap, discard, free | the kernel |
| Interfaces (`LinuxInterfaceOsImp`, `JavaxUsbInterfaceRequest.c`) | the claim, kept by the kernel | `claim`, `release`, `isClaimed`, forced disconnection of a driver | a request that its caller waits for |
| Isochronous transfers (`LinuxIsochronousRequest`, `JavaxUsbIsochronousRequest.c`) | one buffer for several IRPs | create, fill, submit, complete each IRP | as other URBs |
| Topology update (`LinuxUsbServices`, `JavaxUsbTopologyUpdater.c`) | the tree of hubs and devices | `updateTopology`, `checkUsbDeviceImp`, `build_device` | `/proc/bus/usb` |
| Topology listener (`JavaxUsbTopologyListener.c`, `LinuxUsbServices`) | error count, the update queue | poll, update, first update | `getRootUsbHub()` waits for it |
| Descriptor parser (`JavaxUsbTopologyUpdater.c`) | none | `build_config`, `build_interface`, `get_descriptor` | builds the Java descriptors |
| Active configuration (`JavaxUsbActive.c`, `LinuxUsbServices`) | active configuration and settings | `getActiveConfig`, `setActiveConfigAndInterfaceSettings` | the kernel, the device |
| Kernel version, JNI library, logging | none of its own | | |

**What is hard.** Four kinds of threads share a request: the application thread that
submits it, the one that aborts its pipe, the ones that wait for it, and the native proxy
thread; and the kernel completes URBs on its own. The two lists of the queue have two
locks and are read without either. `completed` and `errorNumber` have no lock. A request
is completed in four writes that other threads can see between. An abort gives up after
half a second and completes a request that may still be in the kernel. The kernel knows
an URB by its address, which `malloc()` uses again. The device can disappear at any
moment and takes the proxy loop with it. `start()` waits exactly once.

**What makes each part correct.**

- *Queue and proxy loop*: a request is in one place at a time; when its IRP is handed
  back nothing of it is left in the queue or the kernel; it is completed once; no failure
  is reported as a success; a submitted request is served and a finished URB reaped.
- *Pipe*: an abort can reach every live request, completes all it takes, and returns.
- *Request*: a thread that sees the flag sees the outcome; no notification is missed.
- *Start*: one native thread per device, known to `isRunning()`; `start()` tells the truth.
- *URBs*: while the kernel has an URB its request remembers exactly its address.
- *Interfaces*: what `claim()` and `release()` say is so; a driver loses its interface only
  to a forced claim, and once.
- *Transfers*: each IRP gets its own part of the buffer, its own length and status, and the
  memory of a transfer is given back once, whatever fails.
- *Topology*: after an update the tree is what was on the bus; nothing is disconnected
  that is still there; each remaining device stays the same object; nothing is attached below,
  or announced before, a hub that is not.
- *Listener*: a change of the bus leads to an update that sees it; the first update, or its
  timeout, ends every wait.
- *Parser*: every well formed descriptor ends up below the one it belongs to.
- *Active configuration*: it is one the object has, and the one the device names.

## 2. The modules

| Module | Models |
|---|---|
| `Usbfs` | the kernel side of one descriptor (external, except for the `free()` after a reap): the device, and the URB at each address |
| `DeviceProxy` | requests from submission to completion: submitters, aborters, the proxy loop; EXTENDS `Usbfs` |
| `RequestContract` | the abstract specification of a request: what submitting an IRP promises |
| `DeviceProxyInv` | the inductive invariant of `DeviceProxy`, and the refinement of `RequestContract` |
| `MCDeviceProxy` | its instances for TLC (pipes of the requests, symmetry) |
| `ListTheorems` | lemmas about the operators on sequences, about recursive functions and numbering, for the proofs |
| `DeviceProxyProofs` | proofs about `DeviceProxy` |
| `ProxyStart`, `MonitorProofs` | `start()`, `startCompleted()` and the life of the native threads |
| `RequestWait`, `MonitorProofs` | the monitor of a request: `waitUntilCompleted()`, `notifyCompleted()` |
| `Transfers`, `MCTransfers`, `TransfersProofs` | one transfer of each kind: buffers, packets, flags, lengths, errors, memory |
| `InterfaceClaim`, `MCInterfaceClaim`, `InterfaceClaimProofs` | claim, forced claim, release, is-claimed and the requests that use an interface, among drivers |
| `Topology`, `MCTopology`, `TopologyProofs` | `updateTopology()`, `checkUsbDeviceImp()`, `build_device()` over busses that change |
| `DeviceSetup`, `MCDeviceSetup`, `DeviceSetupProofs` | the descriptors of one device, read and made objects; its active configuration |
| `FirstUpdate`, `FirstUpdateProofs` | the topology listener, the queue of updates, the waits of `getRootUsbHub()` |

Each module takes from the others, as one step, what the others have in detail:

- `DeviceProxy` takes `start()` as one step (`ProxyAvailable`, `PcWithProxy`: the proxy runs
  afterwards, or an exception is thrown); `ProxyStart` shows that this is so as long as nobody
  is interrupted.
- It takes a wait as one step (`WaitUntilCompleted` needs the flag, `AbortTimeout` its absence
  at one moment); `RequestWait` shows that an untimed wait returns only with the flag, that a
  timed one always returns, and that no notification is missed.
- It takes a transfer as its outcome, and the requests served by an ioctl as one kind;
  `Transfers` and `InterfaceClaim` have what these do, one request at a time, which is how the
  proxy thread serves them.
- `Topology` takes a device as what the tree can show of it, and `FirstUpdate` an update as a
  scan of a number; `DeviceSetup` has the inside of one call of `build_device()`, and
  `Topology` the whole of `updateTopology()`.

### How `DeviceProxy` corresponds to the code

A step ends where the code releases a lock or where another thread can see what it did.

| Code | Model |
|---|---|
| `LinuxDeviceOsImp.submit` | `GetLinuxDeviceProxy` or `RejectSubmission`, then `Submit` |
| `LinuxPipeOsImp.asyncSubmit` | the above, then `AddInProgress` |
| `LinuxInterfaceOsImp.claim`, `release`, `isClaimed` | the above, then `WaitUntilCompleted` |
| `setCompleted(true)` | `CompleteUsbIrp` (the IRP), `SetCompleted` (the flag), `ExecuteCompletion` (the list) |
| `abortAllSubmissions` | `AbortAllSubmissions` (the copy); `CancelNext`/`CancelSkipped`, `CancelReady`/`CancelNotReady`, `CancelAdd` per request; `AbortedCompleted` or `AbortTimeout`, `Expire` and a completion per request; `AbortReturn` |
| `nativeDeviceProxy` | `PollSeen`/`PollMissed`, `GetReadyRequest`, `SubmitRequest*`, `CancelRequest`, `CompleteRequest`/`ReapNothing`/`ReapNoDevice`, `ProxyExit` |

`readyLock` is the monitor of `readyList`, which `cancel()` holds while it completes a
request; every other synchronized block is a single step. `ret` is the place a thread goes
on after `setCompleted()`. The variables `transferred`, `aborted`, `expired` and
`completions` record history for the properties; no guard reads them.

A transfer is its outcome (`errorNumber` is one of five classes of error); a pipe transfer
and an isochronous one differ only in what they do with the error; time is a choice (a timeout
may fire whenever its wait has not ended); `isRequestWaiting()`, which reads two unlocked
lists, may miss an element for a while.

**The refinement.** `RequestContract` has four variables per instance and knows no thread:
a request is submitted, may be served by the device, may be abandoned by an abort, and is
completed with an outcome that is a success only if it was served. `Serve` and `Complete` need
the request to be *open*: submitted and not completed, or abandoned. `DeviceProxyInv` maps
`submitted` to the requests past `LinuxRequestProxy.submit()`, `served` to `transferred`,
`abandoned` to `expired` and `outcome` to the IRP. Isochronous requests are `Unreported`: their
errors do not reach the IRP (section 4).

### How the other modules correspond to the code

- `ProxyStart`: `StartThread` is the `synchronized (startLock)` block up to `wait()`,
  `StartReturns` what follows it; `native[n]` is how far `nativeDeviceProxy()` has come.
  `monitor` is the monitor of the `LinuxDeviceProxy`, held all through `start()`.
- `RequestWait`: `EnterWait`, `Sleep`, `Reacquire` and `Leave` are the loop of
  `waitUntilCompleted()`; `PollExpires` is the end of `wait(1000)` without a notification.
  `IsCompleted` gives the answers an unsynchronized read may give.
- `Transfers`: `phase` is the point `pipe_request()` or `isochronous_request()` has come to.
  `AllocateUrb`, `FillUrb`, `SubmitUrb` follow one another; `Refuse` is the error path from any
  of them, and `HeldAt` what it frees. `BufferOf` and `PacketLengths` are what the code puts into
  an URB, `CopyFrom` and `CopyBack` what it takes out, `ActualLength` how much of it and
  `ReportedLength` what it tells the IRP (a simple isochronous request reports the length of its
  packet as it is, and clamps only what it copies). The kernel side (`KernelPacket`,
  `Reports`, `FinishUrb`) splits the buffer on its own terms, by the lengths of the packets,
  and so can disagree with the code. A byte is where it comes from, so that a byte in the wrong
  place is seen. Valid IRPs are assumed (data not null and large enough, parts disjoint): the
  classes of javax.usb check that before the request gets here.
- `InterfaceClaim`: `MayAsk` is `checkUnclaimedInterface()` (and the same check in
  `UsbInterfaceImp`, which is another repository's). It throws for the requests in `Checked`, and
  lets pass vendor requests, whatever their recipient, and those to the device or to endpoint 0.
  Some kernels look at the recipient of a vendor request and claim the interface (`UseInterface`),
  others do not (`ControlOnly`): the model has both. `Ask`, `Submit` and `Return` the call around the
  queue; `ClaimInterface`, `ClaimRefused` and `DisconnectDriver` are `claim_interface()`, cut at
  each ioctl, since drivers act in between. `stray` are interfaces the kernel claimed by
  itself for a request that came too late or was not checked.
- `Topology`: `pending` holds the calls of `build_device()` still to be made, depth first;
  `BuildDevice` is one call, up to its recursion, with `checkUsbDeviceImp()`; `connected`
  and `disconnected` are the two lists. A port may be read, and the device on it be gone or
  another one have its address when its call comes (`BuildGone`, `BuildDevice`). The four loops of
  `updateTopology()`, which `phase` names, take one device at a time: `Disconnect` (a hub before
  what hangs on it, as `fillDeviceList()` lists them), `Attach`, `AnnounceDetached` and
  `AnnounceAttached` (both in the order of the list), with `NextLoop` between them and
  `UpdateDone` at the end. The host controller
  is taken to have the lowest address of its bus, as the code hopes. The classes of the
  tree (`UsbHubImp`, `UsbPortImp`) belong to another repository: `disconnect()` is taken
  to detach a device from its port, and `attachUsbDeviceImp()` to attach it.
- `DeviceSetup`: `offset` is the file offset and `end` what `pos` and `wTotalLength` leave of the
  current configuration. `Read` is a successful `get_descriptor()`; each iteration of the loop
  of `build_config()` is `BuildNext`, `BuildFails` or `ConfigDone`. A descriptor shorter than its
  structure leaves the rest of the structure to what is in memory (`Field`, `Garbage`). `OpenFails`
  and `IoctlFails` (HUB_PORTINFO, CONNECTINFO) are the exits of `build_device()` before its
  descriptors are read, and may happen to a device that is there ("refused").
  `AskDevice`, `AskFails` and `AskGone` are the ways of `nativeGetActiveConfigurationNumber()`,
  which opens the device again, by address, after the whole scan. What was compiled out is
  left out (section 6).
- `FirstUpdate`: `listener` is how far `nativeTopologyListener()` is, `queued` the length of the
  `topologyUpdateManager`, `update` where its thread is in `updateTopology()`; `scanned` and `tree`
  number the states of the bus. `monitor` is that of `LinuxUsbServices`, which
  `getRootUsbHub()` keeps while it waits on `topologyLock`.

## 3. The runs

| Run | Question | Instance |
|---|---|---|
| `requests` | does every interleaving keep the life of a request in order, and its contract? | a pipe request, an isochronous one, one claim, one aborter, two URB addresses, unplug; 2.2 million states |
| `requests_live` | do aborts, requests and finished URBs get on? | one pipe request, one claim, one aborter, one address |
| `start` | one native thread, and does `start()` tell what happened to it? | three starters, three native threads, one of the starters may wake early |
| `wait` | does nobody miss the completion? | three waiters, one timed; two completers |
| `topology` | does the tree follow the bus, and stay a tree? | two host controllers, a hub, a device that takes the hub's address, two devices that look alike and a third that takes their address elsewhere; five changes or failures, updates for ever, each loop one device at a time; 865 thousand states |
| `transfers` | do bytes, lengths and errors get to the right IRP, and memory back? | five kinds of transfer, six layouts of one or two IRPs in an array of four bytes, four kernels |
| `device_setup` | does the object have what the device has? | five devices, three of them with ill formed descriptors; three changes at the address; `open()` and ioctls that fail |
| `claim` | is what `claim()` and `release()` say so? | one interface, its keeper and another thread, three calls each, a driver that comes or goes twice; requests that are checked and requests that are not; 203 thousand states |
| `first_update` | is no change forgotten, and does every caller return? | two callers, three states of the bus, polling or listening, two poll errors of which one is tolerated |
| `stale_discard` | does a cancellation hit its own request? (no) | two requests, one address |
| `start_interrupted` | is a running native thread known after an interrupt? (no) | as `start` |
| `iso` | do isochronous IRPs get their error? (no) | as `transfers` |

**Properties of `requests`.** `UrbAccounting`: `completeRequest()` finds the URB through the
address its request remembers, so these must agree for every URB in the kernel.
`NoTransferAfterCompletion`: a request handed back to the application is not queued, not
about to be submitted and not in the kernel. `FlagMeansSettled`: whoever sees the flag sees the
outcome. `CompletedOnce`: `setCompleted(true)` happens once, and once more only by an abort that gave up. `LiveRequestTracked` and
`AbortedAreCompleted`: an abort finds every live request, and lets go of none before it is
completed. `ImplementsContract`: the refinement. The safety properties except requests an abort
*gave up* on (`expired`): for these the code does otherwise (section 4). `NoFalseSuccess` and
`OutcomeStable` follow from the contract and are proved; no run repeats them.

**Properties of the other runs.**

- `start`: `OneProxyThread` and `NoStrayThread` (one native thread, and `isRunning()` or the
  running `start()` knows it), `StartTellsTruth`, `StarterServed` (the one notification
  `start()` waits for comes).
- `wait`: `NoLostWakeup`, `WaitReturns`.
- `topology`: `PortHoldsOne` at every moment of an update; `TreeRooted` (everything attached
  hangs on a hub that is attached, at every moment, except below a hub that the disconnect
  loop has just taken away, and there only what the same loop takes away as well);
  `UpdateIsFaithful` (after an update during which nothing changed the tree is the bus,
  whatever was seen before); `EventsMatchTree` (between updates listeners know what is attached,
  and they never know a device that is attached without its hub);
  `SteadyDevicesKept` (a device that stays, and can be read, keeps its object if that was in
  the right place when the update began: `settled`), `TreeSettles` (after the last change the tree becomes the bus and stays so).
- `transfers`: `DeviceGetsWhatWasGiven` (the kernel cuts the buffer into exactly the bytes of
  each IRP), `ArrayGetsWhatCame` (and what comes back goes to the IRP it came for, and nowhere
  else), `NothingLeaks`, `FailureIsReported` (an IRP has an error exactly when its transfer
  failed, a forbidden short packet included).
- `device_setup`: `TreeMatchesDevice` compares the loop's result with a definition over the list
  of descriptors; `NoFalseRejection`: it gives up over descriptors only with a
  device that left or that has an ill formed one (a device that `open()` or an ioctl refuses is
  left out: the code does give up on it, though it is there); `ActiveExists` and `ActiveIsTheDevices`: whoever answers, the active configuration is
  one the object has, and if it was the device that named one, that one, with the setting of each
  interface that has only one there.
- `claim`: `ClaimTellsTruth` and `NothingKeptUnclaimed` (from the return of `claim()` to the
  call of `release()` the interface is ours in the kernel, and otherwise not),
  `ForceOnlyWhenAsked`, `UnclaimedIsNotUsed` (the kernel claims an interface by itself only for the request
  it is given, which is a vendor request or was overtaken by a release), `CallReturns`.
- `first_update`: `NoLostFirstUpdate`, `NoChangeForgotten` (a change the tree does not show is
  pending, queued, or ahead of the scan), `ChangeIsSeen`, `CallersReturn`.

**Bounds, and why they are enough.** Requests are submitted once (each is a fresh object).
Two requests on one pipe are needed for one to take over the other's address, and for one
to be aborted while the other is served; a third, served without an URB, shares the queue.
Two addresses let two URBs be in flight and one be freed and used again. One aborter races
the proxy thread at every step of `cancel()`; its abort can be repeated, since
`AbortAllSubmissions` starts whenever the pipe's list is not empty. One device is unplugged
at most once. For the safety run the addresses are symmetric; the
liveness runs have no symmetry. Three starters are needed for one to find `startError` left by
a second while a third waits for the monitor; a native thread is used once, so three starts
can happen. In `Topology` five changes let a hub be replaced by a device with its address and
both come back, with a failure of the scan in between; objects are reused once nobody
knows them, so the number of updates is not bounded, and eight objects are never all in use.
In `Transfers` a layout has an offset, a part that ends the array, an empty part, and two parts
in either order; requests follow one another for ever. The devices of `DeviceSetup` have two configurations,
two settings of one interface, an interface without endpoints, a class descriptor of the least
length and one between an interface and its endpoint; the ill formed ones say that a descriptor is
longer than it is, that one has length 0, or have interface and endpoint descriptors too short for their fields;
three changes let a device be replaced and configured between any two reads.
In `InterfaceClaim` three calls are a claim, a release and one that either overtakes, or a failed claim and a forced one; two changes let
a driver take the interface again after it was disconnected. In `FirstUpdate` three states of the
bus let one change be scanned, one be missed by that scan, and two callers queue for the monitor;
the bound of errors is 64 in the code, where one stands for all that are tolerated.

**Fairness.** Every thread goes on: application threads inside a call, aborters, the proxy
loop. The loop never blocks (it uses REAPURBNDELAY and sleeps between rounds), locks are
held for a few statements, and every wait that has a timeout ends by time. Nothing makes the
application submit or abort, a device answer, or be unplugged: `AbortReturns` and
`AbortReachesKernel` hold for a device that never answers. `SF_vars(PollSeen)` says that the
unlocked read does not miss the same element for ever. In `ProxyStart` `open()` returns
and notified threads go on. In `RequestWait` a thread that wants the lock gets it in the end,
a half second passes; the one-second poll of an untimed wait is *not* assumed: notification
alone is enough. In `Topology` the polling thread goes on for ever. In `InterfaceClaim` the
proxy thread and submitted callers go on, drivers need not do anything. In `FirstUpdate` the
listener, the update thread and the ten seconds of the wait go on; nothing makes the bus change,
`poll()` fail, or anybody call.

**Deadlock** is not checked (`CHECK_DEADLOCK FALSE`) where the systems really stop: all
requests of the instance are served and none is left to submit, or the device is gone, the
proxy has ended and what was in its lists is stranded; all native threads of `ProxyStart` are
used up; all waiters of `RequestWait` returned; the device of `DeviceSetup` is set up and nothing
happens any more; the calls of `InterfaceClaim` are made; the callers of `FirstUpdate` have
returned and the bus is at rest. `Topology` and `Transfers` never stop, and deadlock is checked
there. That progress is made where it should be is the business of the liveness properties.

## 4. What the code does otherwise

Shown by runs:

- **A cancellation can hit another request** (`stale_discard`). `urbAddress` is not reset
  when the URB is freed; a cancellation taken from `cancelList` after its request was
  reaped discards whatever URB `malloc()` put at that address.
- **An interrupted `start()` leaves a native thread nobody knows** (`start_interrupted`),
  and the next one starts a second.
- **The errors of isochronous requests are lost** (`iso`): that of a submission, since
  `completeUsbIrp()` does not pass it on, and that of a packet, since an unsigned status is
  never below 0.

Part of the models, and excepted by name in the properties they would break:

- An abort leaves requests running: after half a second the request is completed and its
  buffer given back with the URB in flight (`expired`, `RequestContract.Abandon`), though
  `LinuxPipeOsImp.java:72` says "Stop all submissions in progress".
- A request that completes before `asyncSubmit()` adds it to `inProgressList` stays there until
  the next abort, which cancels it again: the way into `stale_discard`.
- Ports of host controllers move: the port is the index of the bus directory in the listing, so
  when a bus goes away everything on the ones after it is disconnected and built again
  (`settled` in `SteadyDevicesKept`).
- A device that gets the address of another while an update is between reading the port and
  reading the address is attached to the port of that other; the next update disconnects it and
  builds it again in its place (`settled` again; `UpdateIsFaithful` asks for an undisturbed update).
- A control request that is checked and then overtaken by `release()` makes the kernel claim the
  interface again, for nobody (`stray`). Vendor requests are not checked at all
  (`LinuxDeviceOsImp.java:121`, "Ignore "recipient" of Vendor requests"): with a kernel that looks at
  their recipient they do the same without any release.
- `disconnect()` takes a hub away before the devices that hang on it, so for the rest of that loop
  they hang on a hub that is not in the tree (`phase = "disconnect"` in `TreeRooted`).
- A device that is there and well formed is given up, with all that hangs on it, when `open()`,
  HUB_PORTINFO or CONNECTINFO fails; the next update builds it anew (`refused`, and
  `BuildFails` of `Topology`).
- A device that answers that it is not configured is shown with its configuration if it has
  only one (`answered > 0` in `ActiveIsTheDevices`). An interface with several settings keeps the
  setting its constructor chose, since `getActiveInterfaceSetting()` as built always fails.
- A last descriptor that overruns `wTotalLength` eats into the next configuration, and the fields
  of an interface or endpoint descriptor that is too short for them are whatever lies behind it in
  memory (`WellFormed` in `TreeMatchesDevice` excludes both).
- A kernel whose release does not begin with three numbers is taken to be 2.4.0.
- When the device is unplugged, requests in the lists or in the kernel are never completed
  unless somebody aborts their pipe, and `claim()`, `release()` and `isClaimed()` wait for ever.
  `RequestServed` and `FinishedReaped` except the unplugged device for that reason.

## 5. What is proved

Assumptions: `NoneAssumption`, `RequestsAssumption`, `ThreadsAssumption`, `WaitersAssumption` (the constants are
disjoint where they must be; isochronous requests have an URB, claims have none and no pipe;
the set of waiters of `RequestWait` is finite), `CallersAssumption`, `NumbersAssumption`
(`FirstUpdate`: None is nobody, the bounds are numbers, there is a first change),
`KeeperAssumption` and `BoundsAssumption` (`InterfaceClaim`: each interface has one keeper),
`DevicesAssumption` and `TreeAssumption` (`Topology`: finitely many devices, each with its
port, and no hubs plugged in a circle), `LayoutsAssumption` (`Transfers`: the IRPs are valid),
`DevicesAssumption` of `DeviceSetup` (a device is a list of one or more configurations, each a value
and any list of byte lists).
No bound on requests, addresses, pipes, threads, interfaces, devices, descriptors, changes, bytes.

**`DeviceProxy`** (`DeviceProxyProofs`): `TypeOK`, `UrbAccounting`,
`NoTransferAfterCompletion`, `NoFalseSuccess`, `FlagMeansSettled` and `OutcomeStable`. None is
inductive: that a reaped request has no second URB depends on its having been
submitted once, and that on where it could be before. `IndInv` follows a request along its
way. `FreshUnknown`: before `submit()` nobody else knows it. `ReadyHasNoUrb`: it is in
`readyList` at most once and has no URB while there or in the hands of the submitting
proxy. `UrbAccounting`: once in the kernel it remembers its URB, so completion frees exactly
that, and it is in the kernel no longer. `OutstandingIsLive`: whoever completes it has
taken it from the place it was in, so a request that can reach the device is not being
completed, unless an abort gave up on it. `OutcomeKnown`: the error is set, or the transfer
happened, before `setCompleted()`. `ClosedForGood`: the memory of an URB is lost only with
the device. Each step of `Next` is shown to keep each part; `ListTheorems` has what
`Append`, `Tail` and `RemoveFirst` do to membership and injectivity.

`ContractImplemented`, in the same module: every step of `DeviceProxy` is a step of `RequestContract`
or changes none of its four variables. `IndInv` gives what the abstract guards ask for: a
request that the kernel finishes is outstanding, therefore open; one that is about to be
completed is pending, or its outcome does not change any more, or it was abandoned.

**Aborts** (in the same module): `AbortInv` adds to `IndInv` where a request is that an abort has
taken: its copy, the list it still has to wait for, or the thread's own hands, and that a
request leaves `inProgressList` only completed. `AbortedAreCompleted` and `LiveRequestTracked`
follow for any number of aborters and pipes.
`AbortOnceInv`: a request is added to the list of its pipe once and taken from it by one abort,
which waits for it once, so at most one abort gives up on it, and once. `OnceInv`: at most two
completions of a request are due, one at the end of its way through the queue, the proxy and
the kernel and one by an abort that gave up on it, each in one place. Together they give
`CompletedOnce`.

**`ProxyStart`** (`MonitorProofs`): `HandOver` is inductive, and gives `OneProxyThread`,
`NoStrayThread` and, for each step, `StartTellsTruth`, for any number of starters, as long as
no wait ended early. It says at which point of its `start()` a native thread is known
to whom.

**`RequestWait`** (in the same module): `MonitorInv` is inductive. `NoLostWakeup` needs
`WaitCountExact`, since `notifyCompleted()` looks at `waitCount`, and that rests on the
theorems about cardinality.

**`Transfers`** (`TransfersProofs`): `HeapInv`, which kinds of memory a transfer owns at each
point of its way, is inductive, and gives `NothingLeaks`. `TransfersInv` gives `TypeOK`,
`DeviceGetsWhatWasGiven`, `ArrayGetsWhatCame` and `FailureIsReported`. Three parties compute where
the part of an IRP is: the code from the IRPs (`BufferOf`), the kernel from the length of the
buffer or the packet lengths (`KernelLengths`), and the code again when it copies back (`CopyFrom`).
`BufferInv` says that from `FillUrb` on that place is `Begin(k)`, a sum of the lengths asked for,
and what is there; `ArrivedInv` that no packet has more than was asked, so that the clamps of the
code change nothing and parts that are disjoint stay so. `FlagsInv` follows the short packet flag
from `AllocateUrb` to the kernel. That the buffer is the parts one behind the other
(`FlattenParts`) and that a recursive sum exists and adds up (`Recursion`, `SumsAdd`) is proved by
the least counterexample, since the library's induction cannot be used.

**`Topology`** (`TopologyProofs`): all six: `TypeOK`, `PortHoldsOne`, `TreeRooted`,
`EventsMatchTree`, `UpdateIsFaithful` and, for each step, `SteadyDevicesKept`. In the middle of a
scan the tree is not what it was and not yet what it will be, so the invariant speaks of the tree
as it will be: `InTree` and `Spot` are the objects that were found again and the new ones, and
where they go. `ListsInv` says what the lists `connected`, `disconnected` and `pending` may hold at
each point; `PortsInv` that each port of that tree is taken by one object or one call still to
be made, and belongs to a hub of that tree. `OrderInv` says what makes the loops safe although they
take one device at a time: a new hub is in `connected` before what hangs on it, nothing old hangs
on a new hub, and a hub that is gone too early was disconnected by the same update; `EventsInv`
which part of both lists listeners have heard of. From these follow `PortHoldsOne`, `TreeRooted`
and `EventsMatchTree` (`TreeInv`). `FaithInv` says, as
long as nothing changed since the update began, that only what is plugged in is shown or called,
in its port, and that what is plugged into something shown is shown or called: when no call is
left that is all of the bus (`TreeAssumption`: by the first device missing, from the root).
`SettledInv` says where a call for each object that was in the right place still is, as long as
that object may be disconnected.

**`DeviceSetup`** (`DeviceSetupProofs`): `TypeOK`, `TreeMatchesDevice`, `NoFalseRejection`,
`ActiveExists` and `ActiveIsTheDevices`, for any devices. `FileHolds` says where in the node each
configuration and each of its descriptors begins, from `FlattenLayout` of `ListTheorems`: part n of
a flattened list is at the sum of the lengths before it. `NextDescriptor`, `InterfaceShown` and
`EndpointShown` say what the object must become when one descriptor more is counted: an interface
is the next in its order, an endpoint belongs to the last interface, and nothing else changes.
`Parser` joins the two: between two reads the offset is that of a descriptor, `end` is what is
left of the configuration, and the object `Shows` the descriptors before it; so the loop
ends exactly where the configuration does. It is inductive with `Typed`, `StillThere` (a file that is
not lost is that of the device at the address) and `Answers` (what is asked of a device that is there
is one of its own numbers or 0), and gives the first two;
the last two follow with what `Chosen` checks, as long as nothing but `Open` and `OpenFails` leaves
"attached". `NoFalseRejection` is about "failed" alone: refusals of `open()` and of the ioctls
("refused") are for the kernel to decide, and nothing is claimed of them.

**`FirstUpdate`** (`FirstUpdateProofs`): `ScanInv` is inductive: the types, the order of the numbers
(`tree` and `scanned` at most `bus`, and `tree` at most `scanned` while a scan runs), and
`NoChangeForgotten`, since each hand-over, from the kernel to the listener, the queue and the scan,
puts the next one in charge before it lets go. The order is what lets a scan that ends take over
from the queue. `NoLostFirstUpdate` follows from the flag being set and read under the lock of the
notification.

**`InterfaceClaim`** (`InterfaceClaimProofs`): none of the four safety properties is inductive,
since what the caller notes, what the proxy does and what the kernel has change at different
moments. `ClaimInv` bridges them: `Ours(i)` is what will be noted once the call in progress
has returned, and `OwnerInv` that the kernel agrees with that at every moment.
`QueueInv` puts each waiting call in one place, `KeepingInv` leaves each claim to its keeper,
`RefusalInv` counts the rounds of a forced claim, and `UsingInv` says that a checked request finds
its interface claimed until a release overtakes it; of vendor requests it says nothing. From these follow `ClaimTellsTruth`,
`NothingKeptUnclaimed`, `ForceOnlyWhenAsked` and `UnclaimedIsNotUsed`.

The type invariants and the inductive invariants are proved and not repeated in the runs.

**Only model-checked**: liveness. The prover handles neither fairness nor ENABLED. Theorems that take an
operator, such as those of induction, are out of its reach as well; `UpTo` in `ListTheorems` is
induction for a set, proved from the least element. No module uses RECURSIVE operators.

## 6. What is not modelled

Logging (`JavaxUsbLog`), reading of properties, the build and packaging files, `Version` and the
JNI creation of Java objects: no state, and nothing depends on it. Translation of error numbers:
an error is there or not, or one of five classes. The parts of `JavaxUsbActive.c` that
`JavaxUsb.h:170-190` leaves out of the build (reading `/proc/bus/usb/devices`, asking an
interface for its setting). `busses`, ports and keys are numbers and model values, not strings.

## 7. What could follow

An abstract topology, the tree of the last undisturbed scan, that `Topology` implements; the
composition of `DeviceProxy` with two devices that share the addresses of one process.
