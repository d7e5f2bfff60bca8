------------------------------- MODULE Usbfs -------------------------------
(***************************************************************************)
(* The kernel side of one open usbdevfs file descriptor, as                *)
(* jni/JavaxUsbDeviceProxy.c and the jni/JavaxUsb*Request.c files use it:  *)
(* USBDEVFS_SUBMITURB, USBDEVFS_DISCARDURB, USBDEVFS_REAPURBNDELAY and     *)
(* close().  The kernel is not part of the repository (external).          *)
(*                                                                         *)
(* The kernel knows an URB by the user-space address that was submitted.   *)
(* The addresses come from malloc() and go back to it with free(), so an   *)
(* address names different URBs over time: this is the data that matters   *)
(* here, and an URB is its address.                                        *)
(***************************************************************************)
CONSTANTS
    Requests,   \* the LinuxRequest objects
    Addrs,      \* the addresses malloc() can return for a usbdevfs_urb
    None        \* no request, no address (0), no thread (null)

ASSUME NoneAssumption == None \notin Requests /\ None \notin Addrs

VARIABLES
    device,     \* "present", or "gone" once unplugged
    urbState,   \* what the URB at each address is doing
    urbOwner    \* the request in urb->usercontext

kernelVars == <<device, urbState, urbOwner>>

\* "free" is memory malloc() may return. "ok", "io" and "unlinked" are URBs
\* completed by the kernel and not reaped: successfully, with an error, or by
\* DISCARDURB. "lost" is the memory of an URB the kernel dropped when the
\* descriptor was closed: no code frees it.
Finished == {"ok", "io", "unlinked"}
InKernelStates == {"inflight"} \cup Finished
UrbStates == {"free", "lost"} \cup InKernelStates

UsbfsTypeOK ==
    /\ device \in {"present", "gone"}
    /\ urbState \in [Addrs -> UrbStates]
    /\ urbOwner \in [Addrs -> Requests \cup {None}]
    /\ \A a \in Addrs : urbState[a] \in InKernelStates => urbOwner[a] \in Requests

UsbfsInit ==
    /\ device = "present"
    /\ urbState = [a \in Addrs |-> "free"]
    /\ urbOwner = [a \in Addrs |-> None]

\* The URBs of request r that the kernel still holds.
UrbsOf(r) == {a \in Addrs : urbOwner[a] = r /\ urbState[a] \in InKernelStates}

\* ioctl(USBDEVFS_SUBMITURB) of a new URB at address a for request r.
SubmitUrb(r, a) ==
    /\ device = "present"
    /\ urbState[a] = "free"
    /\ urbState' = [urbState EXCEPT ![a] = "inflight"]
    /\ urbOwner' = [urbOwner EXCEPT ![a] = r]
    /\ UNCHANGED device

\* ioctl(USBDEVFS_DISCARDURB, address): the kernel looks the address up among
\* the URBs in flight, whichever request owns it, and fails if there is none.
DiscardUrb(a) ==
    /\ urbState' = [b \in Addrs |->
                      IF b = a /\ urbState[b] = "inflight" THEN "unlinked"
                                                           ELSE urbState[b]]
    /\ UNCHANGED <<device, urbOwner>>

\* ioctl(USBDEVFS_REAPURBNDELAY) returns the URB at a, and the caller frees the
\* URB at u (nothing, if u is None). If these differ the memory at a is lost.
ReapUrb(a, u) ==
    /\ urbState[a] \in Finished
    /\ urbState' = [b \in Addrs |-> IF b = u THEN "free"
                                    ELSE IF b = a THEN "lost" ELSE urbState[b]]
    /\ urbOwner' = [b \in Addrs |-> IF b = u THEN None ELSE urbOwner[b]]
    /\ UNCHANGED device

NothingToReap == \A a \in Addrs : urbState[a] \notin Finished

\* close(fd): the kernel drops its URBs; nobody frees them.
CloseFd ==
    /\ urbState' = [a \in Addrs |-> IF urbState[a] \in InKernelStates
                                      THEN "lost" ELSE urbState[a]]
    /\ UNCHANGED <<device, urbOwner>>

-----------------------------------------------------------------------------
(* The device and the bus.                                                 *)

\* The transfer at address a ends, well or badly.
FinishUrb(a) ==
    /\ urbState[a] = "inflight"
    /\ \E result \in {"ok", "io"} :
          urbState' = [urbState EXCEPT ![a] = result]
    /\ UNCHANGED <<device, urbOwner>>

\* The device is unplugged: what is in flight fails, later ioctls get ENODEV.
Unplug ==
    /\ device = "present"
    /\ device' = "gone"
    /\ urbState' = [a \in Addrs |-> IF urbState[a] = "inflight"
                                      THEN "io" ELSE urbState[a]]
    /\ UNCHANGED urbOwner

=============================================================================
