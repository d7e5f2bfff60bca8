-------------------------- MODULE RequestContract --------------------------
(***************************************************************************)
(* What submitting a request promises the application that holds its IRP:  *)
(* the abstract specification of LinuxPipeOsImp, LinuxDeviceOsImp and      *)
(* LinuxRequest, without lists, threads, URBs or a kernel.  DeviceProxy    *)
(* implements it (DeviceProxyInv!Contract).                                *)
(***************************************************************************)
CONSTANTS
    Requests,
    Errors,     \* what can be reported instead of a success
    Unreported  \* requests whose errors are not passed on to the IRP

VARIABLES
    submitted,  \* requests given to the device
    served,     \* requests the device has really carried out
    abandoned,  \* requests an abort has stopped waiting for
    outcome     \* what the IRP says: "pending", "none" (success) or an error

vars == <<submitted, served, abandoned, outcome>>

TypeOK ==
    /\ submitted \subseteq Requests
    /\ served \subseteq submitted /\ abandoned \subseteq submitted
    /\ outcome \in [Requests -> Errors \cup {"pending", "none"}]

Init ==
    /\ submitted = {} /\ served = {} /\ abandoned = {}
    /\ outcome = [r \in Requests |-> "pending"]

Submit(r) ==
    /\ r \notin submitted
    /\ submitted' = submitted \cup {r}
    /\ UNCHANGED <<served, abandoned, outcome>>

\* The device and the buffer of the IRP still belong to the request: it is
\* submitted and not completed, or nobody knows since an abort gave up on it.
Open(r) == r \in submitted /\ (outcome[r] = "pending" \/ r \in abandoned)

Serve(r) ==
    /\ Open(r)
    /\ served' = served \cup {r}
    /\ UNCHANGED <<submitted, abandoned, outcome>>

\* The answer may race with the abort: a request that is just completed too.
Abandon(r) ==
    /\ r \in submitted
    /\ abandoned' = abandoned \cup {r}
    /\ UNCHANGED <<submitted, served, outcome>>

\* The IRP is handed back: as a success only if the device has served it.
Complete(r, e) ==
    /\ Open(r)
    /\ e = "none" => r \in served \cup Unreported
    /\ outcome' = [outcome EXCEPT ![r] = e]
    /\ UNCHANGED <<submitted, served, abandoned>>

Next ==
    \E r \in Requests :
        \/ Submit(r) \/ Serve(r) \/ Abandon(r)
        \/ \E e \in Errors \cup {"none"} : Complete(r, e)

Spec == Init /\ [][Next]_vars
=============================================================================
