--------------------------- MODULE MCDeviceProxy ---------------------------
(* Instances of DeviceProxy for TLC.                                       *)
EXTENDS DeviceProxyInv

CONSTANTS r1, r2, r3, c1, p1

\* r1 and r2 are submitted on the pipe p1, r3 and c1 on the device's own queue.
MCPipeOf == [r \in Requests |-> IF r \in {r1, r2} THEN p1 ELSE None]

\* Sound for the safety run: nothing tells one address from another.
Symmetric == Permutations(Addrs)
=============================================================================
