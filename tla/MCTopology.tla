---------------------------- MODULE MCTopology ----------------------------
(* An instance of Topology for TLC: two busses with the host controllers   *)
(* hc1 and hc2; on a port of hc2 the hub h, or the device g with the same  *)
(* address; on a port of h the device m, or n, which looks just like it;   *)
(* on a port of hc1 the device x, which gets the address of m.             *)
EXTENDS Topology

CONSTANTS hc1, hc2, h, g, m, n, x

MCDevices == {hc1, hc2, h, g, m, n, x}

MCParentOf == [d \in MCDevices |->
    IF d \in {hc1, hc2} THEN RootHub ELSE IF d \in {h, g} THEN hc2 ELSE IF d = x THEN hc1 ELSE h]

MCPortOf == [d \in MCDevices |-> IF d \in {hc2, x} THEN 2 ELSE 1]

\* The device node; h and g get the same one, and so do m, n and x.
MCKeyOf == [d \in MCDevices |-> IF d = g THEN h ELSE IF d \in {n, x} THEN m ELSE d]

MCDescOf == [d \in MCDevices |-> IF d = n THEN m ELSE d]
=============================================================================
