--------------------------- MODULE MCDeviceSetup ---------------------------
(***************************************************************************)
(* Five devices: one with two configurations, class specific descriptors   *)
(* and two settings of an interface; one with a single configuration; one  *)
(* whose last descriptor says that it goes on into the next configuration; *)
(* one with a descriptor of length 0; and one with an interface and an     *)
(* endpoint that are too short for their fields.                           *)
(***************************************************************************)
EXTENDS DeviceSetup

Interface(n, s) == <<4, DT_INTERFACE, n, s>>
Endpoint(a) == <<3, DT_ENDPOINT, a>>
ClassSpecific == <<2, 36>>

MCDevices == {
    << [value |-> 1, body |-> << Interface(0, 0), ClassSpecific, Endpoint(1), Interface(0, 1),
                                Endpoint(1), Endpoint(2), Interface(1, 1), ClassSpecific >>],
       [value |-> 2, body |-> << ClassSpecific, Interface(0, 0), Endpoint(3) >>] >>,
    << [value |-> 3, body |-> << Interface(0, 0), Endpoint(1) >>] >>,
    << [value |-> 1, body |-> << Interface(0, 0), <<4, 36>> >>],
       [value |-> 2, body |-> << Interface(0, 0), Endpoint(1) >>] >>,
    << [value |-> 1, body |-> << Interface(0, 0), <<0, 36>> >>] >>,
    << [value |-> 4, body |-> << <<3, DT_INTERFACE, 0>>, Endpoint(1), <<2, DT_ENDPOINT>> >>] >> }
=============================================================================
