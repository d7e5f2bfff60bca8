---------------------------- MODULE MCTransfers ----------------------------
(***************************************************************************)
(* Transfers for TLC: an array of four bytes; one IRP in the middle, at    *)
(* the end, or empty; two IRPs apart, next to each other out of order, and *)
(* one of them empty.                                                      *)
(***************************************************************************)
EXTENDS Transfers

At(offset, length) == [offset |-> offset, length |-> length]

MCLayouts == {<<At(1, 2)>>, <<At(3, 1)>>, <<At(0, 0)>>,
              <<At(0, 1), At(2, 2)>>, <<At(2, 2), At(1, 1)>>, <<At(1, 0), At(1, 2)>>}

\* The last kernel with QUEUE_BULK, the first without, a 2.5 that has interrupt
\* URBs, and a release string with two numbers ("3.0-rc1").
MCReleases == {<<2, 4, 29>>, <<2, 4, 30>>, <<2, 5, 0>>, <<3, 0>>}
=============================================================================
