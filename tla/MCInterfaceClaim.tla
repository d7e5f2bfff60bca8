-------------------------- MODULE MCInterfaceClaim --------------------------
(***************************************************************************)
(* InterfaceClaim for TLC: one thread keeps all interfaces, the others use *)
(* them.                                                                   *)
(***************************************************************************)
EXTENDS InterfaceClaim

CONSTANT TheKeeper

MCKeeper == [i \in Interfaces |-> TheKeeper]
=============================================================================
