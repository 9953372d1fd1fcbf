------------------------------ MODULE MCPairing ------------------------------
(***************************************************************************)
(* Model values for Pairing.                                               *)
(***************************************************************************)
EXTENDS Pairing

CONSTANTS l1, l2, t1, t2, p1, p2
==============================================================================
