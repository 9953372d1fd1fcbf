--------------------------- MODULE MCPropertyLists ---------------------------
(***************************************************************************)
(* Instances of PropertyLists for TLC.                                     *)
(***************************************************************************)
EXTENDS PropertyLists

CONSTANTS t1, t2
==============================================================================
