------------------------------ MODULE MCSession ------------------------------
(***************************************************************************)
(* Instances of Session for TLC.                                           *)
(***************************************************************************)
EXTENDS Session, TLC

CONSTANTS u1, u2

UserSymmetry == Permutations(Users)
==============================================================================
